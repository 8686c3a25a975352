----------------------------- MODULE ConfigProofs -----------------------------
(***************************************************************************)
(* Proofs about Config: what config.Settings is at each point of main(),   *)
(* as a function of the command line and the environment.                  *)
(***************************************************************************)
EXTENDS Config, TLAPS

Flags == {"a", "r", "d"}

StartInv ==
    /\ proc \in {"down", "flags"} => settings = Zero
    /\ proc \in {"flags", "env"} => launch \in Launches
    /\ proc = "env" => /\ settings = FromArgs(launch.flags)
                       /\ \A f \in Flags : launch.flags[f] # Malformed
    /\ ServesAsAsked

LEMMA GivenForms ==
  ASSUME NEW x, IsGiven(x)
  PROVE  /\ x = Unset <=> x.form = "unset"
         /\ x = Malformed <=> x.form = "malformed"
         /\ x.form = "value" <=> x = Value(x.value)
         /\ x.form \in {"unset", "malformed", "value"}
  BY DEF IsGiven, Unset, Malformed, Value

LEMMA FromArgsFields ==
  ASSUME NEW flags
  PROVE  /\ FromArgs(flags)["address"] = Address(flags.a)
         /\ FromArgs(flags)["accrual"] = AccrualSystemAddress(flags.r)
         /\ FromArgs(flags)["database"] = IF flags.d = Unset THEN "" ELSE flags.d.value
         /\ \A f \in {"hours", "buffer", "workers"} : FromArgs(flags)[f] = 0
         /\ FromArgs(flags)["key"] = ""
  BY DEF FromArgs, Zero, Fields

\* An URL keeps what is before its slash, and ends with one.
LEMMA SlashAdded ==
  ASSUME NEW v, IsURL(v)
  PROVE  /\ [v EXCEPT !.slash = "/"].scheme = v.scheme
         /\ [v EXCEPT !.slash = "/"].address = v.address
         /\ [v EXCEPT !.slash = "/"].slash = "/"
  <1>1. PICK c, a, s : v = [scheme |-> c, address |-> a, slash |-> s] BY DEF IsURL
  <1>2. [v EXCEPT !.slash = "/"] = [scheme |-> c, address |-> a, slash |-> "/"] BY <1>1
  <1> QED BY <1>1, <1>2

LEMMA Hosts ==
  /\ NoHost("none") # NoHost("0")
  /\ \A port : Localhost("8081") # NoHost(port)
  <1>1. NoHost("none").port = "none" /\ NoHost("0").port = "0" BY DEF NoHost
  <1>2. Localhost("8081").host = "localhost" /\ \A port : NoHost(port).host = "any"
    BY DEF NoHost, Localhost
  <1> QED BY <1>1, <1>2

\* What the address of a flag comes to.
LEMMA AddressFromArgs ==
  ASSUME NEW flag, IsGiven(flag), flag # Malformed
  PROVE  /\ flag.form # "value" => Address(flag) = Localhost("8081")
         /\ flag.form = "value" =>
              Address(flag) = IF flag.value = NoHost("none") THEN Localhost("8080")
                              ELSE IF flag.value = NoHost("0") THEN Localhost("8081")
                              ELSE flag.value
  <1>1. CASE flag.form # "value"
    <2>1. flag = Unset BY <1>1, GivenForms
    <2> QED BY <1>1, <2>1 DEF Address
  <1>2. CASE flag.form = "value" /\ flag.value = NoHost("0")
    <2>1. flag = Value(NoHost("0")) BY <1>2, GivenForms
    <2> QED BY <1>2, <2>1, Hosts DEF Address
  <1>3. CASE flag.form = "value" /\ flag.value # NoHost("0")
    <2>1. flag # Unset BY <1>3 DEF Unset
    <2>2. flag # Value(NoHost("0")) BY <1>3 DEF Value
    <2> QED BY <1>3, <2>1, <2>2 DEF Address, NetAddress
  <1> QED BY <1>1, <1>2, <1>3

\* What the URL of a flag comes to.
LEMMA AccrualFromArgs ==
  ASSUME NEW flag, IsGiven(flag), flag # Malformed
  PROVE  /\ IsURL(AccrualSystemAddress(flag))
         /\ flag.form # "value" => AccrualSystemAddress(flag) = NothingAsked.accrual
         /\ flag.form = "value" =>
              /\ AccrualSystemAddress(flag).scheme = flag.value.scheme
              /\ AccrualSystemAddress(flag).address =
                   IF flag.value.address = NoHost("none") THEN Localhost("8080")
                   ELSE flag.value.address
  <1>1. CASE flag = Unset
    BY <1>1 DEF AccrualSystemAddress, IsURL, Unset, NothingAsked
  <1>2. CASE flag # Unset
    <2>1. flag.form = "value" BY <1>2, GivenForms
    <2> QED BY <1>2, <2>1 DEF AccrualSystemAddress, IsURL, NetAddress
  <1> QED BY <1>1, <1>2

------------------------------------------------------------------------------
(***************************************************************************)
(* env.Parse over what the flags left, for any environment.                *)
(***************************************************************************)
LEMMA ParseEnvServes ==
  ASSUME StartInv, ParseEnv
  PROVE  ServesAsAsked'
  <1> DEFINE env == launch.env
             flags == launch.flags
  <1>1. /\ launch \in Launches /\ launch' = launch /\ settings = FromArgs(flags)
        /\ flags.a # Malformed /\ flags.r # Malformed /\ flags.d # Malformed
    BY DEF StartInv, ParseEnv, Flags
  <1>2. /\ IsGiven(flags.a) /\ IsGiven(flags.r) /\ IsGiven(flags.d)
        /\ \A f \in Fields : IsGiven(env[f])
        /\ env.accrual.form = "value" => IsURL(env.accrual.value)
    BY <1>1, ConfigAssumption
  <1>3. /\ settings["address"] = Address(flags.a)
        /\ settings["accrual"] = AccrualSystemAddress(flags.r)
        /\ settings["database"] = IF flags.d = Unset THEN "" ELSE flags.d.value
        /\ \A f \in {"hours", "buffer", "workers"} : settings[f] = 0
        /\ settings["key"] = ""
    BY <1>1, FromArgsFields
  <1>4. /\ \A f \in Fields \ {"accrual"} : settings'[f] = FromEnv(f)
        /\ settings'["accrual"] = [FromEnv("accrual") EXCEPT !.slash = "/"]
    BY DEF ParseEnv, Fields
  <1>5. \A f : HasVariable(f)' = HasVariable(f) /\ Asked(f)' = Asked(f)
    BY <1>1 DEF HasVariable, Asked
  <1>6. \A f : HasVariable(f) => FromEnv(f) = env[f].value /\ Asked(f) = env[f].value
    BY DEF HasVariable, FromEnv, Asked
  <1>7. ASSUME NEW f \in {"address", "accrual", "database"}, ~HasVariable(f)
        PROVE  FromEnv(f) = settings[f]
    BY <1>7 DEF HasVariable, FromEnv, Defaults
  <1>8. ASSUME NEW f \in {"key", "hours", "buffer", "workers"}
        PROVE  FromEnv(f) = Asked(f)
    <2>1. f \notin DOMAIN FlagOf /\ f \in DOMAIN Defaults /\ f \in Fields
      BY DEF FlagOf, Defaults, Fields
    <2>2. Defaults[f] = NothingAsked[f]
      <3>1. /\ Defaults["key"] = NothingAsked["key"] /\ Defaults["hours"] = NothingAsked["hours"]
            /\ Defaults["buffer"] = NothingAsked["buffer"]
            /\ Defaults["workers"] = NothingAsked["workers"]
        BY DEF Defaults, NothingAsked
      <3> QED BY <3>1
    <2>3. settings[f] = IF f = "key" THEN "" ELSE 0
      BY <1>3
    <2>4. env[f].form \in {"unset", "malformed", "value"}
      BY <1>2, <2>1, GivenForms
    <2> QED BY <1>6, <2>1, <2>2, <2>3, <2>4 DEF HasVariable, FromEnv, Asked
  <1>9. /\ ~HasVariable("database") => Asked("database") =
              IF flags.d.form = "value" THEN flags.d.value ELSE ""
        /\ ~HasVariable("address") => Asked("address") =
              IF flags.a.form = "value" THEN flags.a.value ELSE Localhost("8081")
        /\ ~HasVariable("accrual") => Asked("accrual") =
              IF flags.r.form = "value" THEN flags.r.value ELSE NothingAsked.accrual
    BY DEF HasVariable, Asked, FlagOf, NothingAsked
  <1>10. FromEnv("database") = Asked("database")
    <2>1. flags.d = Unset <=> flags.d.form # "value"
      BY <1>1, <1>2, GivenForms DEF IsGiven, Unset
    <2> QED BY <1>3, <1>6, <1>7, <1>9, <2>1
  <1>11. \A f \in Fields \ {"address", "accrual"} : settings'[f] = Asked(f)
    BY <1>4, <1>8, <1>10 DEF Fields
  <1>12. settings'["address"] =
            IF HasVariable("address") THEN Asked("address")
            ELSE IF Asked("address") = NoHost("none") THEN Localhost("8080")
            ELSE IF Asked("address") = NoHost("0") THEN Localhost("8081")
            ELSE Asked("address")
    <2>1. settings'["address"] = FromEnv("address") BY <1>4 DEF Fields
    <2>2. CASE HasVariable("address")
      BY <1>6, <2>1, <2>2
    <2>3. CASE ~HasVariable("address")
      <3>1. FromEnv("address") = Address(flags.a) BY <1>3, <1>7, <2>3
      <3>2. IsGiven(flags.a) /\ flags.a # Malformed BY <1>1, <1>2
      <3>3. CASE flags.a.form = "value"
        <4>1. Asked("address") = flags.a.value BY <1>9, <2>3, <3>3
        <4>2. Address(flags.a) = IF flags.a.value = NoHost("none") THEN Localhost("8080")
                                 ELSE IF flags.a.value = NoHost("0") THEN Localhost("8081")
                                 ELSE flags.a.value
          BY <3>2, <3>3, AddressFromArgs
        <4> QED BY <2>1, <2>3, <3>1, <4>1, <4>2
      <3>4. CASE flags.a.form # "value"
        <4>1. Asked("address") = Localhost("8081") BY <1>9, <2>3, <3>4
        <4>2. Address(flags.a) = Localhost("8081") BY <3>2, <3>4, AddressFromArgs
        <4> QED BY <2>1, <2>3, <3>1, <4>1, <4>2, Hosts
      <3> QED BY <3>3, <3>4
    <2> QED BY <2>2, <2>3
  <1>13. /\ IsURL(FromEnv("accrual"))
         /\ FromEnv("accrual").scheme = Asked("accrual").scheme
         /\ FromEnv("accrual").address =
              IF ~HasVariable("accrual") /\ Asked("accrual").address = NoHost("none")
              THEN Localhost("8080")
              ELSE Asked("accrual").address
    <2>1. CASE HasVariable("accrual")
      BY <1>2, <1>6, <2>1 DEF HasVariable
    <2>2. CASE ~HasVariable("accrual") /\ flags.r.form = "value"
      BY <1>1, <1>2, <1>3, <1>7, <1>9, <2>2, AccrualFromArgs
    <2>3. CASE ~HasVariable("accrual") /\ flags.r.form # "value"
      <3>1. FromEnv("accrual") = NothingAsked.accrual /\ Asked("accrual") = NothingAsked.accrual
        BY <1>1, <1>2, <1>3, <1>7, <1>9, <2>3, AccrualFromArgs
      <3>2. NothingAsked.accrual.address # NoHost("none")
        BY DEF NothingAsked, NoHost, Localhost
      <3>3. IsURL(NothingAsked.accrual)
        BY DEF NothingAsked, IsURL
      <3> QED BY <2>3, <3>1, <3>2, <3>3
    <2> QED BY <2>1, <2>2, <2>3
  <1>14. /\ settings'["accrual"].scheme = FromEnv("accrual").scheme
         /\ settings'["accrual"].address = FromEnv("accrual").address
         /\ settings'["accrual"].slash = "/"
    BY <1>4, <1>13, SlashAdded
  <1> QED BY <1>5, <1>11, <1>12, <1>13, <1>14 DEF ServesAsAsked

LEMMA GiveUpKeeps == GiveUp => StartInv'
  BY DEF GiveUp, StartInv, ServesAsAsked

LEMMA StartKeepsInv == StartInv /\ Start => StartInv'
  <1> SUFFICES ASSUME StartInv, Start PROVE StartInv' OBVIOUS
  <1>1. CASE \E l \in Launches : Launch(l)
    BY <1>1 DEF Launch, StartInv, ServesAsAsked
  <1>2. CASE ParseFlags
    <2>1. CASE \E f \in Flags : launch.flags[f] = Malformed
      BY <1>2, <2>1, GiveUpKeeps DEF ParseFlags, Flags
    <2>2. CASE \A f \in Flags : launch.flags[f] # Malformed
      <3>1. /\ settings' = FromArgs(launch.flags) /\ proc' = "env" /\ launch' = launch
            /\ launch \in Launches
        BY <1>2, <2>2 DEF ParseFlags, Flags, StartInv
      <3> QED BY <2>2, <3>1 DEF StartInv, ServesAsAsked
    <2> QED BY <2>1, <2>2
  <1>3. CASE ParseEnv
    <2>1. proc' = "run" BY <1>3 DEF ParseEnv
    <2> QED BY <1>3, <2>1, ParseEnvServes DEF StartInv
  <1>4. CASE Run
    <2>1. CASE GiveUp BY <2>1, GiveUpKeeps
    <2>2. CASE proc' = "serving" BY <2>2 DEF StartInv, ServesAsAsked
    <2> QED BY <1>4, <2>1, <2>2 DEF Run
  <1> QED BY <1>1, <1>2, <1>3, <1>4 DEF Start
==============================================================================
