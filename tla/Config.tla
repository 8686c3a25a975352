-------------------------------- MODULE Config --------------------------------
(***************************************************************************)
(* The start of the process: flags, environment, Sanitize and the checks   *)
(* of server.Run.  The environment goes over a flag and a flag over a      *)
(* default.  A variable that does not parse, or is the empty text, leaves  *)
(* its field as it was: env.Parse goes on with the next field, and main.go *)
(* prints the error and goes on.  The settings of init() are overwritten   *)
(* by ParseFlags before anybody reads them.                                *)
(*                                                                         *)
(* Of a text only what the code looks at is kept: whether it was given,    *)
(* whether it parses, and its value.  Hours stand for any unit of time.    *)
(* LogLevel and OrderStatusCheckPeriod are left out, and so are hosts that *)
(* need brackets and numbers of hours that overflow a time.Duration.       *)
(***************************************************************************)
EXTENDS Integers

CONSTANTS
    Launches,      \* the command lines and environments the process is started with
    MaxLaunches,   \* bound: starts of the process
    DefaultHours   \* envDefault of JWT_EXPIRE_HOURS

VARIABLES
    proc,          \* how far the process is
    launch,        \* the command line and the environment of its start
    settings,      \* config.Settings
    launches

configVars == <<proc, launch, settings, launches>>

\* What is given for a flag or a variable of the environment.
Unset == [form |-> "unset"]
Malformed == [form |-> "malformed"]
Value(v) == [form |-> "value", value |-> v]

Fields == {"address", "accrual", "database", "key", "hours", "buffer", "workers"}

IsGiven(x) == x \in {Unset, Malformed} \/ x = Value(x.value)
IsURL(v) == v = [scheme |-> v.scheme, address |-> v.address, slash |-> v.slash]

ASSUME ConfigAssumption ==
    /\ MaxLaunches \in Nat
    /\ DefaultHours \in Nat
    /\ \A l \in Launches :
        /\ \A f \in {"a", "r", "d"} : IsGiven(l.flags[f])
        /\ \A f \in Fields : IsGiven(l.env[f])
        /\ l.flags.r.form = "value" => IsURL(l.flags.r.value)
        /\ l.env.accrual.form = "value" => IsURL(l.env.accrual.value)
        /\ l.env.hours.form = "value" => l.env.hours.value \in Int

Zero == [f \in Fields |-> IF f \in {"database", "key"} THEN "" ELSE 0]
NoLaunch == [none |-> TRUE]

ConfigInit ==
    /\ proc = "down"
    /\ launch = NoLaunch
    /\ settings = Zero
    /\ launches = 0

------------------------------------------------------------------------------
Localhost(port) == [host |-> "localhost", port |-> port]
NoHost(port) == [host |-> "any", port |-> port]

\* NetAddress.Set: of ":", without host and port, it makes a development server's address.
NetAddress(address) == IF address = NoHost("none") THEN Localhost("8080") ELSE address

(***************************************************************************)
(* ParseFlags.  An address that is zero counts as not given, ":0" too.     *)
(* HTTPAddress.String() always ends with a slash.                          *)
(***************************************************************************)
Address(flag) ==
    IF flag = Unset \/ flag = Value(NoHost("0")) THEN Localhost("8081")
    ELSE NetAddress(flag.value)

AccrualSystemAddress(flag) ==
    IF flag = Unset
    THEN [scheme |-> "http://", address |-> Localhost("8080"), slash |-> "/"]
    ELSE [scheme |-> flag.value.scheme, address |-> NetAddress(flag.value.address), slash |-> "/"]

FromArgs(flags) ==
    [Zero EXCEPT !.address = Address(flags.a),
                 !.accrual = AccrualSystemAddress(flags.r),
                 !.database = IF flags.d = Unset THEN "" ELSE flags.d.value]

Launch(l) ==
    /\ proc = "down"
    /\ launches < MaxLaunches
    /\ launches' = launches + 1
    /\ launch' = l
    /\ proc' = "flags"
    /\ UNCHANGED settings

\* The process ends without having served anything.
GiveUp ==
    /\ proc' = "down"
    /\ launch' = NoLaunch
    /\ settings' = Zero

\* flag.Parse exits when a flag does not parse; an empty -d is refused as well.
ParseFlags ==
    /\ proc = "flags"
    /\ IF \E f \in {"a", "r", "d"} : launch.flags[f] = Malformed
       THEN GiveUp
       ELSE /\ settings' = FromArgs(launch.flags)
            /\ proc' = "env"
            /\ UNCHANGED launch
    /\ UNCHANGED launches

\* The envDefault tags.
Defaults == [key |-> "DontUseThatInProduction", hours |-> DefaultHours,
             buffer |-> 1024, workers |-> 16]

\* env.Parse: a variable that is not set and has no default leaves the field alone.
FromEnv(f) ==
    CASE launch.env[f].form = "value" -> launch.env[f].value
      [] launch.env[f].form = "unset" /\ f \in DOMAIN Defaults -> Defaults[f]
      [] OTHER -> settings[f]

\* Mutant: the flags are parsed after the environment, over all of Settings.
ParseEnv_BeforeFlags ==
    /\ proc = "env"
    /\ settings' = FromArgs(launch.flags)
    /\ proc' = "run"
    /\ UNCHANGED <<launch, launches>>

\* env.Parse, whose error does not stop main(), and Config.Sanitize.
ParseEnv ==
    /\ proc = "env"
    /\ settings' = [f \in Fields |-> IF f = "accrual"
                                     THEN [FromEnv(f) EXCEPT !.slash = "/"]
                                     ELSE FromEnv(f)]
    /\ proc' = "run"
    /\ UNCHANGED <<launch, launches>>

(***************************************************************************)
(* server.Run: Fatal without a DSN, an error when the database cannot be   *)
(* reached or migrated; and a negative buffer size panics in make(chan),   *)
(* in the goroutine of WorkerLoop.                                         *)
(***************************************************************************)
Run ==
    /\ proc = "run"
    /\ \/ GiveUp
       \/ /\ settings.database # ""
          /\ settings.buffer >= 0
          /\ proc' = "serving"
          /\ launch' = NoLaunch
          /\ UNCHANGED settings
    /\ UNCHANGED launches

Start == (\E l \in Launches : Launch(l)) \/ ParseFlags \/ ParseEnv \/ Run

------------------------------------------------------------------------------
\* The settings of a process that is asked for nothing.
NothingAsked ==
    [address |-> Localhost("8081"),
     accrual |-> [scheme |-> "http://", address |-> Localhost("8080"), slash |-> "/"],
     database |-> "", key |-> "DontUseThatInProduction", hours |-> DefaultHours,
     buffer |-> 1024, workers |-> 16]

FlagOf == [address |-> "a", accrual |-> "r", database |-> "d"]
HasVariable(f) == launch.env[f].form = "value"

\* What is asked for: the variable, else the flag, else the default; but a variable
\* of a field without a flag that does not parse gives 0 (main.go:13).
Asked(f) ==
    IF HasVariable(f) THEN launch.env[f].value
    ELSE IF f \in DOMAIN FlagOf
    THEN IF launch.flags[FlagOf[f]].form = "value" THEN launch.flags[FlagOf[f]].value
         ELSE NothingAsked[f]
    ELSE IF launch.env[f].form = "unset" THEN NothingAsked[f]
    ELSE IF f = "key" THEN "" ELSE 0

(***************************************************************************)
(* When the process is about to serve, every setting is the one asked for, *)
(* with three liberties: the URL of the accrual system, which GetOrder     *)
(* puts before "api/orders/", always ends with a slash; the address ":" of *)
(* a flag means localhost:8080; and -a ":0" counts as not given.           *)
(***************************************************************************)
ServesAsAsked ==
    proc = "run" =>
        /\ \A f \in Fields \ {"address", "accrual"} : settings[f] = Asked(f)
        /\ settings.address =
              IF HasVariable("address") THEN Asked("address")
              ELSE IF Asked("address") = NoHost("none") THEN Localhost("8080")
              ELSE IF Asked("address") = NoHost("0") THEN Localhost("8081")
              ELSE Asked("address")
        /\ settings.accrual.scheme = Asked("accrual").scheme
        /\ settings.accrual.address =
              IF ~HasVariable("accrual") /\ Asked("accrual").address = NoHost("none")
              THEN Localhost("8080")
              ELSE Asked("accrual").address
        /\ settings.accrual.slash = "/"
==============================================================================
