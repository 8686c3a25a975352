----------------------------- MODULE MCRequests -------------------------------
(* Instances of Requests for TLC: the ways the process is started.          *)
EXTENDS Requests

CONSTANTS HighestHours

DSN == Value("dsn")
NoFlags == [a |-> Unset, r |-> Unset, d |-> DSN]
NoEnv == [f \in Fields |-> Unset]
Plain == [flags |-> NoFlags, env |-> NoEnv]

Addresses == {NoHost("none"), NoHost("0"), [host |-> "flag", port |-> "80"]}
URL(scheme, address, slash) ==
    Value([scheme |-> scheme, address |-> address, slash |-> slash])

AddressFlags == {Unset, Malformed} \cup {Value(a) : a \in Addresses}
AccrualFlags == {Unset, Malformed} \cup {URL("https://", a, "") : a \in Addresses}
AccrualVariables ==
    {Unset, Malformed} \cup
    {URL("http://", a, s) : a \in {NoHost("none"), [host |-> "env", port |-> "80"]},
                            s \in {"", "/"}}

\* One setting at a time is given by its flag, by its variable, by both or by none.
OneSetting ==
    {[Plain EXCEPT !.flags.a = f, !.env.address = v] :
        f \in AddressFlags, v \in {Unset, Malformed, Value([host |-> "env", port |-> "80"])}}
    \cup {[Plain EXCEPT !.flags.r = f, !.env.accrual = v] :
        f \in AccrualFlags, v \in AccrualVariables}
    \cup {[Plain EXCEPT !.flags.d = f, !.env.database = v] :
        f \in {Unset, Malformed, DSN}, v \in {Unset, Malformed, Value("env")}}
    \cup {[Plain EXCEPT !.env.key = v] : v \in {Malformed, Value("secret")}}
    \cup {[Plain EXCEPT !.env.hours = v] :
        v \in {Malformed} \cup {Value(h) : h \in -1 .. HighestHours}}
    \cup {[Plain EXCEPT !.env.buffer = v] : v \in {Malformed, Value(-1)}}
    \cup {[Plain EXCEPT !.env.workers = Malformed]}
==============================================================================
