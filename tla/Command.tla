------------------------------- MODULE Command ------------------------------
(***************************************************************************)
(* One run of the buff binary (cmd/buff/main.go, cli/cli.go): the action   *)
(* its arguments name, the signals it gets and the status it exits with.   *)
(* The actions themselves are modules Copy, Paste and Serve.               *)
(***************************************************************************)
EXTENDS Naturals, FiniteSets

VARIABLES
  act,               \* the action, fixed at the start
  signals,           \* SIGINT or SIGTERM so far, at most 2
  exit               \* the exit status, Running until then

commandVars == <<act, signals, exit>>

Running == 256       \* no process status

Canceled == signals > 0
Over == exit # Running

\* Status names and the errors the client decodes them to, by exit code.
exitCode(err) ==
  CASE err = "none"        -> 0
    [] err = "notfound"    -> 3
    [] err = "consumed"    -> 4
    [] err \in {"toolarge", "nospace"} -> 5
    [] err \in {"busy", "closed", "precondition",
                "destexist", "entryexist", "exist"} -> 6
    [] err = "torn"        -> 7
    [] err = "unreachable" -> 8
    [] err = "unavailable" -> 9
    [] OTHER               -> 1

clientExit(code) == IF code # 0 /\ Canceled THEN 130 ELSE code

\* The client's run returns err.
Returns(err) == exit' = clientExit(exitCode(err))

CommandTypeOK ==
  /\ act \in {"copy", "paste", "serve", "ask"} /\ signals \in 0..2
  /\ exit \in 0..255 \cup {Running}

CommandInit(actions) == act \in actions /\ signals = 0 /\ exit = Running

\* watchSignals: the first signal cancels the context, the second exits.
Interrupt ==
  /\ ~Over
  /\ signals < 2
  /\ signals' = signals + 1
  /\ exit' = IF Canceled THEN 130 ELSE exit
  /\ UNCHANGED act
=============================================================================
