------------------------------- MODULE SigCatch -------------------------------
(***************************************************************************)
(* Signals (sigcatch.cc) during the analysis of the root functions         *)
(* (cl_symexec.cc, execute() and processPendingSignals() in symexec.cc).   *)
(*                                                                         *)
(* The program tests, clears and restores one flag or handler at a time; a *)
(* signal may arrive between any two of these steps.                       *)
(***************************************************************************)
EXTENDS Integers, Sequences

CONSTANTS
  Sig,         \* the signals that installSignalHandlers() asks for, in order
  DieSigs,     \* those that end the analysis: all but SIGUSR1
  Root         \* functions that launchSymExec() may execute

ASSUME SigCatchAssumption ==
  /\ Sig \in Seq(Nat \ {0})
  /\ DieSigs \subseteq {Sig[i] : i \in 1..Len(Sig)}

SigSet == {Sig[i] : i \in 1..Len(Sig)}

VARIABLES
  pc,        \* where the program is
  idx,       \* the position in a loop over signals
  handler,   \* handler[s]: "ours" is generic_signal_handler
  backup,    \* ::backup, the signals whose handler was replaced
  flags,     \* sig_flags
  roots,     \* the root functions left to be executed
  ok,        \* cleanup(): no handler failed to be restored
  owed,      \* history: signals that our handler got and nobody has reported
  dropped    \* history: those that cleanup() has dropped

vars == <<pc, idx, handler, backup, flags, roots, ok, owed, dropped>>

InitSig ==
  /\ pc = "launch" /\ idx = 1
  /\ handler = [s \in SigSet |-> "old"]
  /\ backup = {}
  /\ flags = [s \in SigSet |-> FALSE]
  /\ roots \in SUBSET Root
  /\ ok = TRUE
  /\ owed = {} /\ dropped = {}

(* generic_signal_handler() *)
GenericSignalHandler(s) == flags' = [flags EXCEPT ![s] = TRUE]

(* A signal arrives, at any point of the program and as often as it likes. *)
Arrive(s) ==
  /\ \/ /\ handler[s] = "ours"
        /\ GenericSignalHandler(s)
        /\ owed' = owed \cup {s}
     \/ /\ handler[s] = "old"
        /\ UNCHANGED <<flags, owed>>
  /\ UNCHANGED <<pc, idx, handler, backup, roots, ok, dropped>>

(* launchSymExec(), execVirtualRoots(): the next root function, if any *)
NextRoot ==
  /\ pc = "launch"
  /\ \/ \E r \in roots : /\ roots' = roots \ {r}
                         /\ pc' = "install" /\ idx' = 1
     \/ roots = {} /\ pc' = "end" /\ UNCHANGED <<roots, idx>>
  /\ UNCHANGED <<handler, backup, flags, ok, owed, dropped>>

(***************************************************************************)
(* SignalCatcher::install() for the next signal; the && of                 *)
(* installSignalHandlers() gives up on the first failure, which is only    *)
(* worth a warning.                                                        *)
(***************************************************************************)
Install ==
  /\ pc = "install"
  /\ \/ /\ idx <= Len(Sig) /\ Sig[idx] \notin backup
        /\ handler' = [handler EXCEPT ![Sig[idx]] = "ours"]
        /\ backup' = backup \cup {Sig[idx]}
        /\ idx' = idx + 1 /\ UNCHANGED pc
     \/ /\ idx <= Len(Sig) => Sig[idx] \in backup
        /\ pc' = "run" /\ idx' = 1
        /\ UNCHANGED <<handler, backup>>
  /\ UNCHANGED <<flags, roots, ok, owed, dropped>>

(* signal() returns SIG_ERR. *)
InstallFails ==
  /\ pc = "install" /\ idx <= Len(Sig)
  /\ pc' = "run" /\ idx' = 1
  /\ UNCHANGED <<handler, backup, flags, roots, ok, owed, dropped>>

(* The signals in the order in which caught() walks over ::backup. *)
Before(s, t) == s < t
Lowest(S) == CHOOSE s \in S : \A t \in S : s = t \/ Before(s, t)

(* execInsn() executes one more heap, or the analysis is complete. *)
Analyze ==
  /\ pc = "run"
  /\ pc' \in {"poll", "cleanup"}
  /\ idx' = 0
  /\ UNCHANGED <<handler, backup, flags, roots, ok, owed, dropped>>

(* Mutant: the search ends at the first signal, caught or not. *)
Poll_FirstOnly ==
  LET s == Lowest(backup)
  IN  /\ pc = "poll"
      /\ \/ backup = {} /\ pc' = "run" /\ UNCHANGED idx
         \/ backup # {} /\ idx' = s /\ pc' = IF flags[s] THEN "reset" ELSE "run"
      /\ UNCHANGED <<handler, backup, flags, roots, ok, owed, dropped>>

(* caught(): test the flag of the next signal in ::backup ... *)
Poll ==
  LET rest == {s \in backup : s > idx}
      s == Lowest(rest)
  IN  /\ pc = "poll"
      /\ \/ rest = {} /\ pc' = "run" /\ UNCHANGED idx
         \/ rest # {} /\ idx' = s /\ pc' = IF flags[s] THEN "reset" ELSE "poll"
      /\ UNCHANGED <<handler, backup, flags, roots, ok, owed, dropped>>

(* Mutant: all flags are cleared at once. *)
ResetFlag_All ==
  /\ pc = "reset" /\ pc' = "report"
  /\ flags' = [s \in SigSet |-> FALSE]
  /\ UNCHANGED <<idx, handler, backup, roots, ok, owed, dropped>>

(* ... and clear it. *)
ResetFlag ==
  /\ pc = "reset" /\ pc' = "report"
  /\ flags' = [flags EXCEPT ![idx] = FALSE]
  /\ UNCHANGED <<idx, handler, backup, roots, ok, owed, dropped>>

(***************************************************************************)
(* processPendingSignals() says what it caught.  SIGUSR1 asks for nothing  *)
(* else; any other signal throws an exception, which leaves execute() and  *)
(* is caught by clEasyRun() only.                                          *)
(***************************************************************************)
Report ==
  /\ pc = "report"
  /\ owed' = IF flags[idx] THEN owed ELSE owed \ {idx}
  /\ pc' = IF idx \in DieSigs THEN "died" ELSE "run"
  /\ UNCHANGED <<idx, handler, backup, flags, roots, ok, dropped>>

(* SignalCatcher::cleanup() restores the handlers one by one ... *)
Restore ==
  LET rest == {s \in backup : s > idx}
      s == Lowest(rest)
  IN  /\ pc = "cleanup"
      /\ \/ /\ rest # {} /\ idx' = s /\ UNCHANGED <<pc, backup>>
            /\ \/ handler' = [handler EXCEPT ![s] = "old"] /\ UNCHANGED ok
               \/ ok' = FALSE /\ UNCHANGED handler
         \/ /\ rest = {} /\ idx' = 1
            /\ pc' = IF ok THEN "clear" ELSE "launch"
            /\ backup' = IF ok THEN {} ELSE backup
            /\ UNCHANGED <<handler, ok>>
      /\ UNCHANGED <<flags, roots, owed, dropped>>

(* ... and forgets whatever has not been reported. *)
ClearFlags ==
  /\ pc = "clear"
  /\ \/ /\ idx <= Len(Sig)
        /\ flags' = [flags EXCEPT ![Sig[idx]] = FALSE]
        /\ dropped' = dropped \cup ({Sig[idx]} \cap owed)
        /\ owed' = owed \ {Sig[idx]}
        /\ idx' = idx + 1 /\ UNCHANGED pc
     \/ idx > Len(Sig) /\ pc' = "launch" /\ UNCHANGED <<flags, idx, owed, dropped>>
  /\ UNCHANGED <<handler, backup, roots, ok>>

Program == \/ NextRoot \/ Install \/ InstallFails \/ Analyze \/ Poll \/ ResetFlag
           \/ Report \/ Restore \/ ClearFlags

NextSig == Program \/ \E s \in SigSet : Arrive(s)

(* The program runs on; nothing is assumed of the senders of signals. *)
SigSpec == InitSig /\ [][NextSig]_vars /\ WF_vars(Program)

-----------------------------------------------------------------------------

Analyzing == pc \in {"run", "poll", "reset", "report"}

(***************************************************************************)
(* A signal that arrived between the test of its flag and the reset, or    *)
(* while another one was being handled, is still going to be reported as   *)
(* long as the analysis runs.                                              *)
(***************************************************************************)
NotLostUnnoticed ==
  Analyzing => \A s \in owed : flags[s] \/ (pc = "report" /\ idx = s)

(* A request to finish that caught() can see. *)
Requested(s) == Analyzing /\ s \in backup /\ flags[s]

(* caught() has answered with a signal that comes before s and ends nothing. *)
Overtaken(s) == \E t \in backup \ DieSigs : t < s /\ pc = "report" /\ idx = t

(***************************************************************************)
(* A request to finish ends the analysis, however many signals arrive,     *)
(* unless caught() answers with a signal of a lower number that asks for   *)
(* nothing; and every time it does so, the request is again the next one   *)
(* or overtaken.  SIGINT has the lowest number; SIGTERM waits as long as   *)
(* SIGUSR1 has come again before every poll.                               *)
(***************************************************************************)
DieSignalEndsAnalysis ==
  \A s \in DieSigs : Requested(s) ~> (~Analyzing \/ Overtaken(s))

(***************************************************************************)
(* The same without the exception: a signal "will be processed in          *)
(* SymExecEngine::processPendingSignals() eventually" (symexec.cc).        *)
(***************************************************************************)
RequestIsServed == \A s \in DieSigs : Requested(s) ~> ~Analyzing

(***************************************************************************)
(* Whatever ended the analysis, the previous handlers are back.  execute() *)
(* has "uninstall signal handlers" at its end.                             *)
(***************************************************************************)
HandlersRestored == pc \in {"end", "died"} /\ ok => \A s \in SigSet : handler[s] = "old"

(***************************************************************************)
(* A signal that our handler got "will be processed in                     *)
(* SymExecEngine::processPendingSignals() eventually" (symexec.cc): none   *)
(* is dropped.                                                             *)
(***************************************************************************)
EventuallyProcessed == dropped = {}

===============================================================================
