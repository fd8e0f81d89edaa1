---------------------------- MODULE SigCatchProofs ----------------------------
(***************************************************************************)
(* Proofs about SigCatch, for every sequence of signals, any number of     *)
(* arrivals and any number of root functions.                              *)
(***************************************************************************)
EXTENDS SigCatch, WellFoundedInduction, TLAPS

SigTypeOK ==
  /\ idx \in Nat /\ (pc \in {"install", "clear"} => idx > 0)
  /\ handler \in [SigSet -> {"ours", "old"}]
  /\ flags \in [SigSet -> BOOLEAN]
  /\ backup \subseteq SigSet

(* A signal that is owed has its flag set, unless it is being reported. *)
OwedIsFlagged == \A s \in owed : flags[s] \/ (pc = "report" /\ idx = s)

(* What caught() returns is one of the signals in ::backup. *)
CaughtIsOurs == pc \in {"reset", "report"} => idx \in backup

(* cleanup() finds every handler of ours in ::backup and passes over none. *)
OursIsBackedUp ==
  /\ \A s \in SigSet : handler[s] = "ours" => s \in backup
  /\ pc = "cleanup" /\ ok => \A s \in backup : s <= idx => handler[s] = "old"
  /\ pc \in {"launch", "clear", "end"} /\ ok => backup = {}

SigInv == SigTypeOK /\ OwedIsFlagged /\ CaughtIsOurs /\ OursIsBackedUp

(* The signals in the list are the ones with a flag. *)
LEMMA SigElement ==
  ASSUME NEW i \in Nat, i > 0, i <= Len(Sig)
  PROVE  Sig[i] \in SigSet
BY SigCatchAssumption DEF SigSet

(* Lowest() finds the signal that the iteration over ::backup is at. *)
LEMMA LowestProps ==
  ASSUME NEW S, S \subseteq Nat, S # {}
  PROVE  Lowest(S) \in S /\ \A t \in S : Lowest(S) <= t
<1> DEFINE R == OpToRel(<, Nat)
<1>1. \A x, y \in Nat : <<x, y>> \in R <=> x < y
  BY DEF OpToRel
<1>2. IsWellFoundedOn(R, Nat)
  BY NatLessThanWellFounded
<1> HIDE DEF R
<1>3. PICK x \in S : \A y \in S : ~(<<y, x>> \in R)
  BY <1>2, WFMin
<1>4. ASSUME NEW t \in S PROVE x = t \/ x < t
  <2>1. x \in Nat /\ t \in Nat /\ ~(<<t, x>> \in R)
    BY <1>3
  <2>2. ~(t < x)
    BY <1>1, <2>1
  <2> QED
    BY <2>1, <2>2
<1>5. \E s \in S : \A t \in S : s = t \/ Before(s, t)
  BY <1>4 DEF Before
<1>6. Lowest(S) \in S /\ \A t \in S : Lowest(S) = t \/ Before(Lowest(S), t)
  BY <1>5 DEF Lowest
<1>7. Lowest(S) \in Nat
  BY <1>6
<1>8. ASSUME NEW t \in S PROVE Lowest(S) <= t
  BY <1>6, <1>7 DEF Before
<1> QED
  BY <1>6, <1>8

(* Signals have positive numbers. *)
LEMMA SigSetType == SigSet \subseteq Nat /\ \A s \in SigSet : s > 0
BY SigCatchAssumption DEF SigSet

LEMMA SigInitInv == InitSig => SigInv
BY DEF InitSig, SigInv, SigTypeOK, OwedIsFlagged, CaughtIsOurs, OursIsBackedUp

(* A signal arrives between any two steps of the program. *)
LEMMA ArriveInv ==
  ASSUME SigInv, NEW s \in SigSet, Arrive(s)
  PROVE  SigInv'
<1>1. /\ UNCHANGED <<pc, idx, handler, backup, ok>>
      /\ \/ flags' = [flags EXCEPT ![s] = TRUE] /\ owed' = owed \cup {s}
         \/ UNCHANGED <<flags, owed>>
  BY DEF Arrive, GenericSignalHandler
<1>2. SigTypeOK' /\ CaughtIsOurs' /\ OursIsBackedUp'
  <2>1. flags' \in [SigSet -> BOOLEAN]
    BY <1>1 DEF SigInv, SigTypeOK
  <2>2. /\ pc' = pc /\ idx' = idx /\ handler' = handler
        /\ backup' = backup /\ ok' = ok
    BY <1>1
  <2> QED
    BY <2>1, <2>2 DEF SigInv, SigTypeOK, CaughtIsOurs, OursIsBackedUp
<1>3. OwedIsFlagged'
  <2> SUFFICES ASSUME NEW t \in owed' PROVE flags'[t] \/ (pc = "report" /\ idx = t)
    BY <1>1 DEF OwedIsFlagged
  <2>1. t \in owed => flags[t] \/ (pc = "report" /\ idx = t)
    BY DEF SigInv, OwedIsFlagged
  <2>2. CASE flags' = [flags EXCEPT ![s] = TRUE] /\ owed' = owed \cup {s}
    BY <2>1, <2>2 DEF SigInv, SigTypeOK
  <2> QED
    BY <1>1, <2>1, <2>2
<1> QED
  BY <1>2, <1>3 DEF SigInv

(* install() replaces one handler and stores the old one. *)
LEMMA InstallInv == SigInv /\ (Install \/ InstallFails) => SigInv'
<1> SUFFICES ASSUME SigInv, Install \/ InstallFails PROVE SigInv'
  OBVIOUS
<1>1. CASE idx <= Len(Sig) /\ Install /\ pc' = pc
  <2>1. Sig[idx] \in SigSet
    BY <1>1, SigElement DEF SigInv, SigTypeOK, Install
  <2>2. /\ pc = "install" /\ handler' = [handler EXCEPT ![Sig[idx]] = "ours"]
        /\ backup' = backup \cup {Sig[idx]} /\ idx' = idx + 1
        /\ UNCHANGED <<flags, owed, ok>>
    BY <1>1 DEF Install
  <2> QED
    BY <1>1, <2>1, <2>2 DEF SigInv, SigTypeOK, OwedIsFlagged, CaughtIsOurs, OursIsBackedUp
<1>2. CASE pc' = "run"
  <2>1. pc = "install" /\ idx' = 1 /\ UNCHANGED <<handler, backup, flags, owed, ok>>
    BY <1>2 DEF Install, InstallFails
  <2> QED
    BY <1>2, <2>1 DEF SigInv, SigTypeOK, OwedIsFlagged, CaughtIsOurs, OursIsBackedUp
<1> QED
  BY <1>1, <1>2 DEF Install, InstallFails

(* The loop over ::backup goes on with a signal of it. *)
LEMMA RestProps ==
  ASSUME SigTypeOK, NEW rest, rest = {s \in backup : s > idx}, rest # {}
  PROVE  /\ Lowest(rest) \in backup /\ Lowest(rest) \in SigSet
         /\ Lowest(rest) \in Nat /\ Lowest(rest) > idx
         /\ \A t \in backup : t > idx => Lowest(rest) <= t
<1>1. rest \subseteq Nat
  BY SigSetType DEF SigTypeOK
<1>2. Lowest(rest) \in rest /\ \A t \in rest : Lowest(rest) <= t
  BY <1>1, LowestProps
<1> QED
  BY <1>1, <1>2 DEF SigTypeOK

(* The analysis polls for signals, or is over. *)
LEMMA AnalyzeInv == SigInv /\ (NextRoot \/ Analyze) => SigInv'
<1> SUFFICES ASSUME SigInv, NextRoot \/ Analyze PROVE SigInv'
  OBVIOUS
<1>1. UNCHANGED <<handler, backup, flags, owed, ok>>
  BY DEF NextRoot, Analyze
<1>2. CASE NextRoot
  BY <1>1, <1>2 DEF NextRoot, SigInv, SigTypeOK, OwedIsFlagged, CaughtIsOurs, OursIsBackedUp
<1>3. CASE Analyze
  <2>1. pc = "run" /\ pc' \in {"poll", "cleanup"} /\ idx' = 0
    BY <1>3 DEF Analyze
  <2>2. \A s \in backup : ~(s <= 0)
    BY SigSetType DEF SigInv, SigTypeOK
  <2> QED
    BY <1>1, <2>1, <2>2 DEF SigInv, SigTypeOK, OwedIsFlagged, CaughtIsOurs, OursIsBackedUp
<1> QED
  BY <1>2, <1>3

(* caught() stops at a signal of ::backup whose flag is set. *)
LEMMA PollInv == SigInv /\ Poll => SigInv'
<1> SUFFICES ASSUME SigInv, Poll PROVE SigInv'
  OBVIOUS
<1> DEFINE rest == {s \in backup : s > idx}
<1>1. pc = "poll" /\ UNCHANGED <<handler, backup, flags, owed, ok>>
  BY DEF Poll
<1>2. CASE pc' = "run" /\ idx' = idx
  BY <1>1, <1>2 DEF SigInv, SigTypeOK, OwedIsFlagged, CaughtIsOurs, OursIsBackedUp
<1>3. CASE rest # {} /\ idx' = Lowest(rest) /\ pc' \in {"reset", "poll"}
  <2>1. idx' \in backup /\ idx' \in Nat
    BY <1>3, RestProps DEF SigInv
  <2> QED
    BY <1>1, <1>3, <2>1 DEF SigInv, SigTypeOK, OwedIsFlagged, CaughtIsOurs, OursIsBackedUp
<1> QED
  BY <1>2, <1>3 DEF Poll

(* The flag of the signal to be reported is cleared before the report. *)
LEMMA ReportInv == SigInv /\ (ResetFlag \/ Report) => SigInv'
<1> SUFFICES ASSUME SigInv, ResetFlag \/ Report PROVE SigInv'
  OBVIOUS
<1>1. UNCHANGED <<idx, handler, backup, ok>>
  BY DEF ResetFlag, Report
<1>2. CASE ResetFlag
  BY <1>1, <1>2 DEF ResetFlag, SigInv, SigTypeOK, OwedIsFlagged, CaughtIsOurs, OursIsBackedUp
<1>3. CASE Report
  <2>1. /\ pc = "report" /\ pc' \in {"died", "run"} /\ flags' = flags
        /\ owed' = IF flags[idx] THEN owed ELSE owed \ {idx}
    BY <1>3 DEF Report
  <2>2. OwedIsFlagged'
    BY <1>1, <2>1 DEF SigInv, OwedIsFlagged
  <2> QED
    BY <1>1, <2>1, <2>2 DEF SigInv, SigTypeOK, CaughtIsOurs, OursIsBackedUp
<1> QED
  BY <1>2, <1>3

(* cleanup() restores the handlers in the order of the signals. *)
LEMMA RestoreInv == SigInv /\ Restore => SigInv'
<1> SUFFICES ASSUME SigInv, Restore PROVE SigInv'
  OBVIOUS
<1> DEFINE rest == {s \in backup : s > idx}
<1>1. pc = "cleanup" /\ UNCHANGED <<flags, owed>>
  BY DEF Restore
<1>2. CASE rest # {}
  <2>1. PICK s : s = Lowest(rest)
    OBVIOUS
  <2>2. /\ s \in backup /\ s \in SigSet /\ s \in Nat /\ s > idx
        /\ \A t \in backup : t > idx => s <= t
    BY <1>2, <2>1, RestProps DEF SigInv
  <2>3. /\ idx' = s /\ UNCHANGED <<pc, backup>>
        /\ \/ handler' = [handler EXCEPT ![s] = "old"] /\ ok' = ok
           \/ ok' = FALSE /\ handler' = handler
    BY <1>2, <2>1 DEF Restore
  <2>4. SigTypeOK' /\ OwedIsFlagged' /\ CaughtIsOurs'
    BY <1>1, <2>2, <2>3 DEF SigInv, SigTypeOK, OwedIsFlagged, CaughtIsOurs
  <2>5. \A t \in SigSet : handler'[t] = "ours" => t \in backup'
    BY <2>2, <2>3 DEF SigInv, SigTypeOK, OursIsBackedUp
  <2>6. ASSUME ok', NEW t \in backup, t <= s PROVE handler'[t] = "old"
    <3>1. ok /\ handler' = [handler EXCEPT ![s] = "old"]
      BY <2>3, <2>6
    <3>2. t \in SigSet /\ t \in Nat /\ idx \in Nat
      BY SigSetType DEF SigInv, SigTypeOK
    <3>3. t <= idx \/ t = s
      BY <2>2, <2>6, <3>2
    <3> QED
      BY <1>1, <2>2, <3>1, <3>2, <3>3 DEF SigInv, SigTypeOK, OursIsBackedUp
  <2> QED
    BY <1>1, <2>3, <2>4, <2>5, <2>6 DEF SigInv, OursIsBackedUp
<1>3. CASE rest = {}
  <2>1. /\ idx' = 1 /\ UNCHANGED <<handler, ok>>
        /\ pc' = IF ok THEN "clear" ELSE "launch"
        /\ backup' = IF ok THEN {} ELSE backup
    BY <1>3 DEF Restore
  <2>2. ASSUME ok, NEW t \in SigSet PROVE handler[t] = "old"
    <3>1. t \in backup => t <= idx
      BY <1>3, SigSetType DEF SigInv, SigTypeOK
    <3> QED
      BY <1>1, <2>2, <3>1 DEF SigInv, SigTypeOK, OursIsBackedUp
  <2> QED
    BY <1>1, <2>1, <2>2 DEF SigInv, SigTypeOK, OwedIsFlagged, CaughtIsOurs, OursIsBackedUp
<1> QED
  BY <1>2, <1>3

(* cleanup() clears the flags. *)
LEMMA ClearFlagsInv == SigInv /\ ClearFlags => SigInv'
<1> SUFFICES ASSUME SigInv, ClearFlags PROVE SigInv'
  OBVIOUS
<1>1. pc = "clear" /\ UNCHANGED <<handler, backup, ok>>
  BY DEF ClearFlags
<1>2. CASE idx <= Len(Sig)
  <2>1. Sig[idx] \in SigSet
    BY <1>1, <1>2, SigElement DEF SigInv, SigTypeOK
  <2>2. /\ flags' = [flags EXCEPT ![Sig[idx]] = FALSE]
        /\ owed' = owed \ {Sig[idx]} /\ idx' = idx + 1 /\ pc' = pc
    BY <1>2, SigCatchAssumption DEF ClearFlags, SigInv, SigTypeOK
  <2> QED
    BY <1>1, <2>1, <2>2 DEF SigInv, SigTypeOK, OwedIsFlagged, CaughtIsOurs, OursIsBackedUp
<1>3. CASE idx > Len(Sig)
  <2>1. pc' = "launch" /\ UNCHANGED <<flags, idx, owed>>
    BY <1>3, SigCatchAssumption DEF ClearFlags, SigInv, SigTypeOK
  <2> QED
    BY <1>1, <2>1 DEF SigInv, SigTypeOK, OwedIsFlagged, CaughtIsOurs, OursIsBackedUp
<1> QED
  BY <1>2, <1>3, SigCatchAssumption DEF SigInv, SigTypeOK

LEMMA SigStepInv == SigInv /\ [NextSig]_vars => SigInv'
<1> SUFFICES ASSUME SigInv, [NextSig]_vars PROVE SigInv'
  OBVIOUS
<1>1. CASE UNCHANGED vars
  BY <1>1 DEF vars, SigInv, SigTypeOK, OwedIsFlagged, CaughtIsOurs, OursIsBackedUp
<1> QED
  BY <1>1, ArriveInv, InstallInv, AnalyzeInv, PollInv, ReportInv, RestoreInv, ClearFlagsInv
  DEF NextSig, Program

LEMMA SigInvariant == SigSpec => []SigInv
BY SigInitInv, SigStepInv, PTL DEF SigSpec

(***************************************************************************)
(* However many signals arrive, and wherever: one that generic_signal_     *)
(* handler() got while the analysis runs is not lost between the test of   *)
(* its flag in caught() and the reset.                                     *)
(***************************************************************************)
THEOREM SignalsNotLost == SigSpec => []NotLostUnnoticed
<1>1. SigInv => NotLostUnnoticed
  BY DEF SigInv, OwedIsFlagged, NotLostUnnoticed
<1> QED
  BY <1>1, SigInvariant, PTL

(* Between two root functions, and at the regular end, no handler of ours. *)
CleanBetweenRoots ==
  pc \in {"launch", "end"} /\ ok => \A s \in SigSet : handler[s] = "old"

(***************************************************************************)
(* The loop of SignalCatcher::cleanup() passes over no signal: as long as  *)
(* signal() did not fail there, the previous handlers are back before the  *)
(* next root function, however far installSignalHandlers() had come.       *)
(***************************************************************************)
THEOREM CleanupIsComplete == SigSpec => []CleanBetweenRoots
<1>1. SigInv => CleanBetweenRoots
  BY DEF SigInv, SigTypeOK, OursIsBackedUp, CleanBetweenRoots
<1> QED
  BY <1>1, SigInvariant, PTL

===============================================================================
