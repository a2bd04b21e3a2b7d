-------------------------- MODULE MigrationProofs --------------------------
(***************************************************************************)
(* Proofs about Migration, for all tables, references and interruptions,   *)
(* whatever the scraper inserts meanwhile.                                 *)
(***************************************************************************)
EXTENDS Migration, TLAPS

USE MigrationAssumption

Phases == {"threads", "posts", "webms", "aliases", "done"}

(* The old rows of the tables the script has come to.                      *)
Upto(ph) ==
    CASE ph = "threads" -> Thread [] ph = "posts" -> Thread \cup Post
      [] ph = "webms" -> Thread \cup Post \cup Webm
      [] ph = "aliases" -> Old [] ph = "done" -> Old

(* The tables come in an order in which every row follows those it refers  *)
(* to, each is come to once, and none is left out.                         *)
LEMMA TablesInOrder ==
    /\ After("start") = "threads" /\ Upto("threads") = Table("threads")
    /\ \A ph \in Phases \ {"done"} :
          /\ After(ph) \in Phases
          /\ Upto(After(ph)) = Upto(ph) \cup Table(After(ph))
          /\ Upto(ph) \cap Table(After(ph)) = {}
    /\ \A ph \in Phases :
          /\ Table(ph) \subseteq Upto(ph) /\ Upto(ph) \subseteq Old
          /\ \A o \in Table(ph) \ Thread : RefOf[o] \in Upto(ph) \ Table(ph)
          /\ \A o \in Table(ph) \cap Alias : WebmOf[o] \in Upto(ph) \ Table(ph)
    /\ Upto("done") = Old
PROOF
  <1> USE DEF After, Upto, Table, Old
  <1>1. /\ After("start") = "threads" /\ Upto("threads") = Table("threads")
        /\ Upto("done") = Old
    OBVIOUS
  <1>2. ASSUME NEW ph \in Phases \ {"done"}
        PROVE  /\ After(ph) \in Phases
               /\ Upto(After(ph)) = Upto(ph) \cup Table(After(ph))
               /\ Upto(ph) \cap Table(After(ph)) = {}
    BY <1>2 DEF Phases
  <1>3. ASSUME NEW ph \in Phases
        PROVE  /\ Table(ph) \subseteq Upto(ph) /\ Upto(ph) \subseteq Old
               /\ \A o \in Table(ph) \ Thread : RefOf[o] \in Upto(ph) \ Table(ph)
               /\ \A o \in Table(ph) \cap Alias : WebmOf[o] \in Upto(ph) \ Table(ph)
    <2>1. CASE ph = "threads"
      BY <2>1
    <2>2. CASE ph = "posts"
      BY <2>2
    <2>3. CASE ph = "webms"
      BY <2>3
    <2>4. CASE ph = "aliases"
      BY <2>4
    <2>5. CASE ph = "done"
      BY <2>5
    <2> QED
      BY <1>3, <2>1, <2>2, <2>3, <2>4, <2>5 DEF Phases
  <1> QED
    BY <1>1, <1>2, <1>3

(***************************************************************************)
(* The inductive invariant.                                                *)
(***************************************************************************)
Running == phase # "idle"

(* Before the columns are there nothing has been copied; afterwards the    *)
(* script does not start again.                                            *)
NothingYet == ~altered => ~Running /\ new = {}

(* A table is selected when its turn comes, and none while nobody runs the *)
(* script.                                                                 *)
SelectedFromTable == IF Running THEN selected \subseteq Table(phase) ELSE selected = {}

(* What has been copied is of a table the script has come to, and is not   *)
(* selected any more.                                                      *)
CopiedIsBehind == Running => \A r \in new : r.old \in Upto(phase) \ selected

(* A row was inserted after those it refers to.                            *)
Closed(S) ==
    /\ \A o \in S \ Thread : RefOf[o] \in S
    /\ \A o \in S \cap Alias : WebmOf[o] \in S

(* The new row of o, with what o refers to.                                *)
CopiedWhole(o) ==
    \E r \in new :
        /\ r.old = o
        /\ o \notin Thread => r.ref = RefOf[o]
        /\ o \in Alias => r.webm = WebmOf[o]

(* Of the tables the script has come to, nothing that was there when it    *)
(* began is lost: it is still selected, or has been copied.                *)
NothingPassedOver ==
    Running => \A o \in at_start \cap Upto(phase) : o \in selected \/ CopiedWhole(o)

MigrationInv ==
    /\ TypeOK
    /\ NothingYet /\ SelectedFromTable /\ CopiedIsBehind
    /\ Closed(old) /\ Closed(at_start)
    /\ NothingPassedOver
    /\ CopiedOnce

(* A reference that has been copied resolves.                              *)
LEMMA ResolvedCopied ==
    ASSUME NEW o, CopiedWhole(o)
    PROVE  Resolved(o) = o
PROOF BY DEF CopiedWhole, Resolved

(* The script comes to its next table.                                     *)
LEMMA SelectKeeps ==
    ASSUME MigrationInv, phase \in Phases \ {"done"}, selected = {}, Select(phase),
           UNCHANGED <<old, altered, new, at_start, faults>>
    PROVE  MigrationInv'
PROOF
  <1>1. phase' \in Phases /\ selected' = old \cap Table(phase')
    BY TablesInOrder DEF Select
  <1>2. Upto(phase') = Upto(phase) \cup Table(phase') /\ Upto(phase) \cap Table(phase') = {}
    BY TablesInOrder DEF Select
  <1>3. Running /\ Running'
    BY <1>1 DEF Running, Phases
  <1>4. TypeOK'
    BY <1>1 DEF MigrationInv, TypeOK, Phases
  <1>5. CopiedIsBehind'
    BY <1>1, <1>2, <1>3 DEF MigrationInv, CopiedIsBehind
  <1>6. NothingPassedOver'
    <2> SUFFICES ASSUME NEW o \in at_start, o \in Upto(phase')
                 PROVE  o \in selected' \/ CopiedWhole(o)'
      BY DEF NothingPassedOver
    <2>1. CASE o \in Table(phase')
      BY <1>1, <2>1 DEF MigrationInv, TypeOK
    <2>2. CASE o \in Upto(phase)
      BY <1>3, <2>2 DEF MigrationInv, NothingPassedOver, CopiedWhole
    <2> QED
      BY <1>2, <2>1, <2>2
  <1>7. (NothingYet /\ SelectedFromTable /\ Closed(old) /\ Closed(at_start) /\ CopiedOnce)'
    BY <1>1, <1>3 DEF MigrationInv, NothingYet, Running, SelectedFromTable, Closed, CopiedOnce
  <1> QED
    BY <1>4, <1>5, <1>6, <1>7 DEF MigrationInv

(* A row is copied once, with its references if it was there at the start. *)
LEMMA CopyRowKeeps ==
    ASSUME MigrationInv, NEW o \in Old, CopyRow(o)
    PROVE  MigrationInv'
PROOF
  <1>1. /\ o \in selected /\ selected' = selected \ {o}
        /\ new' = new \cup {Copy(o)}
        /\ UNCHANGED <<old, altered, phase, at_start, faults>>
    BY DEF CopyRow
  <1>2. Running /\ phase \in Phases /\ o \in Table(phase)
    BY <1>1 DEF MigrationInv, SelectedFromTable, Running, TypeOK, Phases
  <1>3. \A r \in new : r.old # o
    BY <1>1, <1>2 DEF MigrationInv, CopiedIsBehind
  <1>4. Copy(o).old = o
    BY DEF Copy
  <1>5. TypeOK'
    <2>1. Copy(o) \in [old : old, ref : Thread \cup Post \cup {None}, webm : Webm \cup {None}]
      <3>1. o \in old
        BY <1>1 DEF MigrationInv, TypeOK
      <3>2. o \notin Thread => RefOf[o] \in Thread \cup Post
        BY DEF Old
      <3>3. o \in Alias => WebmOf[o] \in Webm
        OBVIOUS
      <3> QED
        BY <3>1, <3>2, <3>3 DEF Copy, Resolved
    <2> QED
      BY <1>1, <2>1 DEF MigrationInv, TypeOK
  <1>6. CopiedIsBehind'
    BY <1>1, <1>2, <1>4, TablesInOrder DEF MigrationInv, CopiedIsBehind
  <1>7. NothingPassedOver'
    <2> SUFFICES ASSUME NEW q \in at_start, q \in Upto(phase)
                 PROVE  q \in selected' \/ CopiedWhole(q)'
      BY <1>1 DEF NothingPassedOver
    <2>1. CASE q # o
      BY <1>1, <1>2, <2>1 DEF MigrationInv, NothingPassedOver, CopiedWhole
    <2>2. CASE q = o
      <3>1. o \notin Thread => Resolved(RefOf[o]) = RefOf[o]
        <4> SUFFICES ASSUME o \notin Thread PROVE CopiedWhole(RefOf[o])
          BY ResolvedCopied
        <4>1. RefOf[o] \in at_start /\ RefOf[o] \in Upto(phase) \ Table(phase)
          BY <1>2, <2>2, TablesInOrder DEF MigrationInv, Closed
        <4>2. RefOf[o] \notin selected
          BY <1>2, <4>1 DEF MigrationInv, SelectedFromTable
        <4> QED
          BY <1>2, <4>1, <4>2 DEF MigrationInv, NothingPassedOver
      <3>2. o \in Alias => Resolved(WebmOf[o]) = WebmOf[o]
        <4> SUFFICES ASSUME o \in Alias PROVE CopiedWhole(WebmOf[o])
          BY ResolvedCopied
        <4>1. WebmOf[o] \in at_start /\ WebmOf[o] \in Upto(phase) \ Table(phase)
          BY <1>2, <2>2, TablesInOrder DEF MigrationInv, Closed
        <4>2. WebmOf[o] \notin selected
          BY <1>2, <4>1 DEF MigrationInv, SelectedFromTable
        <4> QED
          BY <1>2, <4>1, <4>2 DEF MigrationInv, NothingPassedOver
      <3>3. /\ Copy(o).old = o
            /\ o \notin Thread => Copy(o).ref = RefOf[o]
            /\ o \in Alias => Copy(o).webm = WebmOf[o]
        BY <3>1, <3>2 DEF Copy
      <3> QED
        BY <1>1, <2>2, <3>3 DEF CopiedWhole
    <2> QED
      BY <2>1, <2>2
  <1>8. CopiedOnce'
    BY <1>1, <1>3, <1>4 DEF MigrationInv, CopiedOnce
  <1>9. (NothingYet /\ SelectedFromTable /\ Closed(old) /\ Closed(at_start))'
    BY <1>1, <1>2 DEF MigrationInv, NothingYet, SelectedFromTable, Running, Closed
  <1> QED
    BY <1>5, <1>6, <1>7, <1>8, <1>9 DEF MigrationInv

(* At the start nothing is selected and nothing is copied.                 *)
LEMMA MigrationInit == Init => MigrationInv
PROOF
  <1> SUFFICES ASSUME Init PROVE MigrationInv
    OBVIOUS
  <1>1. TypeOK
    <2>1. MaxFaults \in 0..MaxFaults
      OBVIOUS
    <2> QED
      BY <2>1 DEF Init, TypeOK
  <1> QED
    BY <1>1 DEF Init, MigrationInv, NothingYet, Running, SelectedFromTable, CopiedIsBehind,
                Closed, NothingPassedOver, CopiedOnce

(* Every step keeps what is known of the rows selected and copied.         *)
LEMMA MigrationStep == MigrationInv /\ [Next]_vars => MigrationInv'
PROOF
  <1> SUFFICES ASSUME MigrationInv, [Next]_vars PROVE MigrationInv'
    OBVIOUS
  <1>1. CASE Start
    <2>1. /\ phase' = "threads" /\ selected' = old \cap Thread /\ altered' = TRUE
          /\ at_start' = old /\ UNCHANGED <<old, new, faults>> /\ new = {}
      BY <1>1, TablesInOrder DEF Start, Select, Table, MigrationInv, NothingYet
    <2>2. TypeOK'
      BY <2>1 DEF MigrationInv, TypeOK
    <2>3. NothingPassedOver'
      BY <2>1 DEF NothingPassedOver, Upto
    <2> QED
      BY <2>1, <2>2, <2>3 DEF MigrationInv, NothingYet, Running, SelectedFromTable, Table,
                              CopiedIsBehind, Closed, CopiedOnce
  <1>2. CASE NextTable
    BY <1>2, SelectKeeps DEF NextTable, MigrationInv, TypeOK, Phases
  <1>3. ASSUME NEW o \in Old, CopyRow(o) PROVE MigrationInv'
    BY <1>3, CopyRowKeeps
  <1>4. CASE Interrupted
    <2>1. /\ phase' = "idle" /\ selected' = {} /\ faults' \in 0..MaxFaults
          /\ UNCHANGED <<old, altered, new, at_start>>
      BY <1>4 DEF Interrupted, Stop, MigrationInv, TypeOK
    <2>2. altered
      BY <1>4 DEF Interrupted, MigrationInv, NothingYet, SelectedFromTable, Running
    <2>3. TypeOK'
      BY <2>1 DEF MigrationInv, TypeOK
    <2> QED
      BY <2>1, <2>2, <2>3 DEF MigrationInv, NothingYet, Running, SelectedFromTable,
                              CopiedIsBehind, Closed, NothingPassedOver, CopiedOnce
  <1>5. ASSUME NEW o \in Old, Insert(o) PROVE MigrationInv'
    <2>1. old' = old \cup {o} /\ UNCHANGED <<altered, phase, selected, new, at_start, faults>>
      BY <1>5 DEF Insert
    <2>2. TypeOK'
      BY <2>1 DEF MigrationInv, TypeOK
    <2>3. Closed(old)'
      BY <1>5, <2>1 DEF Insert, MigrationInv, Closed
    <2> QED
      BY <2>1, <2>2, <2>3 DEF MigrationInv, NothingYet, Running, SelectedFromTable,
                              CopiedIsBehind, Closed, NothingPassedOver, CopiedWhole, CopiedOnce
  <1>6. CASE UNCHANGED vars
    <2>1. TypeOK'
      BY <1>6 DEF vars, MigrationInv, TypeOK
    <2> QED
      BY <1>6, <2>1 DEF vars, MigrationInv, NothingYet, Running, SelectedFromTable,
                        CopiedIsBehind, Closed, NothingPassedOver, CopiedWhole, CopiedOnce
  <1> QED
    BY <1>1, <1>2, <1>3, <1>4, <1>5, <1>6 DEF Next, Script

(* It holds in every history.                                              *)
LEMMA MigrationInvariant == Spec => []MigrationInv
PROOF BY MigrationInit, MigrationStep, PTL DEF Spec

(* The tables, and the script between them, keep their types.              *)
THEOREM Typing == Spec => []TypeOK
PROOF
  <1>1. MigrationInv => TypeOK
    BY DEF MigrationInv
  <1> QED
    BY <1>1, MigrationInvariant, PTL

(* No row is copied twice, however often the script is started and         *)
(* whatever is inserted between two attempts.                              *)
THEOREM NeverCopiedTwice == Spec => []CopiedOnce
PROOF
  <1>1. MigrationInv => CopiedOnce
    BY DEF MigrationInv
  <1> QED
    BY <1>1, MigrationInvariant, PTL

(* A script that is done has copied all that was there when it began, with *)
(* what it refers to.                                                      *)
THEOREM DoneIsComplete == Spec => []CompleteWhenDone
PROOF
  <1>1. MigrationInv => CompleteWhenDone
    <2> SUFFICES ASSUME MigrationInv, phase = "done", NEW o \in at_start
                 PROVE  CopiedWhole(o)
      BY DEF CompleteWhenDone, CopiedWhole
    <2>1. Running /\ selected = {} /\ Upto(phase) = Old
      BY TablesInOrder DEF MigrationInv, Running, SelectedFromTable, Table
    <2>2. o \in Old
      BY DEF MigrationInv, TypeOK
    <2> QED
      BY <2>1, <2>2 DEF MigrationInv, NothingPassedOver
  <1> QED
    BY <1>1, MigrationInvariant, PTL
=============================================================================
