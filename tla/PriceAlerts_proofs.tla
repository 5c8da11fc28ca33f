------------------------- MODULE PriceAlerts_proofs -------------------------
(* Proofs about PriceAlerts, for any number of users and sweeps and any    *)
(* alerts and prices.                                                      *)
EXTENDS PriceAlerts, TLAPS

(***************************************************************************)
(* The invariant.                                                          *)
(***************************************************************************)

(* Types, as far as the proofs need them. *)
Types ==
    /\ taken \subseteq Ids /\ added \subseteq taken /\ deleted \subseteq added
    /\ pc \in [Procs -> {"idle", "add", "delete", "sweep", "load", "save", "notify"}]
    /\ DOMAIN rows = Procs
    /\ cur \in [Procs -> Ids \union {NoId}]
    /\ todo \in [Sweeps -> SUBSET Ids]
    /\ DOMAIN hit = Sweeps /\ DOMAIN checkout = TickSweeps
    /\ raced \in BOOLEAN /\ overlapped \in BOOLEAN
    /\ sent \in [Ids -> Nat]

(* What a process may know of: a tick the repository's alerts, any other   *)
(* process those that were added.                                          *)
Mine(p) == IF p \in TickSweeps THEN Committed ELSE added

(* Nothing else is in anybody's hands, and an id that is being added is in *)
(* nobody's but one user's.                                                *)
Known ==
    /\ DOMAIN file \subseteq added
    /\ \A s \in TickSweeps : DOMAIN checkout[s] \subseteq Committed
    /\ \A p \in Procs : DOMAIN rows[p] \subseteq Mine(p)
    /\ \A s \in Sweeps : todo[s] \subseteq Mine(s)
    /\ \A p \in Procs : pc[p] \in {"load", "save", "notify"} => cur[p] \in Mine(p)
    /\ \A p \in Procs : pc[p] \in {"delete", "save"} => cur[p] \in DOMAIN rows[p]
    /\ \A p \in Procs : pc[p] = "add" => cur[p] \in taken \ added
    /\ \A p, q \in Procs : pc[p] = "add" /\ pc[q] = "add" /\ cur[p] = cur[q] => p = q

(* The alert a sweep of the API has still to decide about was not          *)
(* notified; one that was, or is about to be, is marked or gone.           *)
Dedup ==
    ~ raced /\ ~ overlapped =>
        /\ \A s, t \in ApiSweeps : Active(s) /\ Active(t) => s = t
        /\ \A i \in Ids \ Committed : sent[i] <= 1
        /\ \A i \in Ids \ Committed : sent[i] > 0 => i \in added /\ (i \in DOMAIN file => file[i])
        /\ \A s \in ApiSweeps : \A i \in todo[s] \ Committed : sent[i] = 0
        /\ \A s \in ApiSweeps : ~ Active(s) => todo[s] = {}
        /\ \A s \in ApiSweeps : pc[s] \in {"load", "save", "notify"} =>
                /\ cur[s] \notin Committed => sent[cur[s]] = 0
                /\ cur[s] \notin todo[s]
        /\ \A s \in ApiSweeps : pc[s] = "notify" => (cur[s] \in DOMAIN file => file[cur[s]])

IInv == Types /\ Known /\ NothingLost /\ Dedup

(* A save on the server that did not race wrote on top of the file as it   *)
(* was; a tick's save changes its checkout alone.                          *)
LEMMA UnracedSave ==
    ASSUME NEW p, NEW new, Save(p, new), raced \in BOOLEAN
    PROVE  /\ raced' \in BOOLEAN
           /\ ~ raced' => ~ raced
           /\ DOMAIN checkout' = DOMAIN checkout
           /\ rows' = [rows EXCEPT ![p] = Empty]
           /\ p \notin TickSweeps => /\ ~ raced' => file = rows[p]
                                    /\ file' = new /\ UNCHANGED checkout
           /\ p \in TickSweeps => /\ UNCHANGED file
                                 /\ checkout' = [checkout EXCEPT ![p] = new]
BY DEF Save, Seen

LEMMA EmptyIsEmpty == DOMAIN Empty = {}
BY DEF Empty

LEMMA InitIInv == PriceAlertsConstants /\ Init => IInv
<1> SUFFICES ASSUME PriceAlertsConstants, Init PROVE IInv
    OBVIOUS
<1>0. Sweeps \subseteq Procs
    BY DEF Procs
<1>1. Types
    BY DEF Init, Types
<1>2. Known
    BY <1>0, EmptyIsEmpty DEF Init, Known, Mine
<1>3. NothingLost
    BY EmptyIsEmpty DEF Init, NothingLost
<1>4. Dedup
    BY <1>0 DEF Init, Dedup, Active, Sweeps
<1> QED
    BY <1>1, <1>2, <1>3, <1>4 DEF IInv

(* A sweep starts with alerts it may know of.                              *)
LEMMA StartsWithMine ==
    ASSUME PriceAlertsConstants, Types, Known, NEW s \in Sweeps, SweepStart(s)
    PROVE  /\ \E S \in SUBSET Mine(s) : todo' = [todo EXCEPT ![s] = S]
           /\ DOMAIN checkout' = TickSweeps
           /\ \A q \in TickSweeps : DOMAIN checkout'[q] \subseteq Committed
           /\ overlapped' \in BOOLEAN
<1>1. CASE s \in TickSweeps
  <2>1. /\ checkout' = [checkout EXCEPT ![s] = CheckedOut]
        /\ todo' = [todo EXCEPT ![s] = Pending(CheckedOut)]
        /\ UNCHANGED overlapped
    BY <1>1 DEF SweepStart, PriceAlertsConstants
  <2>2. DOMAIN CheckedOut = Committed /\ Pending(CheckedOut) \subseteq Committed
    BY DEF CheckedOut, Pending
  <2> HIDE DEF CheckedOut, Pending
  <2> QED
    BY <1>1, <2>1, <2>2 DEF Types, Known, Mine
<1>2. CASE s \notin TickSweeps
  <2>1. /\ UNCHANGED checkout
        /\ todo' = [todo EXCEPT ![s] = Pending(file)]
        /\ overlapped' \in BOOLEAN
    BY <1>2 DEF SweepStart, Types
  <2>2. Pending(file) \subseteq added
    BY DEF Pending, Known
  <2> HIDE DEF Pending
  <2> QED
    BY <1>2, <2>1, <2>2 DEF Types, Known, Mine
<1> QED
    BY <1>1, <1>2

LEMMA TypesStep ==
    ASSUME PriceAlertsConstants, Types, Known, [Next]_vars
    PROVE  Types'
<1> USE DEF Types
<1>0. /\ Sweeps \subseteq Procs /\ Users \subseteq Procs
      /\ \A u \in Users : u \notin TickSweeps
      /\ Sweeps = ApiSweeps \union TickSweeps
    BY DEF Procs, Sweeps, PriceAlertsConstants
<1>1. ASSUME NEW u \in Users, AddLoad(u) PROVE Types'
    BY <1>0, <1>1 DEF AddLoad, Load
<1>2. ASSUME NEW u \in Users, AddSave(u) PROVE Types'
    BY <1>0, <1>2, UnracedSave DEF AddSave, Known
<1>3. ASSUME NEW u \in Users, DeleteLoad(u) PROVE Types'
    BY <1>0, <1>3 DEF DeleteLoad, Load, history, Known
<1>4. ASSUME NEW u \in Users, DeleteSave(u) PROVE Types'
  <2>1. cur[u] \in added
    BY <1>0, <1>4 DEF DeleteSave, Known, Mine
  <2> DEFINE new == [i \in DOMAIN rows[u] \ {cur[u]} |-> rows[u][i]]
  <2>2. /\ UNCHANGED <<todo, hit, taken, added, sent, overlapped>> /\ Save(u, new)
        /\ deleted' = deleted \union {cur[u]}
        /\ pc' = [pc EXCEPT ![u] = "idle"] /\ cur' = [cur EXCEPT ![u] = NoId]
    BY <1>4 DEF DeleteSave
  <2> HIDE DEF new
  <2>3. /\ raced' \in BOOLEAN /\ DOMAIN checkout' = DOMAIN checkout
        /\ rows' = [rows EXCEPT ![u] = Empty]
    BY <2>2, UnracedSave
  <2>4. deleted' \subseteq added' /\ added' \subseteq taken' /\ taken' \subseteq Ids
    BY <2>1, <2>2
  <2>5. /\ pc' \in [Procs -> {"idle", "add", "delete", "sweep", "load", "save", "notify"}]
        /\ cur' \in [Procs -> Ids \union {NoId}]
    BY <2>2
  <2>6. DOMAIN rows' = Procs /\ DOMAIN checkout' = TickSweeps
    BY <2>3
  <2> QED
    BY <2>2, <2>3, <2>4, <2>5, <2>6
<1>5. ASSUME NEW s \in Sweeps, SweepStart(s) PROVE Types'
  <2>1. PICK S \in SUBSET Mine(s) : todo' = [todo EXCEPT ![s] = S]
    BY <1>5, StartsWithMine
  <2>2. Mine(s) \subseteq Ids
    BY DEF Mine, PriceAlertsConstants
  <2>3. DOMAIN checkout' = TickSweeps /\ overlapped' \in BOOLEAN
    BY <1>5, StartsWithMine
  <2> QED
    BY <1>0, <1>5, <2>1, <2>2, <2>3 DEF SweepStart, history
<1>6. ASSUME NEW s \in Sweeps, Quote(s) PROVE Types'
    BY <1>0, <1>6 DEF Quote, history
<1>7. ASSUME NEW s \in Sweeps, MarkLoad(s) PROVE Types'
    BY <1>0, <1>7 DEF MarkLoad, Load, history
<1>8. ASSUME NEW s \in Sweeps, MarkSave(s) PROVE Types'
    BY <1>0, <1>8, UnracedSave DEF MarkSave, history
<1>9. ASSUME NEW s \in Sweeps, Notify(s) PROVE Types'
  <2>1. cur[s] \in Ids
    BY <1>0, <1>9 DEF Notify, Known, Mine, PriceAlertsConstants
  <2> QED
    BY <1>0, <1>9, <2>1 DEF Notify, local
<1>10. ASSUME NEW s \in Sweeps, SweepEnd(s) PROVE Types'
    BY <1>0, <1>10 DEF SweepEnd, history
<1>11. ASSUME NEW p \in Procs, Dies(p) PROVE Types'
    BY <1>0, <1>11 DEF Dies, history
<1>12. CASE UNCHANGED vars
    BY <1>12 DEF vars, local, history
<1> QED
    BY <1>1, <1>2, <1>3, <1>4, <1>5, <1>6, <1>7, <1>8, <1>9, <1>10, <1>11, <1>12 DEF Next

LEMMA KnownStep ==
    ASSUME PriceAlertsConstants, Types, Known, [Next]_vars
    PROVE  Known'
<1> USE DEF Types, Known, Mine
<1>0. Sweeps \subseteq Procs /\ Users \subseteq Procs /\ Sweeps \intersect Users = {}
      /\ \A u \in Users : u \notin TickSweeps
      /\ \A s \in ApiSweeps : s \notin TickSweeps
      /\ Sweeps = ApiSweeps \union TickSweeps
    BY DEF Procs, Sweeps, PriceAlertsConstants
<1>1. ASSUME NEW u \in Users, AddLoad(u) PROVE Known'
    BY <1>0, <1>1 DEF AddLoad, Load, Seen
<1>2. ASSUME NEW u \in Users, AddSave(u) PROVE Known'
    BY <1>0, <1>2, EmptyIsEmpty DEF AddSave, Save
<1>3. ASSUME NEW u \in Users, DeleteLoad(u) PROVE Known'
    BY <1>0, <1>3 DEF DeleteLoad, Load, Seen, history
<1>4. ASSUME NEW u \in Users, DeleteSave(u) PROVE Known'
  <2> DEFINE new == [i \in DOMAIN rows[u] \ {cur[u]} |-> rows[u][i]]
  <2>1. /\ UNCHANGED <<todo, taken, added>> /\ pc[u] = "delete" /\ Save(u, new)
        /\ pc' = [pc EXCEPT ![u] = "idle"] /\ cur' = [cur EXCEPT ![u] = NoId]
    BY <1>4 DEF DeleteSave
  <2>2. DOMAIN new \subseteq added
    BY <1>0
  <2> HIDE DEF new
  <2>3. file' = new /\ UNCHANGED checkout /\ rows' = [rows EXCEPT ![u] = Empty]
    BY <1>0, <2>1, UnracedSave
  <2>4. \A p \in Procs : Mine(p)' = Mine(p)
    BY <2>1
  <2>5. \A p \in Procs : /\ p # u => pc'[p] = pc[p] /\ cur'[p] = cur[p] /\ rows'[p] = rows[p]
                         /\ p = u => pc'[p] = "idle" /\ rows'[p] = Empty
    BY <1>0, <2>1, <2>3
  <2>6. /\ DOMAIN file' \subseteq added'
        /\ \A q \in TickSweeps : DOMAIN checkout'[q] \subseteq Committed
        /\ \A q \in Sweeps : todo'[q] \subseteq Mine(q)'
    BY <1>0, <2>1, <2>2, <2>3, <2>4
  <2>7. \A p \in Procs : DOMAIN rows'[p] \subseteq Mine(p)'
    BY <2>4, <2>5, EmptyIsEmpty
  <2>8. \A p \in Procs : pc'[p] \in {"load", "save", "notify"} => cur'[p] \in Mine(p)'
    BY <2>4, <2>5
  <2>9. \A p \in Procs : pc'[p] \in {"delete", "save"} => cur'[p] \in DOMAIN rows'[p]
    BY <2>5
  <2>10. \A p \in Procs : pc'[p] = "add" => cur'[p] \in taken' \ added'
    BY <2>1, <2>5
  <2>11. \A p, q \in Procs : pc'[p] = "add" /\ pc'[q] = "add" /\ cur'[p] = cur'[q] => p = q
    BY <2>5
  <2> HIDE DEF Mine
  <2> QED
    BY <2>6, <2>7, <2>8, <2>9, <2>10, <2>11
<1>5. ASSUME NEW s \in Sweeps, SweepStart(s) PROVE Known'
  <2>1. PICK S \in SUBSET Mine(s) : todo' = [todo EXCEPT ![s] = S]
    BY <1>5, StartsWithMine
  <2>2. /\ UNCHANGED <<file, rows, cur, taken, added>>
        /\ pc' = [pc EXCEPT ![s] = "sweep"]
    BY <1>5 DEF SweepStart, history
  <2>3. \A q \in TickSweeps : DOMAIN checkout'[q] \subseteq Committed
    BY <1>5, StartsWithMine
  <2> QED
    BY <1>0, <2>1, <2>2, <2>3
<1>6. ASSUME NEW s \in Sweeps, Quote(s) PROVE Known'
    BY <1>0, <1>6 DEF Quote, history
<1>7. ASSUME NEW s \in Sweeps, MarkLoad(s) PROVE Known'
  <2>0. UNCHANGED <<file, checkout, todo, taken, added>> /\ pc[s] = "load"
    BY <1>7 DEF MarkLoad, history
  <2>1. CASE cur[s] \in DOMAIN Seen(s) /\ Load(s, cur[s], "save")
    <3>1. DOMAIN Seen(s) \subseteq Mine(s)
      BY DEF Seen
    <3> QED
      BY <1>0, <2>0, <2>1, <3>1 DEF Load
  <2>2. CASE pc' = [pc EXCEPT ![s] = "sweep"] /\ UNCHANGED <<rows, cur>>
    BY <1>0, <2>0, <2>2
  <2> QED
    BY <1>7, <2>1, <2>2 DEF MarkLoad
<1>8. ASSUME NEW s \in Sweeps, MarkSave(s) PROVE Known'
  <2> DEFINE new == [rows[s] EXCEPT ![cur[s]] = @ \/ hit[s]]
  <2>1. UNCHANGED <<cur, todo, taken, added>> /\ Save(s, new)
    BY <1>8 DEF MarkSave, history
  <2>2. /\ \A p \in Procs : p # s => pc'[p] = pc[p]
        /\ pc'[s] \in {"notify", "sweep"} /\ pc[s] = "save"
    BY <1>0, <1>8 DEF MarkSave
  <2>3. DOMAIN new = DOMAIN rows[s]
    OBVIOUS
  <2> HIDE DEF new
  <2>4. \A p \in Procs : rows'[p] = IF p = s THEN Empty ELSE rows[p]
    BY <1>0, <2>1, UnracedSave
  <2>5. \A p \in Procs : pc'[p] \in {"delete", "save", "add"} => p # s /\ pc[p] = pc'[p]
    BY <2>2
  <2>6. \A p \in Procs : pc'[p] \in {"load", "save", "notify"} =>
                             pc[p] \in {"load", "save", "notify"}
    BY <2>2
  <2>7. \A p \in Procs : Mine(p)' = Mine(p)
    BY <2>1
  <2>8. DOMAIN file' \subseteq added'
    <3>1. s \in TickSweeps => file' = file
      BY <2>1, UnracedSave
    <3>2. s \notin TickSweeps => file' = new
      BY <2>1, UnracedSave
    <3>3. DOMAIN rows[s] \subseteq Mine(s)
      BY <1>0
    <3> QED
      BY <2>1, <2>3, <3>1, <3>2, <3>3
  <2>9. \A q \in TickSweeps : DOMAIN checkout'[q] \subseteq Committed
    <3>1. s \notin TickSweeps => checkout' = checkout
      BY <2>1, UnracedSave
    <3>2. s \in TickSweeps => checkout' = [checkout EXCEPT ![s] = new]
      BY <2>1, UnracedSave
    <3>3. DOMAIN rows[s] \subseteq Mine(s)
      BY <1>0
    <3> QED
      BY <2>3, <3>1, <3>2, <3>3
  <2>10. \A p \in Procs : DOMAIN rows'[p] \subseteq Mine(p)'
    BY <2>4, <2>7, EmptyIsEmpty
  <2>11. \A p \in Procs : pc'[p] \in {"delete", "save"} => cur'[p] \in DOMAIN rows'[p]
    BY <2>1, <2>4, <2>5
  <2>12. \A p \in Procs : pc'[p] \in {"load", "save", "notify"} => cur'[p] \in Mine(p)'
    BY <2>1, <2>6, <2>7
  <2>13. \A p \in Procs : pc'[p] = "add" => cur'[p] \in taken' \ added'
    BY <2>1, <2>5
  <2>14. \A p, q \in Procs : pc'[p] = "add" /\ pc'[q] = "add" /\ cur'[p] = cur'[q] => p = q
    BY <2>1, <2>5
  <2>15. \A q \in Sweeps : todo'[q] \subseteq Mine(q)'
    BY <1>0, <2>1, <2>7
  <2> HIDE DEF Mine
  <2> QED
    BY <2>8, <2>9, <2>10, <2>11, <2>12, <2>13, <2>14, <2>15
<1>9. ASSUME NEW s \in Sweeps, Notify(s) PROVE Known'
    BY <1>0, <1>9 DEF Notify, local
<1>10. ASSUME NEW s \in Sweeps, SweepEnd(s) PROVE Known'
    BY <1>0, <1>10 DEF SweepEnd, history
<1>11. ASSUME NEW p \in Procs, Dies(p) PROVE Known'
    BY <1>0, <1>11, EmptyIsEmpty DEF Dies, history
<1>12. CASE UNCHANGED vars
    BY <1>12 DEF vars, local, history
<1> QED
    BY <1>1, <1>2, <1>3, <1>4, <1>5, <1>6, <1>7, <1>8, <1>9, <1>10, <1>11, <1>12 DEF Next

(***************************************************************************)
(* Nothing is lost, and marks stay, as long as saves do not race.          *)
(***************************************************************************)

(* What one step does to a file nobody raced for.                          *)
FileStep ==
    ~ raced' => /\ ~ raced
                /\ NothingLost => DOMAIN file' = added' \ deleted'
                /\ \A i \in DOMAIN file \intersect DOMAIN file' : file[i] => file'[i]
                /\ DOMAIN file' \intersect added \subseteq DOMAIN file

LEMMA FileStepHolds ==
    ASSUME PriceAlertsConstants, Types, Known, [Next]_vars
    PROVE  FileStep
<1> USE DEF Types, Known, NothingLost, FileStep
<1>0. /\ Sweeps \subseteq Procs /\ Users \subseteq Procs
      /\ \A u \in Users : u \notin TickSweeps
    BY DEF Procs, Sweeps, PriceAlertsConstants
<1>1. ASSUME NEW u \in Users, AddSave(u) PROVE FileStep
  <2> SUFFICES ASSUME ~ raced' PROVE FileStep
      OBVIOUS
  <2>0. Save(u, [i \in DOMAIN rows[u] \union {cur[u]} |-> i # cur[u] /\ rows[u][i]])
    BY <1>1 DEF AddSave
  <2>1. /\ ~ raced
        /\ file' = [i \in DOMAIN file \union {cur[u]} |-> i # cur[u] /\ file[i]]
    <3>1. ~ raced /\ file = rows[u]
      BY <1>0, <2>0, UnracedSave
    <3>2. file' = [i \in DOMAIN rows[u] \union {cur[u]} |-> i # cur[u] /\ rows[u][i]]
      BY <1>0, <2>0 DEF Save
    <3> QED
      BY <3>1, <3>2
  <2>2. cur[u] \notin added /\ added' = added \union {cur[u]} /\ deleted' = deleted
    BY <1>0, <1>1 DEF AddSave
  <2>3. DOMAIN file' = DOMAIN file \union {cur[u]}
    BY <2>1
  <2>4. \A i \in DOMAIN file : file[i] => file'[i]
    BY <2>1, <2>2
  <2> QED
    BY <2>1, <2>2, <2>3, <2>4
<1>2. ASSUME NEW u \in Users, DeleteSave(u) PROVE FileStep
  <2> SUFFICES ASSUME ~ raced' PROVE FileStep
      OBVIOUS
  <2>1. /\ ~ raced
        /\ file' = [i \in DOMAIN file \ {cur[u]} |-> file[i]]
    <3>1. Save(u, [i \in DOMAIN rows[u] \ {cur[u]} |-> rows[u][i]])
      BY <1>2 DEF DeleteSave
    <3>2. ~ raced /\ file = rows[u]
      BY <1>0, <3>1, UnracedSave
    <3>3. file' = [i \in DOMAIN rows[u] \ {cur[u]} |-> rows[u][i]]
      BY <1>0, <3>1 DEF Save
    <3> QED
      BY <3>2, <3>3
  <2>2. deleted' = deleted \union {cur[u]} /\ added' = added
    BY <1>0, <1>2 DEF DeleteSave
  <2>3. DOMAIN file' = DOMAIN file \ {cur[u]}
    BY <2>1
  <2>4. \A i \in DOMAIN file' : file'[i] = file[i]
    BY <2>1
  <2> QED
    BY <2>1, <2>2, <2>3, <2>4
<1>3. ASSUME NEW s \in Sweeps, MarkSave(s) PROVE FileStep
  <2> SUFFICES ASSUME ~ raced' PROVE FileStep
      OBVIOUS
  <2>1. /\ ~ raced
        /\ file' = file \/ file' = [file EXCEPT ![cur[s]] = @ \/ hit[s]]
    BY <1>3, UnracedSave DEF MarkSave
  <2>2. deleted' = deleted /\ added' = added
    BY <1>3 DEF MarkSave, history
  <2>3. DOMAIN file' = DOMAIN file
    BY <2>1
  <2>4. \A i \in DOMAIN file : file[i] => file'[i]
    BY <2>1
  <2> QED
    BY <2>1, <2>2, <2>3, <2>4
<1>4. CASE UNCHANGED <<file, added, deleted, raced>>
    BY <1>4
<1>5. ASSUME NEW u \in Users, AddLoad(u) \/ DeleteLoad(u)
      PROVE  UNCHANGED <<file, added, deleted, raced>>
    BY <1>5 DEF AddLoad, DeleteLoad, history
<1>6. ASSUME NEW s \in Sweeps,
             SweepStart(s) \/ Quote(s) \/ MarkLoad(s) \/ Notify(s) \/ SweepEnd(s)
      PROVE  UNCHANGED <<file, added, deleted, raced>>
    BY <1>6 DEF SweepStart, Quote, MarkLoad, Notify, SweepEnd, history
<1>7. ASSUME NEW p \in Procs, Dies(p) PROVE UNCHANGED <<file, added, deleted, raced>>
    BY <1>7 DEF Dies, history
<1>8. CASE UNCHANGED vars
    BY <1>8, <1>4 DEF vars, history
<1> QED
    BY <1>1, <1>2, <1>3, <1>4, <1>5, <1>6, <1>7, <1>8 DEF Next

(***************************************************************************)
(* The de-duplication.                                                     *)
(***************************************************************************)

(* A step of a sweep of the API that is alone: the others are idle.        *)
LEMMA DedupStep ==
    ASSUME PriceAlertsConstants, Types, Known, Dedup, [Next]_vars, ~ raced', ~ overlapped'
    PROVE  Dedup'
<1>0. /\ Sweeps \subseteq Procs /\ Users \subseteq Procs
      /\ \A u \in Users : u \notin Sweeps
      /\ \A s \in ApiSweeps : s \notin TickSweeps
      /\ Sweeps = ApiSweeps \union TickSweeps /\ Committed \subseteq Ids
    BY DEF Procs, Sweeps, PriceAlertsConstants
<1>a. FileStep
    BY FileStepHolds
<1> USE DEF Types, Known, Mine, Dedup, Active, FileStep
<1>1. ASSUME NEW u \in Users,
             \/ AddLoad(u) \/ AddSave(u) \/ DeleteLoad(u) \/ DeleteSave(u)
      PROVE  Dedup'
  <2>1. /\ UNCHANGED <<todo, sent, overlapped>>
        /\ added \subseteq added'
        /\ \A s \in Sweeps : pc'[s] = pc[s] /\ cur'[s] = cur[s]
    BY <1>0, <1>1 DEF AddLoad, AddSave, DeleteLoad, DeleteSave, Load, history
  <2> QED
    BY <1>0, <1>a, <2>1
<1>2. ASSUME NEW s \in TickSweeps,
             \/ SweepStart(s) \/ Quote(s) \/ MarkLoad(s) \/ MarkSave(s) \/ Notify(s) \/ SweepEnd(s)
      PROVE  Dedup'
  <2>1. UNCHANGED <<file, added, overlapped>> /\ ~ raced
    BY <1>0, <1>a, <1>2 DEF SweepStart, Quote, MarkLoad, MarkSave, Notify, SweepEnd, Save, history
  <2>2. \A t \in ApiSweeps : pc'[t] = pc[t] /\ cur'[t] = cur[t] /\ todo'[t] = todo[t]
    BY <1>0, <1>2 DEF SweepStart, Quote, MarkLoad, MarkSave, Notify, SweepEnd, Load, local
  <2>3. \A i \in Ids \ Committed : sent'[i] = sent[i]
    <3>1. CASE Notify(s)
      <4>1. cur[s] \in Committed
        BY <1>0, <3>1 DEF Notify
      <4> QED
        BY <3>1, <4>1 DEF Notify
    <3>2. CASE SweepStart(s) \/ Quote(s) \/ MarkLoad(s) \/ MarkSave(s) \/ SweepEnd(s)
      BY <3>2 DEF SweepStart, Quote, MarkLoad, MarkSave, SweepEnd, history
    <3> QED
      BY <1>2, <3>1, <3>2
  <2>4. \A t \in ApiSweeps : todo[t] \subseteq Ids /\ cur[t] \in Ids \union {NoId}
    BY <1>0
  <2>5. \A t \in ApiSweeps : pc[t] \in {"load", "save", "notify"} => cur[t] \in Ids
    BY <1>0
  <2> QED
    BY <2>1, <2>2, <2>3, <2>4, <2>5
<1>3. ASSUME NEW s \in ApiSweeps, SweepStart(s) PROVE Dedup'
  <2>1. /\ UNCHANGED <<file, cur, added, sent>> /\ ~ raced /\ ~ overlapped
        /\ \A t \in ApiSweeps : t # s => pc[t] = "idle" /\ pc'[t] = pc[t] /\ todo'[t] = todo[t]
        /\ pc'[s] = "sweep" /\ todo'[s] = Pending(file)
    BY <1>0, <1>3 DEF SweepStart, history
  <2>2. \A t \in ApiSweeps : Active(t)' => t = s
    BY <2>1
  <2>3. \A t \in ApiSweeps : pc'[t] \in {"idle", "sweep"}
    BY <2>1
  <2>4. \A i \in Pending(file) \ Committed : i \in Ids /\ sent[i] = 0
    BY <2>1 DEF Pending
  <2>5. \A t \in ApiSweeps : \A i \in todo'[t] \ Committed : sent'[i] = 0
    BY <2>1, <2>4
  <2> QED
    BY <2>1, <2>2, <2>3, <2>5
<1>4. ASSUME NEW s \in ApiSweeps, Quote(s) PROVE Dedup'
    BY <1>0, <1>4 DEF Quote, history
<1>5. ASSUME NEW s \in ApiSweeps, MarkLoad(s) PROVE Dedup'
  <2>1. /\ UNCHANGED <<file, cur, todo, added, sent>> /\ ~ raced /\ ~ overlapped
        /\ pc[s] = "load" /\ pc'[s] \in {"save", "sweep"}
        /\ \A t \in Sweeps : t # s => pc'[t] = pc[t]
    <3>1. /\ UNCHANGED <<file, todo, added, sent>> /\ ~ raced /\ ~ overlapped
          /\ pc[s] = "load"
      BY <1>5 DEF MarkLoad, history
    <3>2. CASE cur[s] \in DOMAIN Seen(s) /\ Load(s, cur[s], "save")
      BY <1>0, <3>1, <3>2 DEF Load
    <3>3. CASE pc' = [pc EXCEPT ![s] = "sweep"] /\ UNCHANGED cur
      BY <1>0, <3>1, <3>3
    <3> QED
      BY <1>5, <3>2, <3>3 DEF MarkLoad
  <2>2. UNCHANGED overlapped
    BY <1>5 DEF MarkLoad
  <2>3. \A t \in ApiSweeps :
           /\ Active(t)' <=> Active(t)
           /\ pc'[t] \in {"load", "save", "notify"} => pc[t] \in {"load", "save", "notify"}
           /\ pc'[t] = "notify" => pc[t] = "notify"
    BY <1>0, <2>1
  <2> QED
    BY <1>0, <2>1, <2>2, <2>3
<1>6. ASSUME NEW s \in ApiSweeps, MarkSave(s) PROVE Dedup'
  <2>1. /\ UNCHANGED <<cur, todo, added, sent>> /\ ~ raced /\ ~ overlapped
        /\ pc[s] = "save" /\ pc'[s] = IF hit[s] THEN "notify" ELSE "sweep"
        /\ \A t \in Sweeps : t # s => pc'[t] = pc[t]
    BY <1>0, <1>a, <1>6 DEF MarkSave, history
  <2>2. hit[s] => (cur[s] \in DOMAIN file' => file'[cur[s]])
    <3>1. file' = [rows[s] EXCEPT ![cur[s]] = @ \/ hit[s]]
      BY <1>0, <1>6 DEF MarkSave, Save
    <3> QED
      BY <3>1
  <2>3. \A i \in Ids \ Committed : sent'[i] > 0 => i \in added' /\ (i \in DOMAIN file' => file'[i])
    BY <1>a, <2>1
  <2>4. \A t \in ApiSweeps : t # s => pc'[t] = "idle"
    BY <1>0, <2>1
  <2> QED
    BY <1>0, <2>1, <2>2, <2>3, <2>4
<1>7. ASSUME NEW s \in ApiSweeps, Notify(s) PROVE Dedup'
  <2>1. /\ UNCHANGED <<file, cur, todo, added>> /\ ~ raced /\ ~ overlapped
        /\ pc[s] = "notify" /\ pc'[s] = "sweep"
        /\ \A t \in Sweeps : t # s => pc'[t] = pc[t]
    BY <1>0, <1>7 DEF Notify, local
  <2>2. /\ cur[s] \in added /\ cur[s] \in Ids /\ cur[s] \notin todo[s]
        /\ cur[s] \notin Committed => sent[cur[s]] = 0
        /\ cur[s] \in DOMAIN file => file[cur[s]]
    BY <1>0, <2>1
  <2>3. \A i \in Ids \ Committed : sent'[i] = sent[i] \/ (i = cur[s] /\ sent'[i] = 1)
    BY <1>7, <2>2 DEF Notify
  <2>4. \A t \in ApiSweeps : t # s => pc'[t] = "idle"
    BY <1>0, <2>1
  <2>5. \A t \in ApiSweeps : \A i \in todo'[t] \ Committed : sent'[i] = 0
    <3> SUFFICES ASSUME NEW t \in ApiSweeps, NEW i \in todo[t] \ Committed PROVE sent'[i] = 0
        BY <2>1
    <3>1. t # s => todo[t] = {}
      BY <1>0, <2>1
    <3>2. i \in Ids /\ sent[i] = 0
      BY <1>0, <2>1
    <3> QED
      BY <2>2, <2>3, <3>1, <3>2
  <2>6. \A i \in Ids \ Committed : sent'[i] <= 1
    BY <2>1, <2>3
  <2>7. \A i \in Ids \ Committed : sent'[i] > 0 => i \in added' /\ (i \in DOMAIN file' => file'[i])
    BY <2>1, <2>2, <2>3
  <2>8. /\ \A t, v \in ApiSweeps : Active(t)' /\ Active(v)' => t = v
        /\ \A t \in ApiSweeps : ~ Active(t)' => todo'[t] = {}
    BY <1>0, <2>1, <2>4
  <2>9. \A t \in ApiSweeps : pc'[t] \notin {"load", "save", "notify"}
    BY <2>1, <2>4
  <2> QED
    BY <2>5, <2>6, <2>7, <2>8, <2>9
<1>8. ASSUME NEW s \in ApiSweeps, SweepEnd(s) PROVE Dedup'
    BY <1>0, <1>8 DEF SweepEnd, history
<1>9. ASSUME NEW p \in Procs, Dies(p) PROVE Dedup'
    BY <1>0, <1>9 DEF Dies, history
<1>10. CASE UNCHANGED vars
    BY <1>10 DEF vars, local, history
<1> QED
    BY <1>0, <1>1, <1>2, <1>3, <1>4, <1>5, <1>6, <1>7, <1>8, <1>9, <1>10 DEF Next

LEMMA StepIInv == PriceAlertsConstants /\ IInv /\ [Next]_vars => IInv'
<1> SUFFICES ASSUME PriceAlertsConstants, IInv, [Next]_vars PROVE IInv'
    OBVIOUS
<1>1. Types' /\ Known'
    BY TypesStep, KnownStep DEF IInv
<1>2. NothingLost'
    BY FileStepHolds DEF FileStep, IInv, NothingLost
<1>3. Dedup'
    BY DedupStep DEF IInv, Dedup
<1> QED
    BY <1>1, <1>2, <1>3 DEF IInv

(* The file lists what was added and not deleted, until saves race.        *)
THEOREM AlertsAreNotLost == Spec => []NothingLost
<1>1. IInv => NothingLost
    BY DEF IInv
<1> QED
    BY <1>1, InitIInv, StepIInv, PriceAlertsConstants, PTL DEF Spec

(* A triggered alert stays triggered, until saves race.                    *)
THEOREM TriggeredStays == Spec => MarksStay
<1>1. IInv /\ [Next]_vars =>
        [~ raced' => \A i \in DOMAIN file \intersect DOMAIN file' : file[i] => file'[i]]_vars
    BY PriceAlertsConstants, FileStepHolds DEF IInv, FileStep
<1> QED
    BY <1>1, InitIInv, StepIInv, PriceAlertsConstants, PTL DEF Spec, MarksStay

(* Requests to sweep that do not overlap notify at most once per alert,    *)
(* until saves race, whatever the ticks do beside them.                    *)
THEOREM AlertsNotifyOnce == Spec => []NotifiedOnce
<1>1. IInv => NotifiedOnce
    BY DEF IInv, Dedup, NotifiedOnce
<1> QED
    BY <1>1, InitIInv, StepIInv, PriceAlertsConstants, PTL DEF Spec

=============================================================================
