--------------------------- MODULE UpdaterProofs ---------------------------
(* Theorems about Updater, for any releases and bundles, and any number of    *)
(* failures and kills.                                                        *)
EXTENDS Updater, WellFoundedInduction, TLAPS

Job == [pc : {"check", "fetch", "clear", "aside", "place", "drop", "unpack"},
        local : Version, remote : Version \cup {<<NaN>>}, bundle : Version, k : 1..4]

(* Entering the next entry, or the end, keeps the types. *)
LEMMA AdvanceType ==
  ASSUME job \in Job, NEW pc \in {"clear", "unpack"}, NEW result, Advance(pc, result)
  PROVE  job' \in Job \cup {None} /\ (outcome' = outcome \/ outcome' = result)
<1>1. CASE job.k < 4
  <2>1. job' = [job EXCEPT !.pc = pc, !.k = job.k + 1] /\ outcome' = outcome
    BY <1>1 DEF Advance
  <2>2. job.k \in 1..4 /\ job.k + 1 \in 1..4
    BY <1>1 DEF Job
  <2>3. job' \in Job
    BY <2>1, <2>2 DEF Job
  <2>4. QED
    BY <2>1, <2>3
<1>2. CASE ~(job.k < 4)
  BY <1>2 DEF Advance, Finish
<1>3. QED
  BY <1>1, <1>2

LEMMA CurrentEntry ==
  ASSUME job \in Job
  PROVE  Current \in Entry
<1>1. job.k \in 1..4
  BY DEF Job
<1>2. QED
  BY <1>1 DEF Current, Entry

LEMMA TypeInit == Init => TypeOK
  BY VersionAssumption DEF Init, TypeOK, Copy

LEMMA TypeStep == TypeOK /\ [Next]_vars => TypeOK'
<1> SUFFICES ASSUME TypeOK, [Next]_vars PROVE TypeOK'
  OBVIOUS
<1> USE VersionAssumption
<1>0. job # None => job \in Job /\ Current \in Entry
  BY CurrentEntry DEF TypeOK, Job
<1>1. CASE Refuse
  BY <1>1 DEF Refuse, TypeOK
<1>2. CASE Start
  <2>1. PICK v \in Readable(installed["cli"]) :
          job' = [pc |-> "check", local |-> v, remote |-> v, bundle |-> v, k |-> 1]
    BY <1>2 DEF Start
  <2>2. installed["cli"] \in Copy
    BY DEF TypeOK, Entry, Order
  <2>3. v \in Version
    BY <2>1, <2>2, <1>2 DEF Readable, Copy
  <2>4. QED
    BY <1>2, <2>1, <2>3 DEF Start, TypeOK
<1>3. CASE Check
  <2>1. PICK answer \in {server, <<NaN>>} :
          \/ job' = [job EXCEPT !.pc = "fetch", !.remote = answer] /\ UNCHANGED outcome
          \/ Finish("current")
    BY <1>3 DEF Check
  <2>2. job' \in Job \cup {None}
    BY <1>0, <1>3, <2>1 DEF Check, At, Finish, Job, TypeOK
  <2>3. QED
    BY <1>3, <2>1, <2>2 DEF Check, Finish, TypeOK, Job
<1>4. CASE Fetch
  <2>1. job' \in Job
    BY <1>0, <1>4 DEF Fetch, At, Job, TypeOK
  <2>2. QED
    BY <1>4, <2>1 DEF Fetch, TypeOK, Job
<1>5. CASE Clear
  <2>1. job' \in Job \cup {None} /\ outcome' \in {outcome, "updated"}
    BY <1>0, <1>5, AdvanceType DEF Clear, At, Job
  <2>2. old' \in [Entry -> Copy]
    BY <1>5 DEF Clear, TypeOK, Copy
  <2>3. QED
    BY <1>5, <2>1, <2>2 DEF Clear, TypeOK, Job
<1>6. CASE Aside
  <2>1. job' \in Job
    BY <1>0, <1>6 DEF Aside, At, Job
  <2>2. old' \in [Entry -> Copy] /\ installed' \in [Entry -> Copy]
    BY <1>0, <1>6 DEF Aside, At, TypeOK, Copy
  <2>3. QED
    BY <1>6, <2>1, <2>2 DEF Aside, TypeOK, Job
<1>7. CASE Place
  <2>1. job' \in Job /\ job.bundle \in Version
    BY <1>0, <1>7 DEF Place, At, Job
  <2>2. installed' \in [Entry -> Copy]
    BY <2>1, <1>7 DEF Place, TypeOK, Copy
  <2>3. QED
    BY <1>7, <2>1, <2>2 DEF Place, TypeOK, Job
<1>8. CASE Drop
  <2>1. job' \in Job \cup {None} /\ outcome' \in {outcome, "updated"}
    BY <1>0, <1>8, AdvanceType DEF Drop, At
  <2>2. old' \in [Entry -> Copy]
    BY <1>8 DEF Drop, TypeOK, Copy
  <2>3. QED
    BY <1>8, <2>1, <2>2 DEF Drop, TypeOK, Job
<1>9. CASE Install
  BY <1>9 DEF Install, TypeOK
<1>10. CASE Unpack
  <2>1. job' \in Job \cup {None} /\ outcome' \in {outcome, "installed"}
    BY <1>0, <1>10, AdvanceType DEF Unpack, At
  <2>2. installed' \in [Entry -> Copy]
    BY <1>0, <1>10 DEF Unpack, At, Job, TypeOK, Copy
  <2>3. QED
    BY <1>10, <2>1, <2>2 DEF Unpack, TypeOK, Job
<1>11. CASE Interrupt
  <2>1. old' \in [Entry -> Copy]
    BY <1>0, <1>11 DEF Interrupt, Leftovers, TypeOK, Copy
  <2>2. installed' \in [Entry -> Copy]
    BY <1>0, <1>11 DEF Interrupt, TypeOK, Copy
  <2>3. faults' \in 0..MaxFaults
    BY <1>11 DEF Interrupt, TypeOK
  <2>4. QED
    BY <1>11, <2>1, <2>2, <2>3 DEF Interrupt, TypeOK
<1>12. CASE \E v \in Version : Deploy(v)
  BY <1>12 DEF Deploy, TypeOK
<1>13. CASE UNCHANGED vars
  BY <1>13 DEF vars, TypeOK
<1>14. QED
  BY <1>1, <1>2, <1>3, <1>4, <1>5, <1>6, <1>7, <1>8, <1>9, <1>10, <1>11, <1>12, <1>13 DEF Next

(* The types are kept whatever fails: an interrupted command leaves entries of *)
(* a release, torn or missing, and nothing else.                               *)
THEOREM TypeCorrect == Spec => []TypeOK
  BY TypeInit, TypeStep, PTL DEF Spec

-----------------------------------------------------------------------------
(* A success leaves a whole release *)

(* Entry number j is that of the bundle, if the bundle has it; `alone` says whether *)
(* its .old is gone as well.                                                        *)
Done(j, alone) == Order[j] \in Ships[job.bundle] =>
  installed[Order[j]] = job.bundle /\ (alone => old[Order[j]] = None)

(* What the command has achieved so far. *)
Progress ==
  /\ job # None => outcome = "none"
  /\ At("check") \/ At("fetch") => job.k = 1
  /\ Swapping => \A j \in 1..4 : j < job.k => Done(j, TRUE)
  /\ At("unpack") => \A j \in 1..4 : j < job.k => Done(j, FALSE)
  /\ At("aside") \/ At("place") \/ At("drop") => Current \in Ships[job.bundle]
  /\ At("drop") => installed[Current] = job.bundle

(* The entries in their order are distinct, and all there are. *)
LEMMA OrderIsEntries ==
  /\ \A j \in 1..4 : Order[j] \in Entry
  /\ \A e \in Entry : \E j \in 1..4 : e = Order[j]
  /\ \A i, j \in 1..4 : Order[i] = Order[j] => i = j
  BY DEF Order, Entry

(* Of the entries up to the current one, the others come before it. *)
LEMMA UpToCurrent ==
  ASSUME job \in Job
  PROVE  /\ \A j \in 1..4 : j < job.k => Order[j] \in Entry /\ Order[j] # Current
         /\ \A j \in 1..4 : j <= job.k => j < job.k \/ Order[j] = Current
<1>1. job.k \in 1..4
  BY DEF Job
<1>2. \A j \in 1..4 : j < job.k => j # job.k
  BY <1>1
<1>3. \A j \in 1..4 : j <= job.k => j < job.k \/ j = job.k
  BY <1>1
<1>4. QED
  BY <1>1, <1>2, <1>3, OrderIsEntries, Zenon DEF Current

(* Passing on to the next entry, when this one and those before it are done *)
LEMMA AdvanceProgress ==
  ASSUME job \in Job, outcome = "none",
         NEW pc, NEW result, Advance(pc, result),
         \/ pc = "clear" /\ result = "updated"
         \/ pc = "unpack" /\ result = "installed",
         \A j \in 1..4 : j <= job.k /\ Order[j] \in Ships[job.bundle] =>
           installed'[Order[j]] = job.bundle /\ (pc = "clear" => old'[Order[j]] = None)
  PROVE  Progress' /\ UpdatedIsWhole'
<1>0. job.k \in 1..4 /\ job.bundle \in Version
  BY DEF Job
<1>1. CASE job.k < 4
  <2>1. job' = [job EXCEPT !.pc = pc, !.k = job.k + 1] /\ outcome' = "none"
    BY <1>1 DEF Advance
  <2>2. job'.pc = pc /\ job'.k = job.k + 1 /\ job'.bundle = job.bundle
    BY <2>1 DEF Job
  <2>3. \A j \in 1..4 : j < job'.k => j <= job.k
    BY <1>0, <2>2
  <2>4. UpdatedIsWhole'
    BY <2>1 DEF UpdatedIsWhole
  <2>5. Progress'
    BY <2>1, <2>2, <2>3 DEF Progress, Done, Swapping, At
  <2>6. QED
    BY <2>4, <2>5
<1>2. CASE ~(job.k < 4)
  <2>1. job' = None /\ outcome' = result
    BY <1>2 DEF Advance, Finish
  <2>2. \A j \in 1..4 : j <= job.k
    BY <1>0, <1>2
  <2>3. \A e \in Ships[job.bundle] :
          installed'[e] = job.bundle /\ (outcome' = "updated" => old'[e] = None)
    BY <1>0, <2>1, <2>2, OrderIsEntries, VersionAssumption
  <2>4. QED
    BY <1>0, <2>1, <2>3 DEF Progress, UpdatedIsWhole, Swapping, At
<1>3. QED
  BY <1>1, <1>2

LEMMA ProgressInit == Init => Progress /\ UpdatedIsWhole
  BY DEF Init, Progress, UpdatedIsWhole, Swapping, At

LEMMA ProgressStep ==
  TypeOK /\ Progress /\ UpdatedIsWhole /\ [Next]_vars => Progress' /\ UpdatedIsWhole'
<1> SUFFICES ASSUME TypeOK, Progress, UpdatedIsWhole, [Next]_vars
             PROVE  Progress' /\ UpdatedIsWhole'
  OBVIOUS
<1>0. job # None => job \in Job /\ Current \in Entry /\ outcome = "none" /\ job.k \in 1..4
  BY CurrentEntry DEF TypeOK, Job, Progress
<1>1. CASE Refuse
  BY <1>1 DEF Refuse, Progress, UpdatedIsWhole, Swapping, At
<1>2. CASE Start
  BY <1>2 DEF Start, Progress, UpdatedIsWhole, Swapping, At
<1>3. CASE Check
  BY <1>0, <1>3 DEF Check, Finish, Progress, UpdatedIsWhole, Swapping, At, Job
<1>4. CASE Fetch
  <2>1. job' = [job EXCEPT !.pc = "clear", !.bundle = server] /\ job.k = 1 /\ outcome' = "none"
    BY <1>0, <1>4 DEF Fetch, Progress, At
  <2>2. job'.pc = "clear" /\ job'.k = 1 /\ outcome' = "none"
    BY <1>0, <1>4, <2>1 DEF Fetch, At, Job
  <2>3. \A j \in 1..4 : ~(j < job'.k)
    BY <2>2
  <2>4. QED
    BY <2>2, <2>3 DEF Progress, UpdatedIsWhole, Swapping, At
<1>5. CASE Clear
  <2>0. job \in Job /\ job.pc = "clear" /\ Swapping
    BY <1>0, <1>5 DEF Clear, At, Swapping
  <2>1. CASE Current \in Ships[job.bundle]
    <3>1. /\ job' = [job EXCEPT !.pc = "aside"] /\ outcome' = "none"
          /\ old' = [old EXCEPT ![Current] = None] /\ installed' = installed
      BY <1>0, <1>5, <2>1 DEF Clear, At
    <3>2. job'.pc = "aside" /\ job'.k = job.k /\ job'.bundle = job.bundle
      BY <2>0, <3>1 DEF Job
    <3>3. \A j \in 1..4 : j < job.k => Done(j, TRUE)'
      BY <2>0, <3>1, <3>2, UpToCurrent DEF Progress, Done, TypeOK
    <3>4. Current' \in Ships[job'.bundle]
      BY <2>1, <3>2 DEF Current
    <3>5. QED
      BY <3>1, <3>2, <3>3, <3>4 DEF Progress, UpdatedIsWhole, Swapping, At
  <2>2. CASE Current \notin Ships[job.bundle]
    <3>1. Advance("clear", "updated") /\ installed' = installed /\ old' = old
      BY <1>5, <2>2 DEF Clear
    <3>2. \A j \in 1..4 : j <= job.k /\ Order[j] \in Ships[job.bundle] => j < job.k
      BY <2>0, <2>2, UpToCurrent
    <3>3. \A j \in 1..4 : j <= job.k /\ Order[j] \in Ships[job.bundle] =>
            installed'[Order[j]] = job.bundle /\ old'[Order[j]] = None
      BY <2>0, <3>1, <3>2 DEF Progress, Done
    <3>4. job \in Job /\ outcome = "none" /\ Advance("clear", "updated")
      BY <1>0, <1>5, <3>1 DEF Clear, At
    <3>5. QED
      BY <3>3, <3>4, AdvanceProgress
  <2>3. QED
    BY <2>1, <2>2
<1>6. CASE Aside
  <2>0. job \in Job /\ job.pc = "aside" /\ Swapping /\ At("aside")
    BY <1>0, <1>6 DEF Aside, At, Swapping
  <2>1. job' = [job EXCEPT !.pc = "place"] /\ outcome' = "none"
    BY <1>0, <1>6, <2>0 DEF Aside, At
  <2>2. job'.pc = "place" /\ job'.k = job.k /\ job'.bundle = job.bundle
    BY <2>0, <2>1 DEF Job
  <2>3. \A j \in 1..4 : j < job.k => Done(j, TRUE)'
    BY <1>6, <2>0, <2>2, UpToCurrent DEF Aside, Progress, Done, TypeOK
  <2>4. Current' \in Ships[job'.bundle]
    BY <2>0, <2>2 DEF Current, Progress
  <2>5. QED
    BY <2>1, <2>2, <2>3, <2>4 DEF Progress, UpdatedIsWhole, Swapping, At
<1>7. CASE Place
  <2>0. job \in Job /\ job.pc = "place" /\ Swapping /\ At("place")
    BY <1>0, <1>7 DEF Place, At, Swapping
  <2>1. job' = [job EXCEPT !.pc = "drop"] /\ outcome' = "none"
    BY <1>0, <1>7, <2>0 DEF Place, At
  <2>2. job'.pc = "drop" /\ job'.k = job.k /\ job'.bundle = job.bundle
    BY <2>0, <2>1 DEF Job
  <2>3. \A j \in 1..4 : j < job.k => Done(j, TRUE)'
    BY <1>7, <2>0, <2>2, UpToCurrent DEF Place, Progress, Done, TypeOK
  <2>4. Current' \in Ships[job'.bundle] /\ installed'[Current'] = job'.bundle
    <3>1. Current' = Current
      BY <2>2 DEF Current
    <3>2. QED
      BY <1>0, <1>7, <2>0, <2>2, <3>1 DEF Place, Progress, TypeOK, At
  <2>5. QED
    BY <2>1, <2>2, <2>3, <2>4 DEF Progress, UpdatedIsWhole, Swapping, At
<1>8. CASE Drop
  <2>0. job \in Job /\ job.pc = "drop" /\ Swapping /\ At("drop")
    BY <1>0, <1>8 DEF Drop, At, Swapping
  <2>1. /\ old' = [old EXCEPT ![Current] = None] /\ installed' = installed
        /\ Advance("clear", "updated") /\ outcome = "none" /\ Current \in Entry
    BY <1>0, <1>8 DEF Drop, At
  <2>2. installed[Current] = job.bundle
    BY <2>0 DEF Progress
  <2>3. \A j \in 1..4 : j <= job.k /\ Order[j] \in Ships[job.bundle] =>
          installed'[Order[j]] = job.bundle /\ old'[Order[j]] = None
    <3>1. SUFFICES ASSUME NEW j \in 1..4, j <= job.k, Order[j] \in Ships[job.bundle]
                   PROVE  installed'[Order[j]] = job.bundle /\ old'[Order[j]] = None
      OBVIOUS
    <3>2. CASE Order[j] = Current
      BY <2>1, <2>2, <3>2 DEF TypeOK
    <3>3. CASE Order[j] # Current
      <4>1. j < job.k
        BY <2>0, <3>1, <3>3, UpToCurrent
      <4>2. installed[Order[j]] = job.bundle /\ old[Order[j]] = None /\ Order[j] \in Entry
        BY <2>0, <3>1, <4>1, UpToCurrent DEF Progress, Done
      <4>3. QED
        BY <2>1, <3>3, <4>2 DEF TypeOK
    <3>4. QED
      BY <3>2, <3>3
  <2>4. QED
    BY <2>0, <2>1, <2>3, AdvanceProgress
<1>9. CASE Install
  BY <1>9 DEF Install, Progress, UpdatedIsWhole, Swapping, At
<1>10. CASE Unpack
  <2>0. job \in Job /\ job.pc = "unpack" /\ At("unpack")
    BY <1>0, <1>10 DEF Unpack, At
  <2>1. Advance("unpack", "installed") /\ outcome = "none" /\ Current \in Entry
    BY <1>0, <1>10 DEF Unpack, At
  <2>2. \A j \in 1..4 : j <= job.k /\ Order[j] \in Ships[job.bundle] =>
          installed'[Order[j]] = job.bundle
    <3>1. SUFFICES ASSUME NEW j \in 1..4, j <= job.k, Order[j] \in Ships[job.bundle]
                   PROVE  installed'[Order[j]] = job.bundle
      OBVIOUS
    <3>2. CASE Order[j] = Current
      <4>1. installed' = [installed EXCEPT ![Current] = job.bundle]
        BY <1>10, <3>1, <3>2 DEF Unpack
      <4>2. QED
        BY <2>1, <3>2, <4>1 DEF TypeOK
    <3>3. CASE Order[j] # Current
      <4>1. j < job.k
        BY <2>0, <3>1, <3>3, UpToCurrent
      <4>2. installed[Order[j]] = job.bundle /\ Order[j] \in Entry
        BY <2>0, <3>1, <4>1, UpToCurrent DEF Progress, Done
      <4>3. installed' = installed \/ installed' = [installed EXCEPT ![Current] = job.bundle]
        BY <1>10 DEF Unpack
      <4>4. QED
        BY <3>3, <4>2, <4>3 DEF TypeOK
    <3>4. QED
      BY <3>2, <3>3
  <2>3. QED
    BY <2>0, <2>1, <2>2, AdvanceProgress
<1>11. CASE Interrupt
  BY <1>11 DEF Interrupt, Progress, UpdatedIsWhole, Swapping, At
<1>12. CASE \E v \in Version : Deploy(v)
  BY <1>12 DEF Deploy, Progress, UpdatedIsWhole, Done, Swapping, At, Current
<1>13. CASE UNCHANGED vars
  BY <1>13 DEF vars, Progress, UpdatedIsWhole, Done, Swapping, At, Current
<1>14. QED
  BY <1>1, <1>2, <1>3, <1>4, <1>5, <1>6, <1>7, <1>8, <1>9, <1>10, <1>11, <1>12, <1>13 DEF Next

(***************************************************************************)
(* A success leaves a whole release, whatever was interrupted before. The   *)
(* invariant that carries it is Progress: while a command runs, the entries *)
(* it has dealt with are those of its bundle.                               *)
(***************************************************************************)
THEOREM SuccessIsWhole == Spec => []UpdatedIsWhole
<1>1. TypeOK /\ Progress /\ UpdatedIsWhole /\ [Next]_vars /\ TypeOK'
        => (Progress /\ UpdatedIsWhole)'
  BY ProgressStep
<1>2. QED
  BY <1>1, ProgressInit, TypeCorrect, PTL DEF Spec

-----------------------------------------------------------------------------
(* An update keeps the last whole copy *)

(* Only the entry about to be placed is missing of what the CLI needs. *)
ProgramThere ==
  job # None /\ job.pc # "unpack" =>
    \A e \in Program : installed[e] = None => job.pc = "place" /\ e = Current

LEMMA ProgramStep ==
  TypeOK /\ Progress /\ ProgramThere /\ [Next]_vars => ProgramThere'
<1> SUFFICES ASSUME TypeOK, Progress, ProgramThere, [Next]_vars PROVE ProgramThere'
  OBVIOUS
<1> USE DEF ProgramThere
<1>0. job # None => job \in Job /\ Current \in Entry
  BY CurrentEntry DEF TypeOK, Job
<1>00. \A e \in Program : e \in Entry
  BY DEF Program
<1>1. CASE Refuse
  BY <1>1 DEF Refuse
<1>2. CASE Start
  BY <1>2 DEF Start
<1>3. CASE Check
  BY <1>0, <1>3 DEF Check, Finish, At, Job
<1>4. CASE Fetch
  BY <1>0, <1>4 DEF Fetch, At, Job
<1>5. CASE Clear
  <2>1. \A e \in Program : installed'[e] # None
    BY <1>5 DEF Clear, At
  <2>2. QED
    BY <2>1
<1>6. CASE Aside
  <2>1. job' = [job EXCEPT !.pc = "place"] /\ installed' = [installed EXCEPT ![Current] = None]
    BY <1>6 DEF Aside
  <2>2. job'.pc = "place" /\ Current' = Current
    BY <1>0, <1>6, <2>1 DEF Aside, At, Job, Current
  <2>3. \A e \in Program : installed'[e] = None => e = Current
    BY <1>00, <1>6, <2>1 DEF Aside, At, TypeOK
  <2>4. QED
    BY <2>2, <2>3
<1>7. CASE Place
  <2>1. job.bundle \in Version /\ Current \in Entry
    BY <1>0, <1>7 DEF Place, At, Job
  <2>2. \A e \in Program : installed'[e] # None
    BY <1>00, <1>7, <2>1, NoneAssumption DEF Place, At, TypeOK
  <2>3. QED
    BY <2>2
<1>8. CASE Drop
  <2>1. \A e \in Program : installed'[e] # None
    BY <1>8 DEF Drop, At
  <2>2. QED
    BY <2>1
<1>9. CASE Install
  BY <1>9 DEF Install
<1>10. CASE Unpack
  BY <1>0, <1>10 DEF Unpack, Advance, Finish, At, Job
<1>11. CASE Interrupt
  BY <1>11 DEF Interrupt
<1>12. CASE \E v \in Version : Deploy(v)
  BY <1>12 DEF Deploy, Current
<1>13. CASE UNCHANGED vars
  BY <1>13 DEF vars, Current
<1>14. QED
  BY <1>1, <1>2, <1>3, <1>4, <1>5, <1>6, <1>7, <1>8, <1>9, <1>10, <1>11, <1>12, <1>13 DEF Next

(* What was under .old is gone when the entry is moved there. *)
Cleared == At("aside") => old[Current] = None

LEMMA ClearedStep ==
  TypeOK /\ Cleared /\ [Next]_vars => Cleared'
<1> SUFFICES ASSUME TypeOK, Cleared, [Next]_vars, At("aside")' PROVE (old[Current] = None)'
  BY DEF Cleared
<1>0. job # None => job \in Job /\ Current \in Entry
  BY CurrentEntry DEF TypeOK, Job
<1>1. CASE Clear
  <2>1. CASE Current \in Ships[job.bundle]
    <3>1. old' = [old EXCEPT ![Current] = None] /\ job' = [job EXCEPT !.pc = "aside"]
      BY <1>1, <2>1 DEF Clear
    <3>2. Current' = Current
      BY <1>0, <1>1, <3>1 DEF Clear, At, Current, Job
    <3>3. old'[Current] = None
      BY <1>0, <1>1, <3>1 DEF Clear, At, TypeOK
    <3>4. QED
      BY <3>2, <3>3
  <2>2. CASE Current \notin Ships[job.bundle]
    BY <1>0, <1>1, <2>2 DEF Clear, Advance, Finish, At, Job
  <2>3. QED
    BY <2>1, <2>2
<1>2. CASE Refuse \/ Start \/ Install \/ Interrupt
  BY <1>2 DEF Refuse, Start, Install, Interrupt, At
<1>3. CASE Check \/ Fetch \/ Aside \/ Place
  <2>1. job' = None \/ job'.pc \in {"fetch", "clear", "place", "drop"}
    BY <1>0, <1>3 DEF Check, Fetch, Aside, Place, Finish, At, Job
  <2>2. QED
    BY <2>1 DEF At
<1>4. CASE Drop \/ Unpack
  BY <1>0, <1>4 DEF Drop, Unpack, Advance, Finish, At, Job
<1>5. CASE \/ \E v \in Version : Deploy(v)
           \/ UNCHANGED vars
  <2>1. job' = job /\ old' = old
    BY <1>5 DEF Deploy, vars
  <2>2. QED
    BY <2>1 DEF Cleared, At, Current
<1>6. QED
  BY <1>1, <1>2, <1>4, <1>5, <1>3 DEF Next

(* While the update clears an .old, the entry itself is there; when it has moved *)
(* the entry aside, the .old is, until the new one is in place.                  *)
LEMMA StepKeepsCopy ==
  TypeOK /\ Progress /\ ProgramThere /\ Cleared /\ [Next]_vars =>
    \A e \in Program : Kept(e) => Kept(e)' \/ InstallerInterrupted \/ ClearsForTorn(e)
<1> SUFFICES ASSUME TypeOK, Progress, ProgramThere, Cleared, [Next]_vars,
                    NEW e \in Program, Kept(e), ~InstallerInterrupted, ~ClearsForTorn(e)
             PROVE  Kept(e)'
  OBVIOUS
<1>0. /\ e \in Entry
      /\ job # None => job \in Job /\ Current \in Entry /\ job.bundle \in Version
  BY CurrentEntry DEF TypeOK, Job, Program
<1>1. installed[e] \in Copy /\ None \notin Version /\ Torn \notin Version
  BY <1>0, NoneAssumption DEF TypeOK
<1>2. CASE installed'[e] = installed[e] /\ old'[e] = old[e]
  BY <1>2 DEF Kept
<1>3. CASE installed'[e] = installed[e] /\ installed[e] \in Version
  BY <1>3 DEF Kept
<1>4. CASE installed'[e] \in Version
  BY <1>4 DEF Kept
<1>5. At("clear") /\ e = Current => installed[e] \in Version
  BY <1>0, <1>1 DEF ProgramThere, ClearsForTorn, At, Copy
<1>6. At("drop") /\ e = Current => installed[e] \in Version
  BY <1>0 DEF Progress, At
<1>7. CASE Clear
  <2>1. installed' = installed /\ (e # Current => old'[e] = old[e]) /\ At("clear")
    BY <1>0, <1>7 DEF Clear, TypeOK
  <2>2. QED
    BY <1>2, <1>3, <1>5, <2>1
<1>8. CASE Drop
  <2>1. installed' = installed /\ (e # Current => old'[e] = old[e]) /\ At("drop")
    BY <1>0, <1>8 DEF Drop, TypeOK
  <2>2. QED
    BY <1>2, <1>3, <1>6, <2>1
<1>9. CASE Aside
  <2>1. CASE e = Current
    <3>1. installed[e] \in Version
      BY <1>1, <1>9, <2>1 DEF Aside, Cleared, Kept
    <3>2. old'[e] = installed[e]
      BY <1>0, <1>9, <2>1 DEF Aside, TypeOK
    <3>3. QED
      BY <3>1, <3>2 DEF Kept
  <2>2. CASE e # Current
    BY <1>0, <1>2, <1>9, <2>2 DEF Aside, TypeOK
  <2>3. QED
    BY <2>1, <2>2
<1>10. CASE Place
  <2>1. old' = old /\ installed'[e] = IF e = Current THEN job.bundle ELSE installed[e]
    BY <1>0, <1>10 DEF Place, TypeOK
  <2>2. QED
    BY <1>0, <1>2, <1>4, <1>10, <2>1 DEF Place, At
<1>11. CASE Unpack
  <2>1. old' = old /\ (installed'[e] = job.bundle \/ installed'[e] = installed[e]) /\ job # None
    BY <1>0, <1>11 DEF Unpack, At, TypeOK
  <2>2. QED
    BY <1>0, <1>2, <1>4, <2>1
<1>12. CASE Interrupt
  <2>1. faults' > faults
    BY <1>12 DEF Interrupt, TypeOK
  <2>2. installed' = installed
    BY <1>12, <2>1 DEF Interrupt, InstallerInterrupted
  <2>3. CASE e = Current /\ job.pc \in {"clear", "drop"}
    BY <1>3, <1>5, <1>6, <1>12, <2>2, <2>3 DEF Interrupt, At
  <2>4. CASE ~(e = Current /\ job.pc \in {"clear", "drop"})
    <3>1. old'[e] = old[e]
      BY <1>0, <1>12, <2>4 DEF Interrupt, TypeOK
    <3>2. QED
      BY <1>2, <2>2, <3>1
  <2>5. QED
    BY <2>3, <2>4
<1>13. CASE \/ Refuse \/ Start \/ Check \/ Fetch \/ Install
            \/ \E v \in Version : Deploy(v)
            \/ UNCHANGED vars
  BY <1>2, <1>13 DEF Refuse, Start, Check, Fetch, Install, Deploy, vars
<1>14. QED
  BY <1>7, <1>8, <1>9, <1>10, <1>11, <1>12, <1>13 DEF Next

(* Nothing but the installer, interrupted, leaves an entry in place partly there. *)
LEMMA StepTearsNothing ==
  TypeOK /\ [Next]_vars =>
    \A e \in Program : installed'[e] = Torn => installed[e] = Torn \/ InstallerInterrupted
<1> SUFFICES ASSUME TypeOK, [Next]_vars, NEW e \in Program, ~InstallerInterrupted
             PROVE  installed'[e] = Torn => installed[e] = Torn
  OBVIOUS
<1>0. /\ e \in Entry /\ None # Torn /\ Torn \notin Version
      /\ job # None => Current \in Entry /\ job.bundle \in Version
  BY CurrentEntry, NoneAssumption DEF TypeOK, Job, Program
<1>1. CASE Aside \/ Place \/ Unpack
  <2>1. /\ job # None
        /\ installed'[e] \in {None, job.bundle, installed[e]}
    BY <1>0, <1>1 DEF Aside, Place, Unpack, At, TypeOK
  <2>2. QED
    BY <1>0, <2>1
<1>2. CASE Interrupt
  BY <1>2 DEF Interrupt, InstallerInterrupted, TypeOK
<1>3. CASE UNCHANGED installed
  BY <1>3
<1>4. QED
  BY <1>1, <1>2, <1>3
     DEF Next, Refuse, Start, Check, Fetch, Clear, Drop, Install, Deploy, vars

CopyKeptStep ==
  \A e \in Program :
    /\ Kept(e) => Kept(e)' \/ InstallerInterrupted \/ ClearsForTorn(e)
    /\ installed'[e] = Torn => installed[e] = Torn \/ InstallerInterrupted

(***************************************************************************)
(* However often commands fail or are killed: a whole copy of an entry the  *)
(* CLI cannot start without is lost only when the installer is interrupted  *)
(* in writing over it, or when an update finds the entry torn so and clears *)
(* the .old that an earlier update had left.                                *)
(***************************************************************************)
THEOREM LastCopySafe == Spec => LastCopyKept
<1>1. Init => ProgramThere /\ Cleared
  BY DEF Init, ProgramThere, Cleared, At
<1>2. TypeOK /\ Progress /\ UpdatedIsWhole /\ [Next]_vars /\ TypeOK'
        => (Progress /\ UpdatedIsWhole)'
  BY ProgressStep
<1>3. TypeOK /\ Progress /\ ProgramThere /\ Cleared /\ [Next]_vars => [CopyKeptStep]_vars
  BY StepKeepsCopy, StepTearsNothing DEF CopyKeptStep
<1>4. Spec => [][CopyKeptStep]_vars
  BY <1>1, <1>2, <1>3, ProgressInit, ProgramStep, ClearedStep, TypeCorrect, PTL DEF Spec
<1>5. QED
  BY <1>4 DEF CopyKeptStep, LastCopyKept

(***************************************************************************)
(* Updates alone lose nothing: as long as no installer is interrupted, what *)
(* the CLI needs to start is whole, in place or beside it, once it was, in   *)
(* spite of any number of updates that failed or were killed.                *)
(***************************************************************************)
THEOREM UpdatesLoseNothing ==
  Spec /\ [][~InstallerInterrupted]_vars => [][\A e \in Program : Kept(e) => Kept(e)']_vars
<1> DEFINE Untorn == \A e \in Program : installed[e] # Torn
           Keeping == \A e \in Program : Kept(e) => Kept(e)'
<1>1. Init => Untorn
  BY NoneAssumption DEF Init, Program
<1>2. Untorn /\ [CopyKeptStep]_vars /\ [~InstallerInterrupted]_vars => Untorn' /\ [Keeping]_vars
  <2>1. CASE UNCHANGED vars
    BY <2>1 DEF vars
  <2>2. CASE CopyKeptStep /\ ~InstallerInterrupted
    BY <2>2 DEF CopyKeptStep, ClearsForTorn
  <2>3. QED
    BY <2>1, <2>2
<1>3. Spec => [][CopyKeptStep]_vars
  BY LastCopySafe DEF LastCopyKept, CopyKeptStep
<1> HIDE DEF Untorn, Keeping
<1>4. Spec /\ [][~InstallerInterrupted]_vars => [][Keeping]_vars
  BY <1>1, <1>2, <1>3, PTL DEF Spec
<1>5. QED
  BY <1>4 DEF Keeping

-----------------------------------------------------------------------------
(* The order of versions *)

Text == Seq(Nat \cup {NaN})
SegmentNo == Nat \ {0}
SameUpTo(a, b, i) == \A j \in 1..(i - 1) : Segment(a, j) = Segment(b, j)

LEMMA SegmentsAreNumbers ==
  ASSUME NEW v \in Text, NEW i \in SegmentNo
  PROVE  Segment(v, i) \in Nat /\ (i > Len(v) => Segment(v, i) = 0)
  BY VersionAssumption DEF Text, SegmentNo, Segment, Num

(* The segments past the end of both are equal: the bound on i is no restriction. *)
LEMMA NewerSomewhere ==
  ASSUME NEW a \in Text, NEW b \in Text
  PROVE  IsNewer(a, b) <=>
           \E i \in SegmentNo : Segment(a, i) > Segment(b, i) /\ SameUpTo(a, b, i)
<1>1. Longer(a, b) \in Nat /\ Len(a) <= Longer(a, b) /\ Len(b) <= Longer(a, b)
  BY DEF Text, Longer
<1>2. ASSUME NEW i \in SegmentNo, Segment(a, i) > Segment(b, i) PROVE i \in 1..Longer(a, b)
  <2>1. ~(i > Len(a) /\ i > Len(b))
    BY <1>2, SegmentsAreNumbers
  <2>2. Len(a) \in Nat /\ Len(b) \in Nat
    BY DEF Text
  <2>3. QED
    BY <1>1, <2>1, <2>2 DEF SegmentNo
<1>3. \A i \in 1..Longer(a, b) : i \in SegmentNo
  BY <1>1 DEF SegmentNo
<1>4. QED
  BY <1>2, <1>3 DEF IsNewer, SameUpTo

(* Two versions with different segments have a first one. *)
LEMMA FirstDifference ==
  ASSUME NEW a \in Text, NEW b \in Text, NEW k \in SegmentNo, Segment(a, k) # Segment(b, k)
  PROVE  \E i \in SegmentNo : Segment(a, i) # Segment(b, i) /\ SameUpTo(a, b, i)
<1> DEFINE D == {i \in SegmentNo : Segment(a, i) # Segment(b, i)}
           Less == {ss \in Nat \X Nat : ss[1] < ss[2]}
<1>1. D \subseteq Nat /\ D # {}
  BY DEF SegmentNo
<1>2. IsWellFoundedOn(Less, Nat)
  BY NatLessThanWellFounded, Zenon DEF OpToRel
<1>3. PICK i \in D : \A j \in D : <<j, i>> \notin Less
  <2> HIDE DEF D, Less
  <2>1. QED
    BY <1>1, <1>2, WFMin
<1>4. \A j \in D : ~(j < i)
  BY <1>1, <1>3
<1>5. \A j \in 1..(i - 1) : j \in SegmentNo /\ j < i
  BY DEF SegmentNo
<1>6. QED
  BY <1>4, <1>5 DEF SameUpTo

(* Of two versions one is newer, or their segments are all the same. *)
LEMMA NewerOrSame ==
  ASSUME NEW a \in Text, NEW b \in Text, ~IsNewer(a, b), ~IsNewer(b, a)
  PROVE  \A i \in SegmentNo : Segment(a, i) = Segment(b, i)
<1>1. SUFFICES ASSUME NEW k \in SegmentNo, Segment(a, k) # Segment(b, k) PROVE FALSE
  OBVIOUS
<1>2. PICK i \in SegmentNo : Segment(a, i) # Segment(b, i) /\ SameUpTo(a, b, i)
  BY <1>1, FirstDifference
<1>3. Segment(a, i) > Segment(b, i) \/ Segment(b, i) > Segment(a, i)
  BY <1>2, SegmentsAreNumbers
<1>4. SameUpTo(b, a, i)
  BY <1>2 DEF SameUpTo
<1>5. QED
  BY <1>2, <1>3, <1>4, NewerSomewhere

LEMMA NewerTransitive ==
  ASSUME NEW a \in Text, NEW b \in Text, NEW c \in Text, IsNewer(a, b), IsNewer(b, c)
  PROVE  IsNewer(a, c)
<1>1. PICK i \in SegmentNo : Segment(a, i) > Segment(b, i) /\ SameUpTo(a, b, i)
  BY NewerSomewhere
<1>2. PICK j \in SegmentNo : Segment(b, j) > Segment(c, j) /\ SameUpTo(b, c, j)
  BY NewerSomewhere
<1>3. ASSUME NEW m \in SegmentNo, m <= i, m <= j, m = i \/ m = j
      PROVE  Segment(a, m) > Segment(c, m) /\ SameUpTo(a, c, m)
  <2>1. Segment(a, m) \in Nat /\ Segment(b, m) \in Nat /\ Segment(c, m) \in Nat
    BY SegmentsAreNumbers
  <2>2. m < i => Segment(a, m) = Segment(b, m)
    BY <1>1 DEF SameUpTo, SegmentNo
  <2>3. m < j => Segment(b, m) = Segment(c, m)
    BY <1>2 DEF SameUpTo, SegmentNo
  <2>4. Segment(a, m) > Segment(c, m)
    BY <1>1, <1>2, <1>3, <2>1, <2>2, <2>3 DEF SegmentNo
  <2>5. \A n \in 1..(m - 1) : n \in 1..(i - 1) /\ n \in 1..(j - 1)
    BY <1>3 DEF SegmentNo
  <2>6. SameUpTo(a, c, m)
    BY <1>1, <1>2, <2>5 DEF SameUpTo
  <2>7. QED
    BY <2>4, <2>6
<1>4. \E m \in SegmentNo : m <= i /\ m <= j /\ (m = i \/ m = j)
  BY DEF SegmentNo
<1>5. QED
  BY <1>3, <1>4, NewerSomewhere

(***************************************************************************)
(* isNewerVersion orders all versions, whatever their lengths and segments: *)
(* no two are each newer than the other, newer is transitive, and a version *)
(* newer than one is newer than whatever is not newer than that one.        *)
(***************************************************************************)
THEOREM NewerIsStrictOrder ==
  \A a, b, c \in Seq(Nat \cup {NaN}) :
    /\ IsNewer(a, b) => ~IsNewer(b, a)
    /\ IsNewer(a, b) /\ IsNewer(b, c) => IsNewer(a, c)
    /\ IsNewer(a, b) /\ ~IsNewer(c, b) => IsNewer(a, c)
<1>1. SUFFICES ASSUME NEW a \in Text, NEW b \in Text, NEW c \in Text
               PROVE  /\ IsNewer(a, b) => ~IsNewer(b, a)
                      /\ IsNewer(a, b) /\ IsNewer(b, c) => IsNewer(a, c)
                      /\ IsNewer(a, b) /\ ~IsNewer(c, b) => IsNewer(a, c)
  BY DEF Text
<1>2. ASSUME IsNewer(a, b), IsNewer(b, a) PROVE FALSE
  <2>1. PICK i \in SegmentNo : Segment(a, i) > Segment(a, i)
    BY <1>2, NewerTransitive, NewerSomewhere
  <2>2. QED
    BY <2>1, SegmentsAreNumbers
<1>3. ASSUME IsNewer(a, b), ~IsNewer(c, b) PROVE IsNewer(a, c)
  <2>1. CASE IsNewer(b, c)
    BY <1>3, <2>1, NewerTransitive
  <2>2. CASE ~IsNewer(b, c)
    <3>1. \A i \in SegmentNo : Segment(b, i) = Segment(c, i)
      BY <1>3, <2>2, NewerOrSame
    <3>2. PICK i \in SegmentNo : Segment(a, i) > Segment(b, i) /\ SameUpTo(a, b, i)
      BY <1>3, NewerSomewhere
    <3>3. \A j \in 1..(i - 1) : j \in SegmentNo
      BY DEF SegmentNo
    <3>4. Segment(a, i) > Segment(c, i) /\ SameUpTo(a, c, i)
      BY <3>1, <3>2, <3>3 DEF SameUpTo
    <3>5. QED
      BY <3>4, NewerSomewhere
  <2>3. QED
    BY <2>1, <2>2
<1>4. QED
  BY <1>2, <1>3, NewerTransitive

-----------------------------------------------------------------------------
(* An update is never a downgrade *)

(* The update goes on only because the version it was told is newer. *)
ToldNewer == Swapping \/ At("fetch") => IsNewer(job.remote, job.local)

LEMMA ToldNewerStep == TypeOK /\ ToldNewer /\ [Next]_vars => ToldNewer'
<1> SUFFICES ASSUME TypeOK, ToldNewer, [Next]_vars PROVE ToldNewer'
  OBVIOUS
<1> USE DEF ToldNewer, Swapping, At
<1>0. job # None => job \in Job
  BY DEF TypeOK, Job
<1>1. ASSUME NEW pc \in {"clear", "unpack"}, NEW result, Advance(pc, result), job # None,
             job.pc \in {"clear", "aside", "place", "drop"} \/ pc = "unpack"
      PROVE  ToldNewer'
  BY <1>0, <1>1 DEF Advance, Finish, Job
<1>2. CASE Check
  <2>1. PICK answer \in {server, <<NaN>>} :
          IF IsNewer(answer, job.local)
            THEN job' = [job EXCEPT !.pc = "fetch", !.remote = answer] /\ UNCHANGED outcome
            ELSE Finish("current")
    BY <1>2 DEF Check
  <2>2. QED
    BY <1>0, <1>2, <2>1 DEF Check, Finish, Job
<1>3. CASE Fetch
  BY <1>0, <1>3 DEF Fetch, Job
<1>4. CASE Clear
  BY <1>0, <1>1, <1>4 DEF Clear, Job
<1>5. CASE Aside
  BY <1>0, <1>5 DEF Aside, Job
<1>6. CASE Place
  BY <1>0, <1>6 DEF Place, Job
<1>7. CASE Drop
  BY <1>1, <1>7 DEF Drop
<1>8. CASE Unpack
  BY <1>1, <1>8 DEF Unpack
<1>9. CASE Start \/ Install
  BY <1>9 DEF Start, Install
<1>10. CASE Refuse \/ Interrupt \/ (\E v \in Version : Deploy(v)) \/ UNCHANGED vars
  BY <1>10 DEF Refuse, Interrupt, Deploy, vars
<1>11. QED
  BY <1>2, <1>3, <1>4, <1>5, <1>6, <1>7, <1>8, <1>9, <1>10 DEF Next

(***************************************************************************)
(* An update puts nothing older in the place of something newer, however    *)
(* the version numbers are written, unless the server is rolled back        *)
(* between its answer and the bundle.                                       *)
(***************************************************************************)
THEOREM UpdatesGoUp == Spec => []NeverDowngrade
<1>1. Init => ToldNewer
  BY DEF Init, ToldNewer, Swapping, At
<1>2. TypeOK /\ ToldNewer => NeverDowngrade
  <2>1. SUFFICES ASSUME TypeOK, ToldNewer, Swapping, ~IsNewer(job.remote, job.bundle)
                 PROVE  IsNewer(job.bundle, job.local)
    BY DEF NeverDowngrade
  <2>2. job.remote \in Text /\ job.local \in Text /\ job.bundle \in Text
    <3>1. job.remote \in Version \cup {<<NaN>>} /\ job.local \in Version /\ job.bundle \in Version
      BY <2>1 DEF TypeOK, Swapping
    <3>2. <<NaN>> \in Text
      BY DEF Text
    <3>3. QED
      BY <3>1, <3>2, VersionAssumption DEF Text
  <2>3. QED
    BY <2>1, <2>2, NewerIsStrictOrder DEF ToldNewer, Text
<1>3. QED
  BY <1>1, <1>2, ToldNewerStep, TypeCorrect, PTL DEF Spec

-----------------------------------------------------------------------------
(* Versions of up to three segments are compared as the numbers they write *)

(* A larger leading part outweighs whatever follows below the radix. *)
LEMMA LeadingDecides ==
  ASSUME NEW r \in Nat, NEW x \in Nat, NEW y \in Nat, NEW d \in Nat, NEW e \in Nat,
         x > y, e < r
  PROVE  x * r + d > y * r + e
<1>1. PICK n \in Nat : x = y + 1 + n
  <2>1. x - y - 1 \in Nat /\ x = y + 1 + (x - y - 1)
    OBVIOUS
  <2>2. QED
    BY <2>1
<1>2. x * r = y * r + r + n * r
  BY <1>1, SMT
<1>3. n * r \in Nat /\ y * r \in Nat
  OBVIOUS
<1>4. QED
  BY <1>2, <1>3

LEMMA NewerIsLarger ==
  ASSUME NEW a \in Text, NEW b \in Text, ThreeDigits(a), ThreeDigits(b), IsNewer(a, b)
  PROVE  Value(a) > Value(b)
<1>1. PICK i \in SegmentNo : Segment(a, i) > Segment(b, i) /\ SameUpTo(a, b, i)
  BY NewerSomewhere
<1>2. i \in 1..3
  <2>1. Len(a) \in Nat /\ Len(a) <= 3
    BY DEF Text, ThreeDigits
  <2>2. ~(i > Len(a))
    BY <1>1, SegmentsAreNumbers
  <2>3. QED
    BY <2>1, <2>2 DEF SegmentNo
<1> DEFINE a1 == Segment(a, 1)  a2 == Segment(a, 2)  a3 == Segment(a, 3)
           b1 == Segment(b, 1)  b2 == Segment(b, 2)  b3 == Segment(b, 3)
<1>3. /\ a1 \in Nat /\ a2 \in Nat /\ a3 \in Nat
      /\ b1 \in Nat /\ b2 \in Nat /\ b3 \in Nat
  BY SegmentsAreNumbers DEF SegmentNo
<1>4. b1 < Radix /\ b2 < Radix /\ b3 < Radix
  BY DEF ThreeDigits
<1>5. a1 > b1 \/ (a1 = b1 /\ a2 > b2) \/ (a1 = b1 /\ a2 = b2 /\ a3 > b3)
  BY <1>1, <1>2 DEF SameUpTo
<1>6. Value(a) = (a1 * Radix + a2) * Radix + a3 /\ Value(b) = (b1 * Radix + b2) * Radix + b3
  BY DEF Value
<1> HIDE DEF a1, a2, a3, b1, b2, b3
<1> DEFINE x == a1 * Radix + a2  y == b1 * Radix + b2
<1>7. Radix \in Nat /\ x \in Nat /\ y \in Nat
  BY <1>3, RivalAssumption
<1>8. x > y \/ (x = y /\ a3 > b3)
  <2>1. CASE a1 > b1
    BY <1>3, <1>4, <1>7, <2>1, LeadingDecides
  <2>2. CASE a1 = b1
    <3>1. a1 * Radix \in Nat /\ a1 * Radix = b1 * Radix
      BY <1>3, <1>7, <2>2
    <3>2. QED
      BY <1>3, <1>5, <2>2, <3>1
  <2>3. QED
    BY <1>5, <2>1, <2>2
<1> HIDE DEF x, y
<1>9. x * Radix + a3 > y * Radix + b3
  <2>1. CASE x > y
    BY <1>3, <1>4, <1>7, <2>1, LeadingDecides
  <2>2. CASE x = y /\ a3 > b3
    <3>1. x * Radix \in Nat /\ x * Radix = y * Radix
      BY <1>7, <2>2
    <3>2. QED
      BY <1>3, <2>2, <3>1
  <2>3. QED
    BY <1>8, <2>1, <2>2
<1>10. QED
  BY <1>6, <1>9 DEF x, y

LEMMA NewerIffLarger ==
  ASSUME NEW a \in Text, NEW b \in Text, ThreeDigits(a), ThreeDigits(b)
  PROVE  IsNewer(a, b) <=> Value(a) > Value(b)
<1>1. ASSUME NEW v \in Text PROVE Value(v) \in Nat
  <2>1. Segment(v, 1) \in Nat /\ Segment(v, 2) \in Nat /\ Segment(v, 3) \in Nat
    BY SegmentsAreNumbers DEF SegmentNo
  <2>2. \A x, y, r \in Nat : x * r + y \in Nat
    OBVIOUS
  <2>3. Radix \in Nat
    BY RivalAssumption
  <2>4. Segment(v, 1) * Radix + Segment(v, 2) \in Nat
    BY <2>1, <2>2, <2>3
  <2>5. QED
    BY <2>1, <2>2, <2>3, <2>4 DEF Value
<1>2. IsNewer(b, a) => Value(b) > Value(a)
  BY NewerIsLarger
<1>3. ~IsNewer(a, b) /\ ~IsNewer(b, a) => Value(a) = Value(b)
  BY NewerOrSame DEF Value, SegmentNo
<1>4. QED
  BY <1>1, <1>2, <1>3, NewerIsLarger

(***************************************************************************)
(* Whatever release is deployed and whatever version it is compared with:   *)
(* of two versions of up to three segments, whatever their lengths, the     *)
(* newer is the one that is the larger number in a radix above all segments.*)
(***************************************************************************)
THEOREM VersionsAreNumbers == Spec => []NewerIsOrder
<1>1. TypeOK => NewerIsOrder
  <2>1. SUFFICES ASSUME TypeOK, NEW v \in Rival, ThreeDigits(v), ThreeDigits(server)
                 PROVE  /\ (IsNewer(server, v) <=> Value(server) > Value(v))
                        /\ (IsNewer(v, server) <=> Value(v) > Value(server))
    BY DEF NewerIsOrder
  <2>2. server \in Text /\ v \in Text
    BY <2>1, VersionAssumption, RivalAssumption DEF TypeOK, Text
  <2>3. QED
    BY <2>1, <2>2, NewerIffLarger
<1>2. QED
  BY <1>1, TypeCorrect, PTL
=============================================================================
