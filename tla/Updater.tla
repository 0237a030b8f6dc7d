------------------------------- MODULE Updater -------------------------------
(***************************************************************************)
(* The install directory and what changes it: the `update` command of the   *)
(* CLI (cli/lib/update.mjs), one action per call that touches the directory, *)
(* and the installer script (install.sh, install.ps1). Every call may fail,  *)
(* the process may be killed between any two, and the server may be deployed *)
(* anew, or rolled back, at any time.                                        *)
(*                                                                          *)
(* An entry is a whole tree of some release, or Torn where its files were    *)
(* being written or removed when somebody was interrupted. One command runs  *)
(* at a time.                                                                *)
(***************************************************************************)
EXTENDS Integers, Sequences

CONSTANTS
  Version,   \* releases, as the segments of their version number
  Ships,     \* Ships[v]: the entries in the bundle of v
  NaN,       \* a segment that is not a number
  None,      \* a missing entry; no command running
  Torn,      \* an entry only partly there
  MaxFaults, \* bound: how often a command is interrupted
  Rival,     \* versions to compare the deployed one with, and
  Radix      \* what their segments stay below, for the property on their order

Order == <<"cli", "interface", "shared", "template.config.json">>
Entry == {Order[k] : k \in 1..4}

(* What the CLI reads before it can run any command *)
Program == Entry \ {"interface"}

ASSUME VersionAssumption ==
  /\ Version \subseteq Seq(Nat \cup {NaN}) /\ NaN \notin Nat
  /\ Ships \in [Version -> SUBSET Entry]
  /\ MaxFaults \in Nat

ASSUME RivalAssumption == Rival \subseteq Seq(Nat \cup {NaN}) /\ Radix \in Nat

ASSUME NoneAssumption ==
  /\ None \notin Version /\ Torn \notin Version /\ None # Torn
  /\ None \notin [pc : STRING, local : Version, remote : Seq(Nat \cup {NaN}),
                  bundle : Version, k : 1..5]

VARIABLES
  git,        \* the directory is a git checkout
  installed,  \* installed[e]: the entry e of the directory
  old,        \* old[e]: .<e>.old beside it
  server,     \* the release deployed
  job,        \* the command that runs, or None
  outcome,    \* what the last command reported, or "none"
  faults      \* how often a command was interrupted

vars == <<git, installed, old, server, job, outcome, faults>>

-----------------------------------------------------------------------------
(* versions.mjs *)

Num(s) == IF s = NaN THEN 0 ELSE s
Segment(v, i) == IF i <= Len(v) THEN Num(v[i]) ELSE 0

Longer(a, b) == IF Len(a) < Len(b) THEN Len(b) ELSE Len(a)

(* Faulty variants, named <definition>_<fault>, are never used by Next. *)
IsNewer_Shorter(remote, local) ==
  \E i \in 1..Len(local) :
    /\ Segment(remote, i) > Segment(local, i)
    /\ \A j \in 1..(i - 1) : Segment(remote, j) = Segment(local, j)

(* isNewerVersion: the first segments that differ decide. *)
IsNewer(remote, local) ==
  \E i \in 1..Longer(remote, local) :
    /\ Segment(remote, i) > Segment(local, i)
    /\ \A j \in 1..(i - 1) : Segment(remote, j) = Segment(local, j)

-----------------------------------------------------------------------------
At(pc) == job # None /\ job.pc = pc

Finish(result) == job' = None /\ outcome' = result

(* The entry the command is about *)
Current == Order[job.k]

Advance_PastEnd(pc, result) ==
  IF job.k < 5 THEN job' = [job EXCEPT !.pc = pc, !.k = @ + 1] /\ UNCHANGED outcome
               ELSE Finish(result)
Advance_SkipsLast(pc, result) ==
  IF job.k < 3 THEN job' = [job EXCEPT !.pc = pc, !.k = @ + 1] /\ UNCHANGED outcome
               ELSE Finish(result)

(* The next entry, if any, is dealt with from `pc` on. *)
Advance(pc, result) ==
  IF job.k < 4 THEN job' = [job EXCEPT !.pc = pc, !.k = @ + 1] /\ UNCHANGED outcome
               ELSE Finish(result)

(* What an interrupted removal leaves of x *)
Leftovers(x) == IF x = None THEN {None} ELSE {x, Torn, None}

(* Versions that a package.json in the entry `cli` may name *)
Readable(x) == IF x = Torn THEN Version ELSE {x} \ {None}

-----------------------------------------------------------------------------
(* runUpdate *)

Refuse ==
  /\ job = None /\ git
  /\ outcome' = "refused"
  /\ UNCHANGED <<git, installed, old, server, job, faults>>

Start ==
  /\ job = None /\ ~git
  /\ \A e \in Program : installed[e] # None
  /\ \E v \in Readable(installed["cli"]) :
       job' = [pc |-> "check", local |-> v, remote |-> v, bundle |-> v, k |-> 1]
  /\ outcome' = "none"
  /\ UNCHANGED <<git, installed, old, server, faults>>

Check_Different ==
  /\ At("check")
  /\ IF server # job.local
       THEN job' = [job EXCEPT !.pc = "fetch", !.remote = server] /\ UNCHANGED outcome
       ELSE Finish("current")
  /\ UNCHANGED <<git, installed, old, server, faults>>

(* An answer without a version compares as one that is no number. *)
Check ==
  /\ At("check")
  /\ \E answer \in {server, <<NaN>>} :
       IF IsNewer(answer, job.local)
         THEN job' = [job EXCEPT !.pc = "fetch", !.remote = answer] /\ UNCHANGED outcome
         ELSE Finish("current")
  /\ UNCHANGED <<git, installed, old, server, faults>>

(* The bundle is that of the release deployed by now; it is unpacked into a *)
(* temporary directory.                                                     *)
Fetch ==
  /\ At("fetch")
  /\ job' = [job EXCEPT !.pc = "clear", !.bundle = server]
  /\ UNCHANGED <<git, installed, old, server, outcome, faults>>

(* The first rmSync, if the bundle has the entry *)
Clear ==
  /\ At("clear")
  /\ IF Current \in Ships[job.bundle]
       THEN /\ old' = [old EXCEPT ![Current] = None]
            /\ job' = [job EXCEPT !.pc = "aside"]
            /\ UNCHANGED outcome
       ELSE Advance("clear", "updated") /\ UNCHANGED old
  /\ UNCHANGED <<git, installed, server, faults>>

Aside_Deletes ==
  /\ At("aside")
  /\ installed' = [installed EXCEPT ![Current] = None]
  /\ job' = [job EXCEPT !.pc = "place"]
  /\ UNCHANGED <<git, old, server, outcome, faults>>

(* renameSync(cur, old), if there is a cur *)
Aside ==
  /\ At("aside")
  /\ old' = [old EXCEPT ![Current] = installed[Current]]
  /\ installed' = [installed EXCEPT ![Current] = None]
  /\ job' = [job EXCEPT !.pc = "place"]
  /\ UNCHANGED <<git, server, outcome, faults>>

(* renameSync(next, cur) *)
Place ==
  /\ At("place")
  /\ installed' = [installed EXCEPT ![Current] = job.bundle]
  /\ job' = [job EXCEPT !.pc = "drop"]
  /\ UNCHANGED <<git, old, server, outcome, faults>>

(* The second rmSync *)
Drop ==
  /\ At("drop")
  /\ old' = [old EXCEPT ![Current] = None]
  /\ Advance("clear", "updated")
  /\ UNCHANGED <<git, installed, server, faults>>

-----------------------------------------------------------------------------
(* The installer: it fetches the bundle and unpacks it over what is there. *)

Install ==
  /\ job = None /\ ~git
  /\ job' = [pc |-> "unpack", local |-> server, remote |-> server, bundle |-> server, k |-> 1]
  /\ outcome' = "none"
  /\ UNCHANGED <<git, installed, old, server, faults>>

Unpack ==
  /\ At("unpack")
  /\ installed' = IF Current \in Ships[job.bundle]
                    THEN [installed EXCEPT ![Current] = job.bundle] ELSE installed
  /\ Advance("unpack", "installed")
  /\ UNCHANGED <<git, old, server, faults>>

-----------------------------------------------------------------------------
(* A call fails, which ends the command with a report, or the process is killed. *)
Interrupt ==
  /\ job # None /\ faults < MaxFaults
  /\ faults' = faults + 1
  /\ \/ outcome' = "none"
     \/ At("check") /\ outcome' = "offline"
     \/ ~At("check") /\ outcome' = "failed"
  /\ job' = None
  /\ IF job.pc \in {"clear", "drop"}
       THEN \E left \in Leftovers(old[Current]) : old' = [old EXCEPT ![Current] = left]
       ELSE UNCHANGED old
  /\ IF At("unpack")
       THEN \E left \in {installed[Current], Torn} :
              installed' = [installed EXCEPT ![Current] = left]
       ELSE UNCHANGED installed
  /\ UNCHANGED <<git, server>>

Deploy(v) ==
  /\ server' = v
  /\ UNCHANGED <<git, installed, old, job, outcome, faults>>

-----------------------------------------------------------------------------
Init ==
  /\ server \in Version
  /\ old = [e \in Entry |-> None]
  /\ git \in BOOLEAN
  /\ installed = [e \in Entry |-> IF git THEN server ELSE None]
  /\ job = None
  /\ outcome = "none"
  /\ faults = 0

Next ==
  \/ Refuse \/ Start \/ Check \/ Fetch \/ Clear \/ Aside \/ Place \/ Drop
  \/ Install \/ Unpack
  \/ Interrupt
  \/ \E v \in Version : Deploy(v)

Spec == Init /\ [][Next]_vars

-----------------------------------------------------------------------------
(* Properties *)

Copy == Version \cup {Torn, None}
Swapping == job # None /\ job.pc \in {"clear", "aside", "place", "drop"}

TypeOK ==
  /\ git \in BOOLEAN
  /\ installed \in [Entry -> Copy] /\ old \in [Entry -> Copy]
  /\ server \in Version
  /\ job \in [pc : {"check", "fetch", "clear", "aside", "place", "drop", "unpack"},
              local : Version, remote : Version \cup {<<NaN>>}, bundle : Version, k : 1..4]
             \cup {None}
  /\ outcome \in {"none", "refused", "offline", "current", "failed", "updated", "installed"}
  /\ faults \in 0..MaxFaults

(***************************************************************************)
(* A command that reports success has left everything of one release: no    *)
(* entry of the bundle is missing, torn, or of another release, whatever     *)
(* commands failed half way before; and `update` leaves no .old of these.    *)
(***************************************************************************)
UpdatedIsWhole ==
  outcome \in {"updated", "installed"} =>
    \E v \in Version : \A e \in Ships[v] :
      installed[e] = v /\ (outcome = "updated" => old[e] = None)

(***************************************************************************)
(* A whole copy of an entry the CLI cannot start without, in place or beside *)
(* it, is lost in two ways only: the installer is interrupted while it       *)
(* unpacks over it; or it was torn so, its whole copy is under .old because  *)
(* of an update interrupted before, and the next update clears .old first.   *)
(* Updates alone, failed or killed anywhere, lose nothing: they tear no      *)
(* entry in place. (Of `interface` they may: when one failed to place it,    *)
(* the next clears .interface.old, the only copy.)                           *)
(***************************************************************************)
Kept(e) == {installed[e], old[e]} \cap Version # {}
InstallerInterrupted == At("unpack") /\ faults' > faults
ClearsForTorn(e) == At("clear") /\ e = Current /\ installed[e] = Torn
LastCopyKept ==
  [][\A e \in Program :
       /\ Kept(e) => Kept(e)' \/ InstallerInterrupted \/ ClearsForTorn(e)
       /\ installed'[e] = Torn => installed[e] = Torn \/ InstallerInterrupted]_vars

(***************************************************************************)
(* "isNewerVersion": an update does not put an older program in the place of *)
(* a newer one, although the answer about the version and the bundle are two *)
(* requests - unless the server is rolled back between the two.              *)
(***************************************************************************)
NeverDowngrade ==
  Swapping /\ ~IsNewer(job.remote, job.bundle) => IsNewer(job.bundle, job.local)

(* A version of at most three segments, read as a number they are the digits of *)
ThreeDigits(v) == Len(v) <= 3 /\ \A i \in 1..3 : Segment(v, i) < Radix
Value(v) == (Segment(v, 1) * Radix + Segment(v, 2)) * Radix + Segment(v, 3)

(***************************************************************************)
(* isNewerVersion compares versions as numbers whose digits are the segments *)
(* ("numeric dot-segment comparison"): never as text, and whatever their     *)
(* lengths. So the version deployed is compared with any other, either way.  *)
(***************************************************************************)
NewerIsOrder ==
  \A v \in Rival : ThreeDigits(v) /\ ThreeDigits(server) =>
    /\ (IsNewer(server, v) <=> Value(server) > Value(v))
    /\ (IsNewer(v, server) <=> Value(v) > Value(server))
=============================================================================
