---------------------------- MODULE IndexLifecycle ----------------------------
(***************************************************************************)
(* The versions of the index assets on disk                                *)
(* (src/codeintel_rev/indexing/index_lifecycle.py, IndexLifecycleManager)  *)
(* and the processes - servers, CLI calls - that stage, publish and switch *)
(* them without a lock.  An action is one call of the file system; a       *)
(* process may raise or die between any two of them.  The contents of a    *)
(* directory are the parts copied into it, "." standing for the directory. *)
(***************************************************************************)
EXTENDS Naturals, FiniteSets

CONSTANTS
  Procs,      \* the processes, each one call after the other
  Versions,   \* version identifiers
  MaxCalls    \* bound on the calls made

VARIABLES
  staging,    \* versions/<v>.staging of each version; {} when absent
  final,      \* versions/<v> of each version; {} when absent
  tmp,        \* CURRENT.tmp: a version, or what a file is without one
  current,    \* CURRENT, likewise
  link,       \* where the symlink `current` points
  pc,         \* where each process is
  version,    \* the version it works on
  fd,         \* the file its open handle writes to
  overlapped, \* history: two processes were between the open and the replace
  cut,        \* history: a process stopped while switching, or two did so at once
  bare,       \* history: CURRENT was switched to a version without a manifest
  calls       \* history: the number of calls made

dirs == <<staging, final>>
pointer == <<tmp, current, link, fd>>
history == <<overlapped, cut, bare>>
vars == <<staging, final, tmp, current, link, pc, version, fd, overlapped, cut, bare,
          calls>>

Absent == "absent"
Empty == "empty"      \* open("w") has truncated the file
Garbled == "garbled"  \* two writes of different length on one file
NoName == {Absent, Empty, Garbled}

ASSUME NamesAssumption == Versions \intersect NoName = {} /\ MaxCalls \in Nat

Assets == {"index", "rest"}
Parts == {".", "manifest", "lucene"} \union Assets

Writing == {p \in Procs : pc[p] \in {"write", "replace"}}
Linking == {p \in Procs : pc[p] \in {"link", "unlink", "symlink"}}
Switching == {p \in Procs : pc[p] = "open"} \union Writing \union Linking

Init ==
  /\ staging = [v \in Versions |-> {}] /\ final = [v \in Versions |-> {}]
  /\ tmp = Absent /\ current = Absent /\ link = Absent
  /\ pc = [p \in Procs |-> "idle"]
  /\ version = [p \in Procs |-> Absent]
  /\ fd = [p \in Procs |-> "none"]
  /\ overlapped = FALSE /\ cut = FALSE /\ bare = FALSE /\ calls = 0

Begin(p, v, l) ==
  /\ pc[p] = "idle" /\ calls < MaxCalls
  /\ calls' = calls + 1
  /\ pc' = [pc EXCEPT ![p] = l]
  /\ version' = [version EXCEPT ![p] = IF l = "idle" THEN Absent ELSE v]
Goto(p, l) ==
  /\ pc' = [pc EXCEPT ![p] = l]
  /\ version' = [version EXCEPT ![p] = IF l = "idle" THEN Absent ELSE @]
  /\ UNCHANGED calls

(***************************************************************************)
(* Faulty variants of the definitions below, one per property: no part of  *)
(* the specification, they show that each property can fail.               *)
(***************************************************************************)
\* The manifest is written first.
BeginStagingWithManifest(p, v) ==
  /\ staging[v] = {}
  /\ staging' = [staging EXCEPT ![v] = {".", "manifest"}]
  /\ Begin(p, v, "copy index")
  /\ UNCHANGED <<final, pointer, history>>

\* A staged directory is published without a look at its manifest.
PublishUnchecked(p, v) ==
  /\ staging[v] # {} /\ final[v] \subseteq {"."}
  /\ final' = [final EXCEPT ![v] = staging[v]]
  /\ staging' = [staging EXCEPT ![v] = {}]
  /\ Begin(p, v, "open")
  /\ UNCHANGED <<pointer, history>>

\* CURRENT is written in place.
OpenInPlace(p) ==
  /\ pc[p] = "open"
  /\ tmp' = Empty /\ current' = Empty
  /\ fd' = [fd EXCEPT ![p] = "tmp"]
  /\ Goto(p, "write")
  /\ overlapped' = (overlapped \/ Writing # {})
  /\ UNCHANGED <<dirs, link, cut, bare>>

\* The pointer is switched before the directory is known to exist.
RollbackAnywhere(p, v) ==
  /\ Begin(p, v, "open")
  /\ bare' = (bare \/ "manifest" \notin final[v])
  /\ cut' = (cut \/ Switching # {})
  /\ UNCHANGED <<dirs, pointer, overlapped>>

\* An old link is left where it is.
FindLinkAndKeep(p) ==
  /\ pc[p] = "link"
  /\ Goto(p, "symlink")
  /\ UNCHANGED <<dirs, pointer, history>>

\* A directory that is there is published over.
PublishOver(p, v) ==
  /\ staging[v] # {}
  /\ final' = [final EXCEPT ![v] = staging[v]]
  /\ staging' = [staging EXCEPT ![v] = {}]
  /\ Begin(p, v, IF "manifest" \in staging[v] THEN "open" ELSE "idle")
  /\ cut' = (cut \/ Switching # {})
  /\ UNCHANGED <<pointer, overlapped, bare>>

(***************************************************************************)
(* prepare                                                                 *)
(***************************************************************************)
BeginStaging(p, v) ==
  /\ staging[v] = {}
  /\ staging' = [staging EXCEPT ![v] = {"."}]
  /\ Begin(p, v, "copy index")
  /\ UNCHANGED <<final, pointer, history>>

\* A copy creates the directory again if it has been moved away.
Copy(p, part, l) ==
  /\ staging' = [staging EXCEPT ![version[p]] = @ \union {".", part}]
  /\ Goto(p, l)
  /\ UNCHANGED <<final, pointer, history>>
CopyIndex(p) == pc[p] = "copy index" /\ Copy(p, "index", "copy rest")
CopyRest(p) == pc[p] = "copy rest" /\ Copy(p, "rest", "copy manifest")

WriteManifest(p) ==
  /\ pc[p] = "copy manifest" /\ staging[version[p]] # {}
  /\ Copy(p, "manifest", "idle")

(***************************************************************************)
(* publish, rollback, link_lucene_assets, up to the switch                 *)
(***************************************************************************)
\* The rename fails unless the final directory is absent or empty; a version
\* without a manifest is moved, but not switched to.
Publish(p, v) ==
  /\ staging[v] # {} /\ final[v] \subseteq {"."}
  /\ final' = [final EXCEPT ![v] = staging[v]]
  /\ staging' = [staging EXCEPT ![v] = {}]
  /\ Begin(p, v, IF "manifest" \in staging[v] THEN "open" ELSE "idle")
  /\ cut' = (cut \/ Switching # {})
  /\ UNCHANGED <<pointer, overlapped, bare>>

Rollback(p, v) ==
  /\ final[v] # {}
  /\ Begin(p, v, "open")
  /\ bare' = (bare \/ "manifest" \notin final[v])
  /\ cut' = (cut \/ Switching # {})
  /\ UNCHANGED <<dirs, pointer, overlapped>>

BeginLucene(p, v) ==
  /\ final' = [final EXCEPT ![v] = @ \union {"."}]
  /\ Begin(p, v, "clear lucene")
  /\ UNCHANGED <<staging, pointer, history>>

\* What an earlier call linked is removed, so that nothing but the directory may be
\* left of a version, ...
ClearLucene(p) ==
  /\ pc[p] = "clear lucene"
  /\ final' = [final EXCEPT ![version[p]] = @ \ {"lucene"}]
  /\ Goto(p, "copy lucene")
  /\ UNCHANGED <<staging, pointer, history>>

\* ... before the assets are copied, which fails if others have linked some meanwhile.
CopyLucene(p) ==
  /\ pc[p] = "copy lucene" /\ "lucene" \notin final[version[p]]
  /\ final' = [final EXCEPT ![version[p]] = @ \union {".", "lucene"}]
  /\ Goto(p, "open")
  /\ bare' = (bare \/ "manifest" \notin final[version[p]])
  /\ cut' = (cut \/ Switching # {})
  /\ UNCHANGED <<staging, pointer, overlapped>>

(***************************************************************************)
(* _write_current_pointer                                                  *)
(***************************************************************************)
\* write_text opens CURRENT.tmp, the same file for every process, ...
OpenTmp(p) ==
  /\ pc[p] = "open"
  /\ tmp' = Empty
  /\ fd' = [fd EXCEPT ![p] = "tmp"]
  /\ Goto(p, "write")
  /\ overlapped' = (overlapped \/ Writing # {})
  /\ UNCHANGED <<dirs, current, link, cut, bare>>

\* ... and writes when it closes the handle, wherever the file is by then.
Written(p, file) == IF file \in {Empty, version[p]} THEN {version[p]}
                                                    ELSE {version[p], Garbled}
WriteTmp(p) ==
  /\ pc[p] = "write"
  /\ tmp' \in IF fd[p] = "tmp" THEN Written(p, tmp) ELSE {tmp}
  /\ current' \in IF fd[p] = "current" THEN Written(p, current) ELSE {current}
  /\ Goto(p, "replace")
  /\ fd' = [fd EXCEPT ![p] = "none"]
  /\ UNCHANGED <<dirs, link, history>>

Replace(p) ==
  /\ pc[p] = "replace" /\ tmp # Absent
  /\ current' = tmp /\ tmp' = Absent
  /\ fd' = [q \in Procs |-> CASE fd[q] = "tmp" -> "current"
                              [] fd[q] = "current" -> "gone"
                              [] OTHER -> fd[q]]
  /\ Goto(p, "link")
  /\ UNCHANGED <<dirs, link, history>>

\* The symlink: is_symlink() or exists(), then unlink(), then symlink_to(); an
\* OSError of the last two is suppressed.
FindLink(p) ==
  /\ pc[p] = "link"
  /\ Goto(p, IF link = Absent THEN "symlink" ELSE "unlink")
  /\ UNCHANGED <<dirs, pointer, history>>

Unlink(p) ==
  /\ pc[p] = "unlink"
  /\ link' = Absent
  /\ Goto(p, IF link = Absent THEN "idle" ELSE "symlink")
  /\ UNCHANGED <<dirs, tmp, current, fd, history>>

Symlink(p) ==
  /\ pc[p] = "symlink"
  /\ link' = IF link = Absent THEN version[p] ELSE link
  /\ Goto(p, "idle")
  /\ UNCHANGED <<dirs, tmp, current, fd, history>>

(***************************************************************************)
(* A step raises, or the process dies                                      *)
(***************************************************************************)
Stop(p) ==
  /\ pc[p] # "idle"
  /\ Goto(p, "idle")
  /\ fd' = [fd EXCEPT ![p] = "none"]
  /\ cut' = (cut \/ p \in Switching)
  /\ UNCHANGED <<dirs, tmp, current, link, overlapped, bare>>

Prepare(p) ==
  \/ \E v \in Versions : BeginStaging(p, v)
  \/ CopyIndex(p) \/ CopyRest(p) \/ WriteManifest(p)
Choose(p) ==
  \/ \E v \in Versions : Publish(p, v) \/ Rollback(p, v) \/ BeginLucene(p, v)
  \/ ClearLucene(p) \/ CopyLucene(p)
Switch(p) ==
  \/ OpenTmp(p) \/ WriteTmp(p) \/ Replace(p)
  \/ FindLink(p) \/ Unlink(p) \/ Symlink(p)

Next == \E p \in Procs : Prepare(p) \/ Choose(p) \/ Switch(p) \/ Stop(p)

Spec == Init /\ [][Next]_vars

(***************************************************************************)
(* Properties                                                              *)
(***************************************************************************)
\* Every variable keeps its kind of value; only CURRENT.tmp and CURRENT can be
\* without a name, and a handle is open between the open and the write only.
TypeOK ==
  /\ staging \in [Versions -> SUBSET Parts] /\ final \in [Versions -> SUBSET Parts]
  /\ tmp \in Versions \union NoName /\ current \in Versions \union NoName
  /\ link \in Versions \union {Absent}
  /\ version \in [Procs -> Versions \union {Absent}]
  /\ fd \in [Procs -> {"none", "tmp", "current", "gone"}]
  /\ \A p \in Procs : /\ pc[p] = "idle" <=> version[p] = Absent
                      /\ pc[p] = "write" <=> fd[p] # "none"
  /\ {overlapped, cut, bare} \subseteq BOOLEAN

\* prepare writes the manifest last and publish renames the whole directory: a
\* version with a manifest has all its index assets, whoever else stages or publishes it.
ManifestMeansComplete ==
  \A v \in Versions : "manifest" \in final[v] => Assets \subseteq final[v]

\* Whatever name CURRENT holds is that of a version directory, even if processes
\* write it through each other's file.
CurrentExists == current \in Versions => final[current] # {}

\* A publish never makes an incomplete version active: CURRENT names one without a
\* manifest only if a rollback or link_lucene_assets switched to it.
ActiveCommitted == ~bare /\ current \in Versions => "manifest" \in final[current]

\* Written beside and renamed, CURRENT is never seen without a name while one
\* process at a time switches it, wherever that process stops.
NeverTorn == ~overlapped => current \in Versions \union {Absent}

\* After switches that do not overlap and are not cut short, the symlink the
\* runtimes read through points to the version CURRENT names.
LinkFollows == ~cut /\ Switching = {} => link = current

\* What a directory's parts make of its version, the versions CURRENT can still be
\* switched to, and the one current_version() tells.
Condition(dir) == CASE dir = {} -> "absent"
                    [] dir = {"."} -> "empty"
                    [] dir = {".", "lucene"} -> "linked"
                    [] {"manifest"} \union Assets \subseteq dir -> "complete"
                    [] "manifest" \in dir /\ ~(Assets \subseteq dir) -> "broken"
                    [] OTHER -> "partial"
Conditions == [v \in Versions |-> Condition(final[v])]
Chosen == Versions \intersect ({tmp} \union {version[p] : p \in Switching \ Linking})
Active == IF current \in Versions THEN current ELSE Absent

\* The file system calls of all processes together implement Releases: a version
\* becomes complete in one step, from an empty directory or none, and for good, and
\* CURRENT moves to chosen ones only.
Public == INSTANCE Releases WITH
            None <- Absent, release <- Conditions, pending <- Chosen,
            active <- Active, plain <- bare, loose <- overlapped
ImplementsReleases == Public!ReleasesSpec

\* The docstring of publish: "designed to be safe for concurrent access" - once a
\* version is active, no step leaves CURRENT empty, with None for current_version()
\* to answer.
ActiveNeverLost == [][(current \in Versions) => (current' # Empty)]_current
===============================================================================
