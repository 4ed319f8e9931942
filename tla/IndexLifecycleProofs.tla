------------------------ MODULE IndexLifecycleProofs ------------------------
(* Theorems about IndexLifecycle, for every set of processes and of versions   *)
(* and every number of calls.                                                  *)
EXTENDS IndexLifecycle, TLAPS

(***************************************************************************)
(* The inductive invariant                                                 *)
(***************************************************************************)
Places == {"idle", "copy index", "copy rest", "copy manifest", "clear lucene",
           "copy lucene", "open", "write", "replace", "link", "unlink", "symlink"}

Kinds ==
  /\ staging \in [Versions -> SUBSET Parts] /\ final \in [Versions -> SUBSET Parts]
  /\ tmp \in Versions \union NoName /\ current \in Versions \union NoName
  /\ link \in Versions \union {Absent}
  /\ pc \in [Procs -> Places]
  /\ version \in [Procs -> Versions \union {Absent}]
  /\ fd \in [Procs -> {"none", "tmp", "current", "gone"}]
  /\ \A p \in Procs : /\ pc[p] = "idle" <=> version[p] = Absent
                      /\ pc[p] = "write" <=> fd[p] # "none"
Flags == overlapped \in BOOLEAN /\ cut \in BOOLEAN /\ bare \in BOOLEAN
Types == Kinds /\ Flags

\* What prepare has copied when it is at l.
Done(l) == CASE l = "copy rest" -> {"index"}
             [] l = "copy manifest" -> Assets
             [] OTHER -> {}

\* A version that can be published, or could once its Lucene assets are removed, is
\* staged in order; any other is out of reach of whoever stages it again.
Open(v) == final[v] \subseteq {".", "lucene"}
Staged ==
  \A v \in Versions : Open(v) =>
    /\ "manifest" \in staging[v] => Assets \subseteq staging[v]
    /\ \A p \in Procs : version[p] = v => Done(pc[p]) \subseteq staging[v]

\* A directory with anything in it is there, and prepare stages no Lucene assets.
Rooted ==
  \A v \in Versions : /\ final[v] # {} => "." \in final[v]
                      /\ staging[v] # {} => "." \in staging[v]
                      /\ "lucene" \notin staging[v]

\* The versions that CURRENT names, or may come to name without another choice.
Named == Versions \intersect ({current, tmp} \union {version[p] : p \in Switching})
Existing == \A v \in Named : final[v] # {}
Committed == \A v \in Named : "manifest" \in final[v]

\* One process at a time between the open and the rename has the file for itself.
AloneOnTmp ==
  /\ \A p, q \in Writing : p = q
  /\ \A p \in Procs : /\ pc[p] = "write" => fd[p] = "tmp" /\ tmp = Empty
                      /\ pc[p] = "replace" => tmp = version[p]
  /\ current \in Versions \union {Absent}

\* One process at a time in the switch leaves CURRENT and the link together.
InStep ==
  /\ \A p, q \in Switching : p = q
  /\ \A p \in Linking : current = version[p]
  /\ \A p \in Procs : /\ pc[p] = "unlink" => link # Absent
                      /\ pc[p] = "symlink" => link = Absent
  /\ Switching = {} => link = current

Promises ==
  /\ ~bare => Committed
  /\ ~overlapped => AloneOnTmp
  /\ ~cut => ~overlapped /\ InStep

IInv == Types /\ Staged /\ Rooted /\ ManifestMeansComplete /\ Existing /\ Promises

(***************************************************************************)
(* Values and places                                                       *)
(***************************************************************************)
LEMMA Names ==
  /\ Absent \in NoName /\ Empty \in NoName /\ Garbled \in NoName
  /\ Absent \notin Versions /\ Empty \notin Versions /\ Garbled \notin Versions
  /\ Absent # Empty /\ Absent # Garbled /\ Empty # Garbled
BY NamesAssumption DEF NoName, Absent, Empty, Garbled

LEMMA PlacesOf ==
  /\ \A p \in Procs : p \in Writing <=> pc[p] \in {"write", "replace"}
  /\ \A p \in Procs : p \in Linking <=> pc[p] \in {"link", "unlink", "symlink"}
  /\ \A p \in Procs : p \in Switching <=>
       pc[p] \in {"open", "write", "replace", "link", "unlink", "symlink"}
  /\ Writing \subseteq Procs /\ Linking \subseteq Procs /\ Switching \subseteq Procs
BY DEF Writing, Linking, Switching

\* A call begins: only its process moves, from nowhere to l.
LEMMA Begins ==
  ASSUME Kinds, NEW p \in Procs, NEW v \in Versions, NEW l \in Places, Begin(p, v, l)
  PROVE  /\ pc[p] = "idle" /\ version[p] = Absent /\ fd[p] = "none"
         /\ pc' \in [Procs -> Places] /\ version' \in [Procs -> Versions \union {Absent}]
         /\ pc'[p] = l /\ version'[p] = (IF l = "idle" THEN Absent ELSE v)
         /\ \A q \in Procs \ {p} : pc'[q] = pc[q] /\ version'[q] = version[q]
BY Names DEF Begin, Kinds, Places

LEMMA Goes ==
  ASSUME Kinds, NEW p \in Procs, NEW l \in Places, Goto(p, l)
  PROVE  /\ pc' \in [Procs -> Places] /\ version' \in [Procs -> Versions \union {Absent}]
         /\ pc'[p] = l /\ version'[p] = (IF l = "idle" THEN Absent ELSE version[p])
         /\ \A q \in Procs \ {p} : pc'[q] = pc[q] /\ version'[q] = version[q]
BY DEF Goto, Kinds

\* Where each action goes.
LEMMA Starting ==
  ASSUME Kinds, NEW p \in Procs, NEW v \in Versions
  PROVE  /\ BeginStaging(p, v) => Begin(p, v, "copy index")
         /\ Publish(p, v) => \E l \in {"open", "idle"} : Begin(p, v, l)
         /\ Rollback(p, v) => Begin(p, v, "open")
         /\ BeginLucene(p, v) => Begin(p, v, "clear lucene")
BY DEF BeginStaging, Publish, Rollback, BeginLucene

LEMMA InitIInv == Init => IInv
<1> SUFFICES ASSUME Init PROVE IInv
  OBVIOUS
<1>1. Kinds
  BY Names DEF Init, Kinds, Places
<1>2. Flags
  BY DEF Init, Flags
<1>3. Staged /\ ManifestMeansComplete
  BY DEF Init, Staged, ManifestMeansComplete, Done
<1>7. Rooted
  BY DEF Init, Rooted
<1>4. Named = {} /\ Switching = {} /\ Linking = {}
  BY Names DEF Init, Named, Switching, Writing, Linking
<1>5. AloneOnTmp /\ InStep
  BY <1>4 DEF Init, AloneOnTmp, InStep, Writing
<1>6. ~overlapped
  BY DEF Init
<1> QED
  BY <1>1, <1>2, <1>3, <1>4, <1>5, <1>6, <1>7
     DEF IInv, Types, Existing, Committed, Promises

(***************************************************************************)
(* Types                                                                   *)
(***************************************************************************)
LEMMA KindsStep == Kinds /\ [Next]_vars => Kinds'
<1> SUFFICES ASSUME Kinds, [Next]_vars PROVE Kinds'
  OBVIOUS
<1>1. ASSUME NEW p \in Procs, NEW v \in Versions, NEW l \in Places \ {"write"},
             Begin(p, v, l), UNCHANGED pointer,
             staging' \in [Versions -> SUBSET Parts], final' \in [Versions -> SUBSET Parts]
      PROVE  Kinds'
  <2>1. /\ pc[p] = "idle" /\ fd[p] = "none"
        /\ pc' \in [Procs -> Places] /\ version' \in [Procs -> Versions \union {Absent}]
        /\ pc'[p] = l /\ version'[p] = (IF l = "idle" THEN Absent ELSE v)
        /\ \A q \in Procs \ {p} : pc'[q] = pc[q] /\ version'[q] = version[q]
    BY <1>1, Begins
  <2> QED
    BY <1>1, <2>1, Names DEF Kinds, pointer
<1>2. ASSUME NEW p \in Procs, NEW l \in Places, Goto(p, l), pc[p] # "idle",
             fd' \in [Procs -> {"none", "tmp", "current", "gone"}],
             \A q \in Procs \ {p} : fd'[q] # "none" <=> fd[q] # "none",
             fd'[p] # "none" <=> l = "write",
             tmp' \in Versions \union NoName, current' \in Versions \union NoName,
             link' \in Versions \union {Absent},
             staging' \in [Versions -> SUBSET Parts], final' \in [Versions -> SUBSET Parts]
      PROVE  Kinds'
  <2>1. /\ pc' \in [Procs -> Places] /\ version' \in [Procs -> Versions \union {Absent}]
        /\ pc'[p] = l /\ version'[p] = (IF l = "idle" THEN Absent ELSE version[p])
        /\ \A q \in Procs \ {p} : pc'[q] = pc[q] /\ version'[q] = version[q]
    BY <1>2, Goes
  <2> QED
    BY <1>2, <2>1 DEF Kinds
<1>3. ASSUME NEW p \in Procs, NEW v \in Versions, BeginStaging(p, v) PROVE Kinds'
  BY <1>1, <1>3, Starting DEF BeginStaging, Kinds, Parts, Places
<1>4. ASSUME NEW p \in Procs, NEW v \in Versions, Publish(p, v) PROVE Kinds'
  <2>1. PICK l \in {"open", "idle"} : Begin(p, v, l)
    BY <1>4, Starting
  <2> QED
    BY <1>1, <1>4, <2>1 DEF Publish, Kinds, Parts, Places
<1>5. ASSUME NEW p \in Procs, NEW v \in Versions, Rollback(p, v) \/ BeginLucene(p, v)
      PROVE  Kinds'
  <2>1. /\ UNCHANGED <<staging, pointer>>
        /\ final' = final \/ final' = [final EXCEPT ![v] = @ \union {"."}]
    BY <1>5 DEF Rollback, BeginLucene, dirs
  <2>2. /\ staging' \in [Versions -> SUBSET Parts]
        /\ final' \in [Versions -> SUBSET Parts]
    BY <2>1 DEF Kinds, Parts
  <2>3. PICK l \in {"open", "clear lucene"} : Begin(p, v, l)
    BY <1>5, Starting
  <2> QED
    BY <1>1, <2>1, <2>2, <2>3 DEF Places
<1>6. ASSUME NEW p \in Procs, CopyIndex(p) \/ CopyRest(p) \/ WriteManifest(p) PROVE Kinds'
  <2>1. PICK l \in {"copy rest", "copy manifest", "idle"},
             part \in {"index", "rest", "manifest"} : Copy(p, part, l)
    BY <1>6 DEF CopyIndex, CopyRest, WriteManifest
  <2>2. pc[p] # "idle" /\ pc[p] # "write"
    BY <1>6 DEF CopyIndex, CopyRest, WriteManifest
  <2>3. staging' \in [Versions -> SUBSET Parts]
    BY <2>1 DEF Copy, Kinds, Parts, Assets
  <2>4. Goto(p, l) /\ l \in Places \ {"write"} /\ UNCHANGED <<final, tmp, current, link, fd>>
    BY <2>1 DEF Copy, pointer, Places
  <2>5. final \in [Versions -> SUBSET Parts] /\ fd[p] = "none"
    BY <2>2 DEF Kinds
  <2> QED
    BY <1>2, <2>2, <2>3, <2>4, <2>5 DEF Kinds
<1>7. ASSUME NEW p \in Procs, ClearLucene(p) \/ CopyLucene(p) PROVE Kinds'
  <2>4. \/ final' = [final EXCEPT ![version[p]] = @ \ {"lucene"}]
        \/ final' = [final EXCEPT ![version[p]] = @ \union {".", "lucene"}]
    BY <1>7, Zenon DEF ClearLucene, CopyLucene
  <2>1. final' \in [Versions -> SUBSET Parts]
    BY <2>4 DEF Kinds, Parts
  <2>2. CASE ClearLucene(p)
    BY <1>2, <2>1, <2>2 DEF ClearLucene, pointer, Kinds, Places
  <2>3. CASE CopyLucene(p)
    BY <1>2, <2>1, <2>3 DEF CopyLucene, pointer, Kinds, Places
  <2> QED
    BY <1>7, <2>2, <2>3
<1>8. ASSUME NEW p \in Procs, OpenTmp(p) PROVE Kinds'
  BY <1>2, <1>8, Names DEF OpenTmp, dirs, Kinds, Places
<1>9. ASSUME NEW p \in Procs, WriteTmp(p) PROVE Kinds'
  <2>1. version[p] \in Versions
    BY <1>9 DEF WriteTmp, Kinds
  <2>2. \A file : Written(p, file) \subseteq Versions \union NoName
    BY <2>1, Names DEF Written
  <2>3. tmp' \in Versions \union NoName /\ current' \in Versions \union NoName
    BY <1>9, <2>2 DEF WriteTmp, Kinds
  <2> QED
    BY <1>2, <1>9, <2>3 DEF WriteTmp, dirs, Kinds, Places
<1>10. ASSUME NEW p \in Procs, Replace(p) PROVE Kinds'
  <2>1. /\ fd' \in [Procs -> {"none", "tmp", "current", "gone"}]
        /\ \A q \in Procs : fd'[q] # "none" <=> fd[q] # "none"
    BY <1>10 DEF Replace, Kinds
  <2> QED
    BY <1>2, <1>10, <2>1, Names DEF Replace, dirs, Kinds, Places
<1>11. ASSUME NEW p \in Procs, FindLink(p) PROVE Kinds'
  <2>1. PICK l \in {"unlink", "symlink"} : Goto(p, l)
    BY <1>11 DEF FindLink
  <2> QED
    BY <1>2, <1>11, <2>1 DEF FindLink, dirs, pointer, Kinds, Places
<1>12. ASSUME NEW p \in Procs, Unlink(p) \/ Symlink(p) PROVE Kinds'
  <2>1. PICK l \in {"idle", "symlink"} : Goto(p, l)
    BY <1>12 DEF Unlink, Symlink
  <2>2. link' \in Versions \union {Absent}
    BY <1>12 DEF Unlink, Symlink, Kinds
  <2> QED
    BY <1>2, <1>12, <2>1, <2>2 DEF Unlink, Symlink, dirs, Kinds, Places
<1>13. ASSUME NEW p \in Procs, Stop(p) PROVE Kinds'
  BY <1>2, <1>13 DEF Stop, dirs, Kinds, Places
<1>14. CASE UNCHANGED vars
  BY <1>14 DEF vars, Kinds
<1> QED
  BY <1>3, <1>4, <1>5, <1>6, <1>7, <1>8, <1>9, <1>10, <1>11, <1>12, <1>13, <1>14
     DEF Next, Prepare, Choose, Switch

LEMMA FlagsStep == Flags /\ [Next]_vars => Flags'
BY Zenon DEF Flags, Next, Prepare, Choose, Switch, vars, history, BeginStaging, Copy,
     CopyIndex, CopyRest, WriteManifest, Publish, Rollback, BeginLucene, ClearLucene,
     CopyLucene, OpenTmp, WriteTmp, Replace, FindLink, Unlink, Symlink, Stop

(***************************************************************************)
(* The directories                                                         *)
(***************************************************************************)
LEMMA DoneIs ==
  /\ Done("copy rest") = {"index"} /\ Done("copy manifest") = {"index", "rest"}
  /\ \A l \in Places : Done(l) \subseteq {"index", "rest"}
  /\ \A l \in Places \ {"copy rest", "copy manifest"} : Done(l) = {}
  /\ Assets = {"index", "rest"}
BY DEF Done, Assets, Places

\* A process that leaves prepare, or enters it, has nothing to show for it.
LEMMA StagedKept ==
  ASSUME Kinds, Staged, ManifestMeansComplete, staging' = staging,
         \A v \in Versions : /\ final[v] \ {"lucene"} \subseteq final'[v]
                             /\ "manifest" \in final'[v] => "manifest" \in final[v],
         \A q \in Procs : \/ pc'[q] \in Places \ {"copy rest", "copy manifest"}
                          \/ pc'[q] = pc[q] /\ version'[q] = version[q]
  PROVE  Staged' /\ ManifestMeansComplete'
<1>1. ASSUME NEW v \in Versions, Open(v)' PROVE Open(v)
  BY <1>1 DEF Open
<1> QED
  BY <1>1, DoneIs DEF Staged, ManifestMeansComplete

LEMMA CopyKeepsStaged ==
  ASSUME Kinds, Staged, ManifestMeansComplete, NEW p \in Procs,
         CopyIndex(p) \/ CopyRest(p) \/ WriteManifest(p)
  PROVE  Staged' /\ ManifestMeansComplete'
<1>0. UNCHANGED final
  BY DEF CopyIndex, CopyRest, WriteManifest, Copy
<1>2. ManifestMeansComplete'
  BY <1>0 DEF ManifestMeansComplete
<1> DEFINE v == version[p]
<1>1. v \in Versions /\ (Open(v) => Done(pc[p]) \subseteq staging[v])
  BY DEF CopyIndex, CopyRest, WriteManifest, Kinds, Staged
<1>3. ASSUME NEW l \in Places, NEW part \in Parts, Copy(p, part, l),
             Done(l) \subseteq Done(pc[p]) \union {part},
             part = "manifest" => Done(pc[p]) = Assets
      PROVE  Staged'
  <2>1. /\ staging'[v] = staging[v] \union {".", part}
        /\ \A w \in Versions \ {v} : staging'[w] = staging[w]
    BY <1>1, <1>3 DEF Copy, Kinds
  <2>2. /\ pc'[p] = l /\ version'[p] \in {v, Absent}
        /\ \A q \in Procs \ {p} : pc'[q] = pc[q] /\ version'[q] = version[q]
    BY <1>3, Goes DEF Copy
  <2>3. ASSUME Open(v), "manifest" \in staging'[v]
        PROVE  Assets \subseteq staging'[v]
    BY <1>1, <1>3, <2>1, <2>3 DEF Staged
  <2>4. \A w \in Versions : Open(w)' = Open(w)
    BY <1>0 DEF Open
  <2> QED
    BY <1>1, <1>3, <2>1, <2>2, <2>3, <2>4, Names DEF Staged
<1>4. CASE CopyIndex(p)
  <2>1. Copy(p, "index", "copy rest")
    BY <1>4 DEF CopyIndex
  <2>2. "index" \in Parts /\ "copy rest" \in Places /\ "index" # "manifest"
    BY DEF Parts, Assets, Places
  <2>3. Done("copy rest") \subseteq Done(pc[p]) \union {"index"}
    BY DoneIs
  <2> QED
    BY <1>3, <1>2, <2>1, <2>2, <2>3
<1>5. CASE CopyRest(p)
  <2>1. Copy(p, "rest", "copy manifest") /\ Done(pc[p]) = {"index"}
    BY <1>5, DoneIs DEF CopyRest
  <2>2. "rest" \in Parts /\ "copy manifest" \in Places /\ "rest" # "manifest"
    BY DEF Parts, Assets, Places
  <2>3. Done("copy manifest") \subseteq Done(pc[p]) \union {"rest"}
    BY <2>1, DoneIs
  <2> QED
    BY <1>3, <1>2, <2>1, <2>2, <2>3
<1>6. CASE WriteManifest(p)
  <2>1. Copy(p, "manifest", "idle") /\ Done(pc[p]) = Assets
    BY <1>6, DoneIs DEF WriteManifest
  <2>2. "manifest" \in Parts /\ "idle" \in Places
    BY DEF Parts, Places
  <2>3. Done("idle") = {}
    BY <2>2, DoneIs
  <2> QED
    BY <1>3, <1>2, <2>1, <2>2, <2>3
<1> QED
  BY <1>4, <1>5, <1>6

LEMMA DirsStep == Kinds /\ Rooted /\ Staged /\ ManifestMeansComplete /\ [Next]_vars
                    => Staged' /\ ManifestMeansComplete'
<1> SUFFICES ASSUME Kinds, Rooted, Staged, ManifestMeansComplete, [Next]_vars
             PROVE  Staged' /\ ManifestMeansComplete'
  OBVIOUS
<1>1. ASSUME NEW p \in Procs, NEW v \in Versions, BeginStaging(p, v)
      PROVE  Staged' /\ ManifestMeansComplete'
  <2>1. /\ UNCHANGED final /\ staging[v] = {} /\ staging'[v] = {"."}
        /\ \A w \in Versions \ {v} : staging'[w] = staging[w]
    BY <1>1 DEF BeginStaging, Kinds
  <2>2. /\ pc'[p] = "copy index"
        /\ \A q \in Procs \ {p} : pc'[q] = pc[q] /\ version'[q] = version[q]
    BY <1>1, Starting, Begins DEF Places
  <2> QED
    BY <2>1, <2>2, DoneIs DEF Staged, Open, ManifestMeansComplete, Places
<1>2. ASSUME NEW p \in Procs, NEW v \in Versions, Publish(p, v)
      PROVE  Staged' /\ ManifestMeansComplete'
  <2>1. /\ final[v] \subseteq {"."} /\ final'[v] = staging[v] /\ staging'[v] = {}
        /\ \A w \in Versions \ {v} : staging'[w] = staging[w] /\ final'[w] = final[w]
    BY <1>2 DEF Publish, Kinds
  <2>2. PICK l \in {"open", "idle"} : Begin(p, v, l)
    BY <1>2, Starting
  <2>3. /\ pc'[p] \in {"open", "idle"}
        /\ \A q \in Procs \ {p} : pc'[q] = pc[q] /\ version'[q] = version[q]
    BY <2>2, Begins DEF Places
  <2>4. \A q \in Procs : pc[q] \in Places
    BY DEF Kinds
  <2>5. ManifestMeansComplete'
    BY <2>1 DEF Staged, Open, ManifestMeansComplete
  <2>6. Done(pc'[p]) = {}
    BY <2>3, DoneIs DEF Places
  <2>7. ASSUME NEW q \in Procs \ {p}, version[q] = v, staging[v] \subseteq {".", "lucene"}
        PROVE  Done(pc[q]) = {}
    <3>1. Done(pc[q]) \subseteq {".", "lucene"}
      BY <2>1, <2>7 DEF Staged, Open
    <3>2. Done(pc[q]) \subseteq {"index", "rest"}
      BY <2>4, DoneIs
    <3> QED
      BY <3>1, <3>2
  <2>8. ASSUME NEW w \in Versions, final'[w] \subseteq {".", "lucene"}
        PROVE  /\ "manifest" \in staging'[w] => Assets \subseteq staging'[w]
               /\ \A q \in Procs : version'[q] = w => Done(pc'[q]) \subseteq staging'[w]
    <3>1. CASE w = v
      BY <2>1, <2>3, <2>6, <2>7, <2>8, <3>1
    <3>2. CASE w # v
      BY <2>1, <2>3, <2>6, <2>8, <3>2 DEF Staged, Open
    <3> QED
      BY <3>1, <3>2
  <2>9. Staged'
    BY <2>8 DEF Staged, Open
  <2> QED
    BY <2>5, <2>9
<1>3. ASSUME NEW p \in Procs, NEW v \in Versions, Rollback(p, v) \/ BeginLucene(p, v)
      PROVE  Staged' /\ ManifestMeansComplete'
  <2>1. /\ UNCHANGED staging
        /\ final' = final \/ final' = [final EXCEPT ![v] = @ \union {"."}]
    BY <1>3 DEF Rollback, BeginLucene, dirs
  <2>2. \A w \in Versions : /\ final[w] \subseteq final'[w]
                            /\ "manifest" \in final'[w] => "manifest" \in final[w]
    BY <2>1 DEF Kinds
  <2>3. PICK l \in {"open", "clear lucene"} : Begin(p, v, l)
    BY <1>3, Starting
  <2>4. /\ pc'[p] \in {"open", "clear lucene"}
        /\ \A q \in Procs \ {p} : pc'[q] = pc[q] /\ version'[q] = version[q]
    BY <2>3, Begins DEF Places
  <2> QED
    BY <2>1, <2>2, <2>4, StagedKept DEF Places
<1>4. ASSUME NEW p \in Procs, ClearLucene(p) \/ CopyLucene(p)
      PROVE  Staged' /\ ManifestMeansComplete'
  <2>1. \A w \in Versions : /\ final[w] \ {"lucene"} \subseteq final'[w]
                            /\ "manifest" \in final'[w] => "manifest" \in final[w]
    <3>1. \/ final' = [final EXCEPT ![version[p]] = @ \ {"lucene"}]
          \/ final' = [final EXCEPT ![version[p]] = @ \union {".", "lucene"}]
      BY <1>4, Zenon DEF ClearLucene, CopyLucene
    <3> QED
      BY <3>1 DEF Kinds
  <2>2. /\ pc'[p] \in {"copy lucene", "open"} /\ UNCHANGED staging
        /\ \A q \in Procs \ {p} : pc'[q] = pc[q] /\ version'[q] = version[q]
    <3>1. CASE ClearLucene(p)
      BY <3>1, Goes DEF ClearLucene, Places
    <3>2. CASE CopyLucene(p)
      BY <3>2, Goes DEF CopyLucene, Places
    <3> QED
      BY <1>4, <3>1, <3>2
  <2> QED
    BY <2>1, <2>2, StagedKept DEF Places
<1>5. ASSUME NEW p \in Procs, Switch(p) \/ Stop(p) PROVE Staged' /\ ManifestMeansComplete'
  <2>1. PICK l \in Places \ {"copy rest", "copy manifest"} : Goto(p, l) /\ UNCHANGED dirs
    BY <1>5 DEF Switch, Stop, OpenTmp, WriteTmp, Replace, FindLink, Unlink, Symlink, Places
  <2>2. /\ pc'[p] = l
        /\ \A q \in Procs \ {p} : pc'[q] = pc[q] /\ version'[q] = version[q]
    BY <2>1, Goes
  <2> QED
    BY <2>1, <2>2, StagedKept DEF dirs
<1>6. CASE UNCHANGED vars
  BY <1>6, StagedKept DEF vars
<1> QED
  BY <1>1, <1>2, <1>3, <1>4, <1>5, <1>6, CopyKeepsStaged DEF Next, Prepare, Choose

(***************************************************************************)
(* The versions CURRENT may name                                           *)
(***************************************************************************)
LEMMA NamedBy ==
  ASSUME Kinds, NEW p \in Procs, NEW X,
         \A q \in Procs \ {p} : pc'[q] = pc[q] /\ version'[q] = version[q],
         current' \in {current, tmp} \union NoName \union X,
         tmp' \in {current, tmp} \union NoName \union X,
         p \in Switching' => version'[p] \in X
  PROVE  Named' \subseteq Named \union X
<1>1. \A q \in Procs \ {p} : q \in Switching' <=> q \in Switching
  BY PlacesOf DEF Switching, Writing, Linking
<1>2. Versions \intersect NoName = {}
  BY NamesAssumption
<1> QED
  BY <1>1, <1>2, PlacesOf DEF Named, Switching, Writing, Linking

\* Only a choice adds a name.
LEMMA ChosenNames ==
  ASSUME Kinds, NEW p \in Procs
  PROVE  /\ \A v \in Versions : Publish(p, v) \/ Rollback(p, v)
                                  => Named' \subseteq Named \union {v}
         /\ CopyLucene(p) => Named' \subseteq Named \union {version[p]}
<1>1. ASSUME NEW v \in Versions, Publish(p, v) \/ Rollback(p, v)
      PROVE  Named' \subseteq Named \union {v}
  <2>1. PICK l \in {"open", "idle"} : Begin(p, v, l)
    BY <1>1, Starting
  <2>2. /\ pc'[p] = l /\ version'[p] = (IF l = "idle" THEN Absent ELSE v)
        /\ \A q \in Procs \ {p} : pc'[q] = pc[q] /\ version'[q] = version[q]
    BY <2>1, Begins DEF Places
  <2>3. UNCHANGED <<current, tmp>>
    BY <1>1 DEF Publish, Rollback, pointer
  <2>4. p \in Switching' => version'[p] = v
    BY <2>2 DEF Switching, Writing, Linking
  <2> QED
    BY <2>2, <2>3, <2>4, NamedBy
<1>2. ASSUME CopyLucene(p) PROVE Named' \subseteq Named \union {version[p]}
  <2>1. /\ version'[p] = version[p]
        /\ \A q \in Procs \ {p} : pc'[q] = pc[q] /\ version'[q] = version[q]
    BY <1>2, Goes DEF CopyLucene, Places
  <2>2. UNCHANGED <<current, tmp>>
    BY <1>2 DEF CopyLucene, pointer
  <2> QED
    BY <2>1, <2>2, NamedBy
<1> QED
  BY <1>1, <1>2

LEMMA OtherNames ==
  ASSUME Kinds, NEW p \in Procs
  PROVE  /\ \A v \in Versions : BeginStaging(p, v) \/ BeginLucene(p, v)
                                  => Named' \subseteq Named
         /\ CopyIndex(p) \/ CopyRest(p) \/ WriteManifest(p) \/ ClearLucene(p) \/ Stop(p)
              => Named' \subseteq Named
         /\ Switch(p) => Named' \subseteq Named
<1>1. ASSUME NEW v \in Versions, BeginStaging(p, v) \/ BeginLucene(p, v)
      PROVE  Named' \subseteq Named
  <2>1. PICK l \in {"copy index", "clear lucene"} : Begin(p, v, l)
    BY <1>1, Starting
  <2>2. /\ pc'[p] = l
        /\ \A q \in Procs \ {p} : pc'[q] = pc[q] /\ version'[q] = version[q]
    BY <2>1, Begins DEF Places
  <2>3. UNCHANGED <<current, tmp>> /\ p \notin Switching'
    BY <1>1, <2>2 DEF BeginStaging, BeginLucene, pointer, Switching, Writing, Linking
  <2>4. Named' \subseteq Named \union {}
    BY <2>2, <2>3, NamedBy
  <2> QED
    BY <2>4
<1>2. ASSUME CopyIndex(p) \/ CopyRest(p) \/ WriteManifest(p) \/ ClearLucene(p) \/ Stop(p)
      PROVE  Named' \subseteq Named
  <2>1. PICK l \in {"copy rest", "copy manifest", "copy lucene", "idle"} : Goto(p, l)
    BY <1>2 DEF CopyIndex, CopyRest, WriteManifest, ClearLucene, Stop, Copy
  <2>2. /\ pc'[p] = l
        /\ \A q \in Procs \ {p} : pc'[q] = pc[q] /\ version'[q] = version[q]
    BY <2>1, Goes DEF Places
  <2>3. UNCHANGED <<current, tmp>> /\ p \notin Switching'
    BY <1>2, <2>2 DEF CopyIndex, CopyRest, WriteManifest, ClearLucene, Stop, Copy,
                      pointer, Switching, Writing, Linking
  <2>4. Named' \subseteq Named \union {}
    BY <2>2, <2>3, NamedBy
  <2> QED
    BY <2>4
<1>3. ASSUME Switch(p) PROVE Named' \subseteq Named
  <2>1. p \in Switching /\ version[p] \in Named
    BY <1>3, PlacesOf DEF Switch, OpenTmp, WriteTmp, Replace, FindLink, Unlink, Symlink,
                          Kinds, Named
  <2>2. PICK l \in Places : Goto(p, l)
    BY <1>3 DEF Switch, OpenTmp, WriteTmp, Replace, FindLink, Unlink, Symlink, Places
  <2>3. /\ pc'[p] = l /\ version'[p] = (IF l = "idle" THEN Absent ELSE version[p])
        /\ \A q \in Procs \ {p} : pc'[q] = pc[q] /\ version'[q] = version[q]
    BY <2>2, Goes
  <2>4. p \in Switching' => version'[p] \in {version[p]}
    BY <2>3 DEF Switching, Writing, Linking
  <2>5. \A file : Written(p, file) \subseteq {version[p]} \union NoName
    BY DEF Written, NoName
  <2>6. /\ current' \in {current, tmp} \union NoName \union {version[p]}
        /\ tmp' \in {current, tmp} \union NoName \union {version[p]}
    BY <1>3, <2>5 DEF Switch, OpenTmp, WriteTmp, Replace, FindLink, Unlink, Symlink,
                      NoName, pointer
  <2>7. Named' \subseteq Named \union {version[p]}
    BY <2>3, <2>4, <2>6, NamedBy
  <2> QED
    BY <2>1, <2>7
<1> QED
  BY <1>1, <1>2, <1>3

\* What the history says of a step.
LEMMA History ==
  ASSUME Flags, [Next]_vars
  PROVE  /\ ~bare' => /\ ~bare
                      /\ \A p \in Procs, v \in Versions :
                           Rollback(p, v) => "manifest" \in final[v]
                      /\ \A p \in Procs : CopyLucene(p) => "manifest" \in final[version[p]]
         /\ ~overlapped' => ~overlapped /\ \A p \in Procs : OpenTmp(p) => Writing = {}
         /\ ~cut' => /\ ~cut
                     /\ \A p \in Procs, v \in Versions :
                          Publish(p, v) \/ Rollback(p, v) => Switching = {}
                     /\ \A p \in Procs : CopyLucene(p) => Switching = {}
                     /\ \A p \in Procs : Stop(p) => p \notin Switching
         /\ ~overlapped /\ (\A p \in Procs : OpenTmp(p) => Writing = {}) => ~overlapped'
<1>1. ASSUME NEW p \in Procs, NEW v \in Versions, Rollback(p, v)
      PROVE  /\ UNCHANGED overlapped
             /\ ~bare' => ~bare /\ "manifest" \in final[v]
             /\ ~cut' => ~cut /\ Switching = {}
  BY <1>1, Zenon DEF Rollback
<1>2. ASSUME NEW p \in Procs, CopyLucene(p)
      PROVE  /\ UNCHANGED overlapped
             /\ ~bare' => ~bare /\ "manifest" \in final[version[p]]
             /\ ~cut' => ~cut /\ Switching = {}
  BY <1>2, Zenon DEF CopyLucene
<1>3. ASSUME NEW p \in Procs, NEW v \in Versions, Publish(p, v)
      PROVE  UNCHANGED <<overlapped, bare>> /\ (~cut' => ~cut /\ Switching = {})
  BY <1>3, Zenon DEF Publish
<1>4. ASSUME NEW p \in Procs, OpenTmp(p)
      PROVE  /\ UNCHANGED <<cut, bare>>
             /\ ~overlapped' <=> ~overlapped /\ Writing = {}
  BY <1>4, Zenon DEF OpenTmp
<1>5. ASSUME NEW p \in Procs, Stop(p)
      PROVE  UNCHANGED <<overlapped, bare>> /\ (~cut' => ~cut /\ p \notin Switching)
  BY <1>5, Zenon DEF Stop
<1>6. ASSUME NEW p \in Procs, NEW v \in Versions, BeginStaging(p, v) \/ BeginLucene(p, v)
      PROVE  UNCHANGED history
  BY <1>6, Zenon DEF BeginStaging, BeginLucene
<1>12. ASSUME NEW p \in Procs,
              CopyIndex(p) \/ CopyRest(p) \/ WriteManifest(p) \/ ClearLucene(p)
       PROVE  UNCHANGED history
  BY <1>12, Zenon DEF CopyIndex, CopyRest, WriteManifest, ClearLucene, Copy
<1>13. ASSUME NEW p \in Procs, WriteTmp(p) \/ Replace(p) PROVE UNCHANGED history
  BY <1>13, Zenon DEF WriteTmp, Replace
<1>14. ASSUME NEW p \in Procs, FindLink(p) \/ Unlink(p) \/ Symlink(p)
       PROVE  UNCHANGED history
  BY <1>14, Zenon DEF FindLink, Unlink, Symlink
<1>7. ASSUME UNCHANGED vars PROVE UNCHANGED history
  BY <1>7, Zenon DEF vars, history
<1>8. ASSUME UNCHANGED history PROVE UNCHANGED <<overlapped, cut, bare>>
  BY <1>8, Zenon DEF history
<1>9. ~bare' => ~bare
  BY <1>1, <1>2, <1>3, <1>4, <1>5, <1>6, <1>7, <1>8, <1>12, <1>13, <1>14, Zenon
     DEF Next, Prepare, Choose, Switch
<1>10. ~cut' => ~cut
  BY <1>1, <1>2, <1>3, <1>4, <1>5, <1>6, <1>7, <1>8, <1>12, <1>13, <1>14, Zenon
     DEF Next, Prepare, Choose, Switch
<1>11. UNCHANGED overlapped \/ \E p \in Procs : OpenTmp(p)
  BY <1>1, <1>2, <1>3, <1>5, <1>6, <1>7, <1>8, <1>12, <1>13, <1>14, Zenon
     DEF Next, Prepare, Choose, Switch
<1>15. ~overlapped' => ~overlapped
  BY <1>4, <1>11, Zenon
<1>16. ~overlapped /\ (\A p \in Procs : OpenTmp(p) => Writing = {}) => ~overlapped'
  BY <1>4, <1>11, Zenon
<1> QED
  BY <1>1, <1>2, <1>3, <1>4, <1>5, <1>9, <1>10, <1>15, <1>16, Zenon

LEMMA RootedStep == Kinds /\ Rooted /\ [Next]_vars => Rooted'
<1> SUFFICES ASSUME Kinds, Rooted, [Next]_vars PROVE Rooted'
  OBVIOUS
\* One directory changes, as far as this matters.
<1>1. ASSUME NEW v \in Versions,
             \A w \in Versions \ {v} : final'[w] = final[w] /\ staging'[w] = staging[w],
             final'[v] # {} => "." \in final'[v],
             staging'[v] # {} => "." \in staging'[v],
             "lucene" \notin staging'[v]
      PROVE  Rooted'
  BY <1>1 DEF Rooted
<1>2. ASSUME NEW p \in Procs, NEW v \in Versions, BeginStaging(p, v) PROVE Rooted'
  BY <1>1, <1>2 DEF BeginStaging, Kinds, Rooted
<1>3. ASSUME NEW p \in Procs, NEW v \in Versions, Publish(p, v) PROVE Rooted'
  BY <1>1, <1>3 DEF Publish, Kinds, Rooted
<1>7. ASSUME NEW p \in Procs, NEW v \in Versions, BeginLucene(p, v) PROVE Rooted'
  BY <1>1, <1>7 DEF BeginLucene, Kinds, Rooted
<1>8. ASSUME NEW p \in Procs, CopyIndex(p) \/ CopyRest(p) \/ WriteManifest(p) PROVE Rooted'
  <2>1. PICK part \in {"index", "rest", "manifest"} :
               /\ final' = final
               /\ staging' = [staging EXCEPT ![version[p]] = @ \union {".", part}]
    BY <1>8 DEF CopyIndex, CopyRest, WriteManifest, Copy
  <2>2. version[p] \in Versions
    BY <1>8 DEF CopyIndex, CopyRest, WriteManifest, Kinds
  <2> QED
    BY <1>1, <2>1, <2>2 DEF Kinds, Rooted
<1>9. ASSUME NEW p \in Procs, ClearLucene(p) PROVE Rooted'
  <2>1. version[p] \in Versions
    BY <1>9 DEF ClearLucene, Kinds
  <2> QED
    BY <1>1, <1>9, <2>1 DEF ClearLucene, Kinds, Rooted
<1>10. ASSUME NEW p \in Procs, CopyLucene(p) PROVE Rooted'
  <2>1. version[p] \in Versions
    BY <1>10 DEF CopyLucene, Kinds
  <2>2. /\ final' = [final EXCEPT ![version[p]] = @ \union {".", "lucene"}]
        /\ staging' = staging
    BY <1>10, Zenon DEF CopyLucene
  <2> QED
    BY <1>1, <2>1, <2>2 DEF Kinds, Rooted
<1>4. ASSUME UNCHANGED dirs PROVE Rooted'
  BY <1>4 DEF dirs, Rooted
<1>5. ASSUME NEW p \in Procs, Switch(p) \/ Stop(p) PROVE UNCHANGED dirs
  BY <1>5 DEF Switch, OpenTmp, WriteTmp, Replace, FindLink, Unlink, Symlink, Stop, dirs
<1>11. ASSUME NEW p \in Procs, NEW v \in Versions, Rollback(p, v) PROVE UNCHANGED dirs
  BY <1>11 DEF Rollback
<1>6. CASE UNCHANGED vars
  BY <1>4, <1>6 DEF vars, dirs
<1> QED
  BY <1>2, <1>3, <1>4, <1>5, <1>6, <1>7, <1>8, <1>9, <1>10, <1>11 DEF Next, Prepare, Choose

LEMMA ExistingStep == Kinds /\ Rooted /\ Existing /\ [Next]_vars => Existing'
<1> SUFFICES ASSUME Kinds, Rooted, Existing, [Next]_vars PROVE Existing'
  OBVIOUS
<1>1. ASSUME NEW p \in Procs, NEW v \in Versions, Publish(p, v) \/ Rollback(p, v)
      PROVE  Existing'
  <2>1. /\ final'[v] # {}
        /\ \A w \in Versions \ {v} : final'[w] = final[w]
    BY <1>1 DEF Publish, Rollback, dirs, Kinds
  <2> QED
    BY <1>1, <2>1, ChosenNames DEF Existing, Named
<1>2. ASSUME NEW p \in Procs, CopyLucene(p) PROVE Existing'
  <2>1. version[p] \in Versions
    BY <1>2 DEF CopyLucene, Kinds
  <2>2. /\ final'[version[p]] # {}
        /\ \A w \in Versions \ {version[p]} : final'[w] = final[w]
    BY <1>2, <2>1 DEF CopyLucene, Kinds
  <2> QED
    BY <1>2, <2>2, ChosenNames DEF Existing, Named
<1>3. ASSUME Named' \subseteq Named,
             \A v \in Versions : final[v] \ {"lucene"} \subseteq final'[v]
      PROVE  Existing'
  BY <1>3 DEF Existing, Rooted, Named
<1>4. ASSUME NEW p \in Procs, NEW v \in Versions, BeginStaging(p, v) \/ BeginLucene(p, v)
      PROVE  Existing'
  <2>1. \A w \in Versions : final[w] \subseteq final'[w]
    BY <1>4 DEF BeginStaging, BeginLucene, Kinds
  <2> QED
    BY <1>3, <1>4, <2>1, OtherNames
<1>5. ASSUME NEW p \in Procs,
             CopyIndex(p) \/ CopyRest(p) \/ WriteManifest(p) \/ Stop(p) \/ Switch(p)
      PROVE  Existing'
  <2>1. UNCHANGED final
    BY <1>5 DEF CopyIndex, CopyRest, WriteManifest, Copy, Stop, dirs,
                Switch, OpenTmp, WriteTmp, Replace, FindLink, Unlink, Symlink
  <2> QED
    BY <1>3, <1>5, <2>1, OtherNames
<1>7. ASSUME NEW p \in Procs, ClearLucene(p) PROVE Existing'
  <2>1. \A w \in Versions : final[w] \ {"lucene"} \subseteq final'[w]
    BY <1>7 DEF ClearLucene, Kinds
  <2> QED
    BY <1>3, <1>7, <2>1, OtherNames
<1>6. CASE UNCHANGED vars
  BY <1>6 DEF vars, Existing, Named, Switching, Writing, Linking
<1> QED
  BY <1>1, <1>2, <1>4, <1>5, <1>6, <1>7 DEF Next, Prepare, Choose

\* Choosing committed versions only keeps CURRENT on committed versions.
LEMMA CommittedStep ==
  ASSUME Kinds, Committed, [Next]_vars,
         \A p \in Procs, v \in Versions : Rollback(p, v) => "manifest" \in final[v],
         \A p \in Procs : CopyLucene(p) => "manifest" \in final[version[p]]
  PROVE  Committed'
<1>1. ASSUME NEW p \in Procs, NEW v \in Versions, Publish(p, v) PROVE Committed'
  <2>1. /\ final[v] \subseteq {"."} /\ final'[v] = staging[v]
        /\ \A w \in Versions \ {v} : final'[w] = final[w]
    BY <1>1 DEF Publish, Kinds
  <2>2. v \notin Named
    BY <2>1 DEF Committed
  <2>3. CASE "manifest" \in staging[v]
    BY <1>1, <2>1, <2>3, ChosenNames DEF Committed, Named
  <2>4. CASE "manifest" \notin staging[v]
    <3>1. Begin(p, v, "idle") /\ UNCHANGED <<current, tmp>>
      BY <1>1, <2>4 DEF Publish, pointer
    <3>2. /\ pc'[p] = "idle"
          /\ \A q \in Procs \ {p} : pc'[q] = pc[q] /\ version'[q] = version[q]
      BY <3>1, Begins DEF Places
    <3>3. p \notin Switching'
      BY <3>2 DEF Switching, Writing, Linking
    <3>4. Named' \subseteq Named \union {}
      BY <3>1, <3>2, <3>3, NamedBy
    <3> QED
      BY <2>1, <2>2, <3>4 DEF Committed, Named
  <2> QED
    BY <2>3, <2>4
<1>2. ASSUME NEW p \in Procs, NEW v \in Versions, Rollback(p, v) PROVE Committed'
  BY <1>2, ChosenNames DEF Rollback, dirs, Committed, Named
<1>3. ASSUME NEW p \in Procs, CopyLucene(p) PROVE Committed'
  <2>1. \A w \in Versions : final[w] \subseteq final'[w]
    BY <1>3 DEF CopyLucene, Kinds
  <2> QED
    BY <1>3, <2>1, ChosenNames DEF Committed, Named
<1>4. ASSUME Named' \subseteq Named,
             \A v \in Versions : final[v] \ {"lucene"} \subseteq final'[v]
      PROVE  Committed'
  BY <1>4 DEF Committed, Named
<1>5. ASSUME NEW p \in Procs, NEW v \in Versions, BeginStaging(p, v) \/ BeginLucene(p, v)
      PROVE  Committed'
  <2>1. \A w \in Versions : final[w] \subseteq final'[w]
    BY <1>5 DEF BeginStaging, BeginLucene, Kinds
  <2> QED
    BY <1>4, <1>5, <2>1, OtherNames
<1>6. ASSUME NEW p \in Procs,
             CopyIndex(p) \/ CopyRest(p) \/ WriteManifest(p) \/ Stop(p) \/ Switch(p)
      PROVE  Committed'
  <2>1. UNCHANGED final
    BY <1>6 DEF CopyIndex, CopyRest, WriteManifest, Copy, Stop, dirs,
                Switch, OpenTmp, WriteTmp, Replace, FindLink, Unlink, Symlink
  <2> QED
    BY <1>4, <1>6, <2>1, OtherNames
<1>8. ASSUME NEW p \in Procs, ClearLucene(p) PROVE Committed'
  <2>1. \A w \in Versions : final[w] \ {"lucene"} \subseteq final'[w]
    BY <1>8 DEF ClearLucene, Kinds
  <2> QED
    BY <1>4, <1>8, <2>1, OtherNames
<1>7. CASE UNCHANGED vars
  BY <1>7 DEF vars, Committed, Named, Switching, Writing, Linking
<1> QED
  BY <1>1, <1>2, <1>3, <1>5, <1>6, <1>7, <1>8 DEF Next, Prepare, Choose

(***************************************************************************)
(* The switch of CURRENT and of the link                                   *)
(***************************************************************************)
\* Processes that open CURRENT.tmp one at a time have it for themselves.
LEMMA AloneStep ==
  ASSUME Kinds, AloneOnTmp, [Next]_vars,
         \A p \in Procs : OpenTmp(p) => Writing = {}
  PROVE  AloneOnTmp'
<1>1. ASSUME UNCHANGED <<tmp, current>>,
             \A q \in Procs : \/ pc'[q] \notin {"write", "replace"}
                              \/ /\ pc'[q] = pc[q] /\ version'[q] = version[q]
                                 /\ fd'[q] = fd[q]
      PROVE  AloneOnTmp'
  <2>1. Writing' \subseteq Writing
    BY <1>1 DEF Writing
  <2> QED
    BY <1>1, <2>1 DEF AloneOnTmp
<1>2. ASSUME NEW p \in Procs, NEW v \in Versions,
             BeginStaging(p, v) \/ Publish(p, v) \/ Rollback(p, v) \/ BeginLucene(p, v)
      PROVE  AloneOnTmp'
  <2>1. PICK l \in Places \ {"write", "replace"} : Begin(p, v, l)
    BY <1>2, Starting DEF Places
  <2>2. /\ pc'[p] = l
        /\ \A q \in Procs \ {p} : pc'[q] = pc[q] /\ version'[q] = version[q]
    BY <2>1, Begins
  <2>3. UNCHANGED <<tmp, current, fd>>
    BY <1>2 DEF BeginStaging, Publish, Rollback, BeginLucene, pointer
  <2> QED
    BY <1>1, <2>1, <2>2, <2>3
<1>3. ASSUME NEW p \in Procs,
             \/ CopyIndex(p) \/ CopyRest(p) \/ WriteManifest(p)
             \/ ClearLucene(p) \/ CopyLucene(p)
             \/ FindLink(p) \/ Unlink(p) \/ Symlink(p) \/ Stop(p)
      PROVE  AloneOnTmp'
  <2>1. PICK l \in Places \ {"write", "replace"} : Goto(p, l)
    BY <1>3 DEF CopyIndex, CopyRest, WriteManifest, ClearLucene, CopyLucene, FindLink,
                Unlink, Symlink, Stop, Copy, Places
  <2>2. /\ pc'[p] = l
        /\ \A q \in Procs \ {p} : pc'[q] = pc[q] /\ version'[q] = version[q]
    BY <2>1, Goes
  <2>3. UNCHANGED <<tmp, current>> /\ \A q \in Procs \ {p} : fd'[q] = fd[q]
    BY <1>3 DEF CopyIndex, CopyRest, WriteManifest, ClearLucene, CopyLucene, FindLink,
                Unlink, Symlink, Stop, Copy, pointer, Kinds
  <2> QED
    BY <1>1, <2>1, <2>2, <2>3
<1>4. ASSUME NEW p \in Procs, OpenTmp(p) PROVE AloneOnTmp'
  <2>1. Writing = {}
    BY <1>4
  <2>2. /\ pc'[p] = "write"
        /\ \A q \in Procs \ {p} : pc'[q] = pc[q]
    BY <1>4, Goes DEF OpenTmp, Places
  <2>3. fd'[p] = "tmp" /\ tmp' = Empty /\ UNCHANGED current
    BY <1>4 DEF OpenTmp, Kinds
  <2>4. \A q \in Procs \ {p} : pc'[q] \notin {"write", "replace"}
    BY <2>1, <2>2 DEF Writing
  <2> QED
    BY <2>2, <2>3, <2>4 DEF AloneOnTmp, Writing
<1>5. ASSUME NEW p \in Procs, WriteTmp(p) PROVE AloneOnTmp'
  <2>1. p \in Writing /\ fd[p] = "tmp" /\ tmp = Empty
    BY <1>5 DEF WriteTmp, Writing, AloneOnTmp
  <2>2. tmp' = version[p] /\ UNCHANGED current
    BY <1>5, <2>1 DEF WriteTmp, Written
  <2>3. /\ pc'[p] = "replace" /\ version'[p] = version[p]
        /\ \A q \in Procs \ {p} : pc'[q] = pc[q]
    BY <1>5, Goes DEF WriteTmp, Places
  <2>4. \A q \in Procs \ {p} : pc'[q] \notin {"write", "replace"}
    BY <2>1, <2>3 DEF Writing, AloneOnTmp
  <2> QED
    BY <2>2, <2>3, <2>4 DEF AloneOnTmp, Writing
<1>6. ASSUME NEW p \in Procs, Replace(p) PROVE AloneOnTmp'
  <2>1. p \in Writing /\ tmp = version[p] /\ version[p] \in Versions
    BY <1>6 DEF Replace, Writing, AloneOnTmp, Kinds
  <2>2. /\ pc'[p] = "link"
        /\ \A q \in Procs \ {p} : pc'[q] = pc[q]
    BY <1>6, Goes DEF Replace, Places
  <2>3. \A q \in Procs : pc'[q] \notin {"write", "replace"}
    BY <2>1, <2>2 DEF Writing, AloneOnTmp
  <2>4. current' \in Versions
    BY <1>6, <2>1 DEF Replace
  <2> QED
    BY <2>3, <2>4 DEF AloneOnTmp, Writing
<1>7. CASE UNCHANGED vars
  BY <1>1, <1>7 DEF vars
<1> QED
  BY <1>2, <1>3, <1>4, <1>5, <1>6, <1>7 DEF Next, Prepare, Choose, Switch

\* Switches that neither overlap nor stop half-way leave the link at CURRENT.
LEMMA InStepStep ==
  ASSUME Kinds, AloneOnTmp, InStep, [Next]_vars,
         \A p \in Procs, v \in Versions : Publish(p, v) \/ Rollback(p, v) => Switching = {},
         \A p \in Procs : CopyLucene(p) => Switching = {},
         \A p \in Procs : Stop(p) => p \notin Switching
  PROVE  InStep'
<1> DEFINE Places2 == {"open", "write", "replace", "link", "unlink", "symlink"}
\* Nobody enters, moves in or leaves the switch.
<1>1. ASSUME NEW p \in Procs, p \notin Switching, pc'[p] \in Places \ Places2,
             \A q \in Procs \ {p} : pc'[q] = pc[q] /\ version'[q] = version[q],
             UNCHANGED <<current, link>>
      PROVE  InStep'
  <2>1. pc[p] \notin Places2
    BY <1>1, PlacesOf
  <2>2. Switching' = Switching /\ Linking' = Linking /\ p \notin Linking
    BY <1>1, <2>1 DEF Switching, Writing, Linking
  <2> QED
    BY <1>1, <2>1, <2>2, PlacesOf DEF InStep
\* One process enters when nobody else is there.
<1>2. ASSUME NEW p \in Procs, Switching = {}, pc'[p] \in {"open", "idle"},
             \A q \in Procs \ {p} : pc'[q] = pc[q] /\ version'[q] = version[q],
             UNCHANGED <<current, link>>
      PROVE  InStep'
  <2>1. \A q \in Procs : pc[q] \notin Places2
    BY <1>2, PlacesOf
  <2>2. Switching' \subseteq {p} /\ Linking' = {}
    BY <1>2, <2>1 DEF Switching, Writing, Linking
  <2> QED
    BY <1>2, <2>1, <2>2 DEF InStep
\* The one process that is there moves on, or leaves.
<1>3. ASSUME NEW p \in Procs, p \in Switching,
             \A q \in Procs \ {p} : pc'[q] = pc[q] /\ version'[q] = version[q],
             pc'[p] \in {"link", "unlink", "symlink"} => current' = version'[p],
             pc'[p] = "unlink" => link' # Absent,
             pc'[p] = "symlink" => link' = Absent,
             pc'[p] \notin Places2 => link' = current'
      PROVE  InStep'
  <2>1. \A q \in Procs \ {p} : pc'[q] \notin Places2
    BY <1>3, PlacesOf DEF InStep
  <2>2. Switching' \subseteq {p} /\ Linking' \subseteq {p}
    BY <2>1 DEF Switching, Writing, Linking
  <2>3. Linking' = {} \/ pc'[p] \in {"link", "unlink", "symlink"}
    BY <2>2 DEF Linking
  <2>4. Switching' = {} => pc'[p] \notin Places2
    BY DEF Switching, Writing, Linking
  <2> QED
    BY <1>3, <2>1, <2>2, <2>3, <2>4 DEF InStep
<1>4. ASSUME NEW p \in Procs, NEW v \in Versions, BeginStaging(p, v) \/ BeginLucene(p, v)
      PROVE  InStep'
  <2>1. PICK l \in {"copy index", "clear lucene"} : Begin(p, v, l)
    BY <1>4, Starting
  <2>2. /\ pc[p] = "idle" /\ pc'[p] = l
        /\ \A q \in Procs \ {p} : pc'[q] = pc[q] /\ version'[q] = version[q]
    BY <2>1, Begins DEF Places
  <2>3. UNCHANGED <<current, link>> /\ p \notin Switching
    BY <1>4, <2>2, PlacesOf DEF BeginStaging, BeginLucene, pointer
  <2> QED
    BY <1>1, <2>2, <2>3 DEF Places
<1>5. ASSUME NEW p \in Procs, NEW v \in Versions, Publish(p, v) \/ Rollback(p, v)
      PROVE  InStep'
  <2>1. PICK l \in {"open", "idle"} : Begin(p, v, l)
    BY <1>5, Starting
  <2>2. /\ pc'[p] = l
        /\ \A q \in Procs \ {p} : pc'[q] = pc[q] /\ version'[q] = version[q]
    BY <2>1, Begins DEF Places
  <2>3. UNCHANGED <<current, link>> /\ Switching = {}
    BY <1>5 DEF Publish, Rollback, pointer
  <2> QED
    BY <1>2, <2>2, <2>3
<1>6. ASSUME NEW p \in Procs, CopyLucene(p) PROVE InStep'
  <2>1. /\ pc'[p] = "open"
        /\ \A q \in Procs \ {p} : pc'[q] = pc[q] /\ version'[q] = version[q]
    BY <1>6, Goes DEF CopyLucene, Places
  <2>2. UNCHANGED <<current, link>> /\ Switching = {}
    BY <1>6 DEF CopyLucene, pointer
  <2> QED
    BY <1>2, <2>1, <2>2
<1>7. ASSUME NEW p \in Procs,
             CopyIndex(p) \/ CopyRest(p) \/ WriteManifest(p) \/ ClearLucene(p) \/ Stop(p)
      PROVE  InStep'
  <2>1. PICK l \in {"copy rest", "copy manifest", "copy lucene", "idle"} : Goto(p, l)
    BY <1>7 DEF CopyIndex, CopyRest, WriteManifest, ClearLucene, Stop, Copy
  <2>2. /\ pc'[p] = l
        /\ \A q \in Procs \ {p} : pc'[q] = pc[q] /\ version'[q] = version[q]
    BY <2>1, Goes DEF Places
  <2>3. UNCHANGED <<current, link>>
    BY <1>7 DEF CopyIndex, CopyRest, WriteManifest, ClearLucene, Stop, Copy, pointer
  <2>4. p \notin Switching
    BY <1>7, PlacesOf DEF CopyIndex, CopyRest, WriteManifest, ClearLucene
  <2> QED
    BY <1>1, <2>2, <2>3, <2>4 DEF Places
<1>8. ASSUME NEW p \in Procs, OpenTmp(p) \/ WriteTmp(p) PROVE InStep'
  <2>1. PICK l \in {"write", "replace"} : Goto(p, l)
    BY <1>8 DEF OpenTmp, WriteTmp
  <2>2. /\ pc'[p] = l
        /\ \A q \in Procs \ {p} : pc'[q] = pc[q] /\ version'[q] = version[q]
    BY <2>1, Goes DEF Places
  <2>3. p \in Switching
    BY <1>8, PlacesOf DEF OpenTmp, WriteTmp
  <2> QED
    BY <1>3, <2>2, <2>3
<1>9. ASSUME NEW p \in Procs, Replace(p) PROVE InStep'
  <2>1. /\ pc'[p] = "link" /\ version'[p] = version[p]
        /\ \A q \in Procs \ {p} : pc'[q] = pc[q] /\ version'[q] = version[q]
    BY <1>9, Goes DEF Replace, Places
  <2>2. current' = version[p] /\ p \in Switching
    BY <1>9, PlacesOf DEF Replace, AloneOnTmp
  <2> QED
    BY <1>3, <2>1, <2>2
<1>10. ASSUME NEW p \in Procs, FindLink(p) \/ Unlink(p) \/ Symlink(p) PROVE InStep'
  <2>1. PICK l \in {"unlink", "symlink", "idle"} : Goto(p, l)
    BY <1>10 DEF FindLink, Unlink, Symlink
  <2>2. /\ pc'[p] = l /\ version'[p] = (IF l = "idle" THEN Absent ELSE version[p])
        /\ \A q \in Procs \ {p} : pc'[q] = pc[q] /\ version'[q] = version[q]
    BY <2>1, Goes DEF Places
  <2>3. p \in Switching /\ current = version[p] /\ UNCHANGED current
    BY <1>10, PlacesOf DEF FindLink, Unlink, Symlink, pointer, InStep
  <2>4. /\ l = "unlink" => link' # Absent
        /\ l = "symlink" => link' = Absent
        /\ l = "idle" => link' = version[p]
    <3>1. CASE FindLink(p)
      BY <2>2, <3>1 DEF FindLink, pointer, Goto, Kinds
    <3>2. CASE Unlink(p)
      BY <2>2, <3>2 DEF Unlink, Goto, Kinds, InStep
    <3>3. CASE Symlink(p)
      BY <2>2, <3>3 DEF Symlink, Goto, Kinds, InStep
    <3> QED
      BY <1>10, <3>1, <3>2, <3>3
  <2> QED
    BY <1>3, <2>2, <2>3, <2>4
<1>11. CASE UNCHANGED vars
  BY <1>11 DEF vars, InStep, Switching, Writing, Linking
<1> QED
  BY <1>4, <1>5, <1>6, <1>7, <1>8, <1>9, <1>10, <1>11 DEF Next, Prepare, Choose, Switch

LEMMA PromisesStep ==
  ASSUME Kinds, Flags, Promises, [Next]_vars
  PROVE  Promises'
<1>1. ASSUME ~bare' PROVE Committed'
  <2>1. Committed /\ \A p \in Procs, v \in Versions : Rollback(p, v) => "manifest" \in final[v]
    BY <1>1, History, Zenon DEF Promises
  <2>2. \A p \in Procs : CopyLucene(p) => "manifest" \in final[version[p]]
    BY <1>1, History, Zenon
  <2> QED
    BY <2>1, <2>2, CommittedStep
<1>2. ASSUME ~overlapped' PROVE AloneOnTmp'
  <2>1. AloneOnTmp /\ \A p \in Procs : OpenTmp(p) => Writing = {}
    BY <1>2, History, Zenon DEF Promises
  <2> QED
    BY <2>1, AloneStep
<1>3. ASSUME ~cut' PROVE ~overlapped' /\ InStep'
  <2>1. ~overlapped /\ AloneOnTmp /\ InStep
    BY <1>3, History, Zenon DEF Promises
  <2>2. /\ \A p \in Procs, v \in Versions :
             Publish(p, v) \/ Rollback(p, v) => Switching = {}
        /\ \A p \in Procs : CopyLucene(p) => Switching = {}
        /\ \A p \in Procs : Stop(p) => p \notin Switching
    BY <1>3, History, Zenon
  <2>3. \A p \in Procs : OpenTmp(p) => Writing = {}
    BY <2>1, PlacesOf DEF OpenTmp, InStep
  <2>4. ~overlapped'
    BY <2>1, <2>3, History, Zenon
  <2>5. InStep'
    BY <2>1, <2>2, InStepStep
  <2> QED
    BY <2>4, <2>5
<1> QED
  BY <1>1, <1>2, <1>3, Zenon DEF Promises

LEMMA IInvStep == IInv /\ [Next]_vars => IInv'
<1> SUFFICES ASSUME IInv, [Next]_vars PROVE IInv'
  OBVIOUS
<1>1. Kinds /\ Flags /\ Staged /\ Rooted /\ ManifestMeansComplete /\ Existing /\ Promises
  BY Zenon DEF IInv, Types
<1>2. Kinds' /\ Flags'
  BY <1>1, KindsStep, FlagsStep, Zenon
<1>3. Staged' /\ ManifestMeansComplete'
  BY <1>1, DirsStep, Zenon
<1>4. Rooted' /\ Existing' /\ Promises'
  BY <1>1, RootedStep, ExistingStep, PromisesStep, Zenon
<1> QED
  BY <1>2, <1>3, <1>4, Zenon DEF IInv, Types

\* The invariant that every theorem below reads off.
LEMMA Invariance == Spec => []IInv
BY InitIInv, IInvStep, PTL DEF Spec

(***************************************************************************)
(* Theorems                                                                *)
(***************************************************************************)
\* Every variable keeps its kind of value through any interleaving of the file
\* system's calls: only CURRENT and CURRENT.tmp are ever without a name.
THEOREM LifecycleTypes == Spec => []TypeOK
<1>1. IInv => TypeOK
  <2> SUFFICES ASSUME Kinds, Flags PROVE TypeOK
    BY Zenon DEF IInv, Types
  <2>1. {overlapped, cut, bare} \subseteq BOOLEAN
    BY DEF Flags
  <2> QED
    BY <2>1 DEF Kinds, TypeOK
<1> QED
  BY <1>1, Invariance, PTL

\* The manifest is a commit marker: however many processes stage, publish and copy
\* into a version, a directory that has it has all the assets.
THEOREM ManifestCommits == Spec => []ManifestMeansComplete
<1>1. IInv => ManifestMeansComplete
  BY Zenon DEF IInv
<1> QED
  BY <1>1, Invariance, PTL

\* CURRENT never names a version without a directory, even when processes write it
\* through each other's file or die on the way.
THEOREM CurrentHasDirectory == Spec => []CurrentExists
<1>1. IInv => CurrentExists
  BY DEF IInv, Existing, Named, CurrentExists
<1> QED
  BY <1>1, Invariance, PTL

\* As long as rollback and link_lucene_assets choose committed versions, CURRENT
\* names committed versions only.
THEOREM CurrentIsCommitted == Spec => []ActiveCommitted
<1>1. IInv => ActiveCommitted
  <2>1. Committed => (current \in Versions => "manifest" \in final[current])
    BY DEF Committed, Named
  <2> QED
    BY <2>1, Zenon DEF IInv, Promises, ActiveCommitted
<1> QED
  BY <1>1, Invariance, PTL

\* Without two processes between the open of CURRENT.tmp and its rename, no reader
\* finds CURRENT empty or garbled, wherever a process stops.
THEOREM CurrentWhole == Spec => []NeverTorn
<1>1. IInv => NeverTorn
  <2>1. AloneOnTmp => current \in Versions \union {Absent}
    BY DEF AloneOnTmp
  <2> QED
    BY <2>1, Zenon DEF IInv, Promises, NeverTorn
<1> QED
  BY <1>1, Invariance, PTL

\* After switches one at a time and to their end, the symlink the runtimes read
\* through points to the version CURRENT names.
THEOREM LinkIsCurrent == Spec => []LinkFollows
<1>1. IInv => LinkFollows
  <2>1. InStep => (Switching = {} => link = current)
    BY DEF InStep
  <2> QED
    BY <2>1, Zenon DEF IInv, Promises, LinkFollows
<1> QED
  BY <1>1, Invariance, PTL
(***************************************************************************)
(* The lifecycle implements Releases                                       *)
(***************************************************************************)
\* link_lucene_assets has made the directory it copies into.
Opened ==
  \A p \in Procs : pc[p] \in {"clear lucene", "copy lucene"} => final[version[p]] # {}

LEMMA OpenedStep == Kinds /\ Rooted /\ Opened /\ [Next]_vars => Opened'
<1> SUFFICES ASSUME Kinds, Rooted, Opened, [Next]_vars PROVE Opened'
  OBVIOUS
<1> DEFINE Linked == {"clear lucene", "copy lucene"}
<1>1. ASSUME \A v \in Versions : final[v] # {} => final'[v] # {},
             \A q \in Procs : \/ pc'[q] \notin Linked
                              \/ pc[q] \in Linked /\ version'[q] = version[q]
                              \/ version'[q] \in Versions /\ final'[version'[q]] # {}
      PROVE  Opened'
  <2>1. \A q \in Procs : pc[q] \in Linked => version[q] \in Versions
    BY DEF Kinds
  <2> QED
    BY <1>1, <2>1 DEF Opened
<1>2. ASSUME NEW p \in Procs, NEW v \in Versions, BeginLucene(p, v) PROVE Opened'
  <2>1. /\ pc'[p] = "clear lucene" /\ version'[p] = v
        /\ \A q \in Procs \ {p} : pc'[q] = pc[q] /\ version'[q] = version[q]
    BY <1>2, Starting, Begins DEF Places
  <2>2. /\ final'[v] # {}
        /\ \A w \in Versions : final[w] # {} => final'[w] # {}
    BY <1>2 DEF BeginLucene, Kinds
  <2> QED
    BY <1>1, <2>1, <2>2
<1>3. ASSUME NEW p \in Procs, NEW v \in Versions,
             BeginStaging(p, v) \/ Publish(p, v) \/ Rollback(p, v)
      PROVE  Opened'
  <2>1. PICK l \in {"copy index", "open", "idle"} : Begin(p, v, l)
    BY <1>3, Starting
  <2>2. /\ pc'[p] = l
        /\ \A q \in Procs \ {p} : pc'[q] = pc[q] /\ version'[q] = version[q]
    BY <2>1, Begins DEF Places
  <2>3. \A w \in Versions : final[w] # {} => final'[w] # {}
    BY <1>3 DEF BeginStaging, Publish, Rollback, dirs, Kinds
  <2> QED
    BY <1>1, <2>2, <2>3
<1>4. ASSUME NEW p \in Procs,
             \/ CopyIndex(p) \/ CopyRest(p) \/ WriteManifest(p) \/ CopyLucene(p)
             \/ Switch(p) \/ Stop(p)
      PROVE  Opened'
  <2>1. PICK l \in Places \ Linked : Goto(p, l)
    BY <1>4 DEF CopyIndex, CopyRest, WriteManifest, CopyLucene, Copy, Switch, OpenTmp,
                WriteTmp, Replace, FindLink, Unlink, Symlink, Stop, Places
  <2>2. /\ pc'[p] = l
        /\ \A q \in Procs \ {p} : pc'[q] = pc[q] /\ version'[q] = version[q]
    BY <2>1, Goes
  <2>3. \A w \in Versions : final[w] # {} => final'[w] # {}
    <3>1. CASE CopyLucene(p)
      BY <3>1 DEF CopyLucene, Kinds
    <3>2. CASE ~CopyLucene(p)
      BY <1>4, <3>2 DEF CopyIndex, CopyRest, WriteManifest, Copy, Switch, OpenTmp,
                WriteTmp, Replace, FindLink, Unlink, Symlink, Stop, dirs
    <3> QED
      BY <3>1, <3>2
  <2> QED
    BY <1>1, <2>2, <2>3
<1>5. ASSUME NEW p \in Procs, ClearLucene(p) PROVE Opened'
  <2>1. /\ pc[p] = "clear lucene" /\ version'[p] = version[p]
        /\ \A q \in Procs \ {p} : pc'[q] = pc[q] /\ version'[q] = version[q]
    BY <1>5, Goes DEF ClearLucene, Places
  <2>2. \A w \in Versions : final[w] \ {"lucene"} \subseteq final'[w]
    BY <1>5 DEF ClearLucene, Kinds
  <2>3. \A w \in Versions : final[w] # {} => final'[w] # {}
    BY <2>2 DEF Rooted
  <2> QED
    BY <1>1, <2>1, <2>3
<1>6. CASE UNCHANGED vars
  BY <1>6 DEF vars, Opened
<1> QED
  BY <1>2, <1>3, <1>4, <1>5, <1>6 DEF Next, Prepare, Choose

LEMMA OpenedInvariance == Spec => []Opened
<1>1. Init => Opened
  BY DEF Init, Opened
<1>2. IInv /\ Opened /\ [Next]_vars => Opened'
  BY OpenedStep, Zenon DEF IInv, Types
<1> QED
  BY <1>1, <1>2, Invariance, PTL DEF Spec

\* The conditions exclude each other, and there is no broken version.
LEMMA ConditionIs ==
  ASSUME NEW dir, "manifest" \in dir => Assets \subseteq dir
  PROVE  /\ Condition(dir) = "absent" <=> dir = {}
         /\ Condition(dir) = "empty" <=> dir = {"."}
         /\ Condition(dir) = "linked" <=> dir = {".", "lucene"}
         /\ Condition(dir) = "complete" <=> "manifest" \in dir
         /\ Condition(dir) \in {"absent", "empty", "linked", "complete", "partial"}
<1>1. "manifest" \in dir <=> {"manifest"} \union Assets \subseteq dir
  OBVIOUS
<1>2. CASE dir = {}
  BY <1>2 DEF Condition
<1>3. CASE dir = {"."}
  <2>1. dir # {} /\ dir # {".", "lucene"} /\ "manifest" \notin dir
    BY <1>3
  <2>2. Condition(dir) = "empty"
    BY <1>1, <1>3, <2>1 DEF Condition
  <2> QED
    BY <1>3, <2>1, <2>2
<1>4. CASE dir = {".", "lucene"}
  <2>1. dir # {} /\ dir # {"."} /\ "manifest" \notin dir
    BY <1>4
  <2>2. Condition(dir) = "linked"
    BY <1>1, <1>4, <2>1 DEF Condition
  <2> QED
    BY <1>4, <2>1, <2>2
<1>5. CASE dir # {} /\ dir # {"."} /\ dir # {".", "lucene"}
  <2>1. CASE "manifest" \in dir
    <3>1. Condition(dir) = "complete"
      BY <1>1, <1>5, <2>1, Zenon DEF Condition
    <3> QED
      BY <1>5, <2>1, <3>1
  <2>2. CASE "manifest" \notin dir
    <3>1. Condition(dir) = "partial"
      BY <1>1, <1>5, <2>2, Zenon DEF Condition
    <3> QED
      BY <1>5, <2>2, <3>1
  <2> QED
    BY <2>1, <2>2
<1> QED
  BY <1>2, <1>3, <1>4, <1>5

LEMMA ConditionsOf ==
  ASSUME NEW v \in Versions,
         \A w \in Versions \ {v} : final'[w] = final[w]
  PROVE  /\ Conditions[v] = Condition(final[v])
         /\ Conditions' = [Conditions EXCEPT ![v] = Condition(final'[v])]
BY DEF Conditions

\* Who is between the choice and the rename, and so what may become active.
LEMMA ChosenBy ==
  ASSUME Kinds, NEW p \in Procs, NEW X,
         \A q \in Procs \ {p} : pc'[q] = pc[q] /\ version'[q] = version[q],
         tmp' \in {tmp} \union NoName \union X,
         pc'[p] \in {"open", "write", "replace"} => version'[p] \in X
  PROVE  Chosen' \subseteq Chosen \union X
<1>1. \A q \in Procs \ {p} : q \in (Switching \ Linking)' <=> q \in Switching \ Linking
  BY PlacesOf DEF Switching, Writing, Linking
<1>2. Versions \intersect NoName = {}
  BY NamesAssumption
<1>3. p \in (Switching \ Linking)' => version'[p] \in X
  BY DEF Switching, Writing, Linking
<1> QED
  BY <1>1, <1>2, <1>3, PlacesOf DEF Chosen, Switching, Writing, Linking

LEMMA ChosenWith ==
  ASSUME Kinds, NEW p \in Procs, NEW v \in Versions,
         pc[p] \notin {"open", "write", "replace"},
         \A q \in Procs \ {p} : pc'[q] = pc[q] /\ version'[q] = version[q],
         UNCHANGED tmp
  PROVE  /\ pc'[p] = "open" /\ version'[p] = v => Chosen' = Chosen \union {v}
         /\ pc'[p] \notin {"open", "write", "replace"} => Chosen' = Chosen
<1>1. Switching \ Linking = {q \in Procs : pc[q] \in {"open", "write", "replace"}}
  BY DEF Switching, Writing, Linking
<1>2. (Switching \ Linking)' = {q \in Procs : pc'[q] \in {"open", "write", "replace"}}
  BY DEF Switching, Writing, Linking
<1>3. ASSUME pc'[p] = "open", version'[p] = v PROVE Chosen' = Chosen \union {v}
  <2>1. (Switching \ Linking)' = (Switching \ Linking) \union {p}
    BY <1>1, <1>2, <1>3
  <2>2. p \notin Switching \ Linking
    BY <1>1
  <2>3. {version'[q] : q \in (Switching \ Linking)'}
          = {version[q] : q \in Switching \ Linking} \union {v}
    BY <1>1, <1>3, <2>1, <2>2
  <2>4. Chosen' = Versions \intersect ({tmp} \union {version'[q] : q \in (Switching \ Linking)'})
    BY DEF Chosen
  <2>5. Chosen = Versions \intersect ({tmp} \union {version[q] : q \in Switching \ Linking})
    BY DEF Chosen
  <2> HIDE DEF Chosen
  <2> QED
    BY <2>3, <2>4, <2>5
<1>4. ASSUME pc'[p] \notin {"open", "write", "replace"} PROVE Chosen' = Chosen
  <2>1. (Switching \ Linking)' = Switching \ Linking /\ p \notin Switching \ Linking
    BY <1>1, <1>2, <1>4
  <2>2. {version'[q] : q \in (Switching \ Linking)'} = {version[q] : q \in Switching \ Linking}
    BY <1>1, <2>1
  <2> QED
    BY <2>2 DEF Chosen
<1> QED
  BY <1>3, <1>4
\* The calls that touch neither a directory nor CURRENT withdraw a choice at most.
LEMMA OnlyWithdraws ==
  ASSUME Kinds, Flags, NEW p \in Procs, NEW l \in Places, Goto(p, l),
         UNCHANGED <<final, current, bare>>,
         overlapped => overlapped',
         \/ /\ pc[p] \in {"open", "write", "replace"}
            /\ tmp' \in {tmp} \union NoName \union {version[p]}
         \/ UNCHANGED tmp /\ l \notin {"open", "write", "replace"}
  PROVE  Public!Withdraw
<1>1. /\ pc'[p] = l /\ version'[p] \in {version[p], Absent}
      /\ \A q \in Procs \ {p} : pc'[q] = pc[q] /\ version'[q] = version[q]
  BY Goes
<1>2. UNCHANGED <<Conditions, Active>>
  BY Zenon DEF Conditions, Active
<1>3. Chosen' \subseteq Chosen
  <2>1. CASE pc[p] \in {"open", "write", "replace"}
    <3>1. p \in Switching \ Linking /\ version[p] \in Versions
      BY <2>1 DEF Switching, Writing, Linking, Kinds
    <3>2. version[p] \in Chosen /\ (l # "idle" => version'[p] = version[p])
      BY <3>1, Goes DEF Chosen
    <3>3. Chosen' \subseteq Chosen \union {version[p]}
      BY <1>1, <3>2, ChosenBy
    <3> QED
      BY <3>2, <3>3
  <2>2. CASE UNCHANGED tmp /\ l \notin {"open", "write", "replace"}
    <3>1. Chosen' \subseteq Chosen \union {}
      BY <1>1, <2>2, ChosenBy
    <3> QED
      BY <3>1
  <2> QED
    BY <2>1, <2>2
<1> QED
  BY <1>2, <1>3, Zenon DEF Public!Withdraw

LEMMA PrepareImplements ==
  ASSUME Kinds, Flags, NEW p \in Procs, Prepare(p)
  PROVE  Public!Withdraw
<1>1. ASSUME NEW v \in Versions, BeginStaging(p, v) PROVE Public!Withdraw
  <2>1. /\ pc[p] = "idle" /\ pc'[p] = "copy index"
        /\ \A q \in Procs \ {p} : pc'[q] = pc[q] /\ version'[q] = version[q]
    BY <1>1, Starting, Begins DEF Places
  <2>2. UNCHANGED <<final, current, tmp>>
    BY <1>1 DEF BeginStaging, pointer
  <2>3. UNCHANGED <<bare, overlapped>>
    BY <1>1, Zenon DEF BeginStaging, history
  <2>4. Chosen' = Chosen
    BY <2>1, <2>2, ChosenWith
  <2>5. UNCHANGED <<Conditions, Active>>
    BY <2>2, Zenon DEF Conditions, Active
  <2> QED
    BY <2>3, <2>4, <2>5, Zenon DEF Public!Withdraw
<1>2. ASSUME CopyIndex(p) \/ CopyRest(p) \/ WriteManifest(p) PROVE Public!Withdraw
  <2>1. PICK l \in {"copy rest", "copy manifest", "idle"},
             part \in {"index", "rest", "manifest"} : Copy(p, part, l)
    BY <1>2 DEF CopyIndex, CopyRest, WriteManifest
  <2>2. Goto(p, l) /\ l \in Places /\ UNCHANGED <<final, current, tmp>>
    BY <2>1 DEF Copy, pointer, Places
  <2>3. UNCHANGED <<bare, overlapped>>
    BY <2>1, Zenon DEF Copy, history
  <2>4. overlapped => overlapped'
    BY <2>3, Zenon
  <2>5. UNCHANGED <<final, current, bare>> /\ l \notin {"open", "write", "replace"}
    BY <2>2, <2>3
  <2> QED
    BY <2>2, <2>4, <2>5, OnlyWithdraws
<1> QED
  BY <1>1, <1>2 DEF Prepare

\* A publish makes a version complete and chooses it, in one step.
LEMMA PublishImplements ==
  ASSUME Kinds, Staged, Rooted, ManifestMeansComplete, NEW p \in Procs, NEW v \in Versions,
         Publish(p, v)
  PROVE  Public!Release(v) \/ Public!Grow(v)
<1>1. /\ staging[v] # {} /\ final[v] \subseteq {"."} /\ final'[v] = staging[v]
      /\ \A w \in Versions \ {v} : final'[w] = final[w]
  BY DEF Publish, Kinds
<1>2. UNCHANGED <<tmp, current, Active>>
  <2>1. UNCHANGED <<tmp, current>>
    BY DEF Publish, pointer
  <2> QED
    BY <2>1, Zenon DEF Active
<1>3. UNCHANGED <<bare, overlapped>>
  BY Zenon DEF Publish
<1>4. /\ Conditions[v] = Condition(final[v])
      /\ Conditions' = [Conditions EXCEPT ![v] = Condition(final'[v])]
  BY <1>1, ConditionsOf
<1>5. Conditions[v] \in Public!Unfilled
  <2>1. (final[v] = {} \/ final[v] = {"."}) /\ "manifest" \notin final[v]
    BY <1>1
  <2>2. Condition(final[v]) \in {"absent", "empty"}
    BY <2>1, ConditionIs
  <2> QED
    BY <1>4, <2>2 DEF Public!Unfilled
<1>0. "manifest" \in final'[v] => Assets \subseteq final'[v]
  BY <1>1 DEF Staged, Open
<1>6. CASE "manifest" \in staging[v]
  <2>1. Begin(p, v, "open")
    BY <1>6 DEF Publish
  <2>2. /\ pc[p] = "idle" /\ pc'[p] = "open" /\ version'[p] = v
        /\ \A q \in Procs \ {p} : pc'[q] = pc[q] /\ version'[q] = version[q]
    BY <2>1, Begins DEF Places
  <2>3. Chosen' = Chosen \union {v}
    BY <1>2, <2>2, ChosenWith
  <2>4. Condition(final'[v]) = "complete"
    BY <1>0, <1>1, <1>6, ConditionIs
  <2> QED
    BY <1>2, <1>3, <1>4, <1>5, <2>3, <2>4, Zenon DEF Public!Release
<1>7. CASE "manifest" \notin staging[v]
  <2>1. Begin(p, v, "idle")
    BY <1>7 DEF Publish
  <2>2. /\ pc[p] = "idle" /\ pc'[p] = "idle"
        /\ \A q \in Procs \ {p} : pc'[q] = pc[q] /\ version'[q] = version[q]
    BY <2>1, Begins DEF Places
  <2>3. Chosen' = Chosen
    BY <1>2, <2>2, ChosenWith
  <2>4. Condition(final'[v]) \in {"empty", "partial"}
    <3>1. final'[v] # {} /\ final'[v] # {".", "lucene"} /\ "manifest" \notin final'[v]
      BY <1>1, <1>7 DEF Rooted
    <3> QED
      BY <1>0, <3>1, ConditionIs
  <2>5. Conditions' \in {[Conditions EXCEPT ![v] = c] : c \in {"empty", "partial"}}
    BY <1>4, <2>4
  <2> QED
    BY <1>2, <1>3, <1>5, <2>3, <2>5, Zenon DEF Public!Grow
<1> QED
  BY <1>6, <1>7

\* rollback and link_lucene_assets choose a version that is there, complete or not.
LEMMA PickImplements ==
  ASSUME Kinds, Rooted, ManifestMeansComplete, Opened, NEW p \in Procs
  PROVE  /\ \A v \in Versions : Rollback(p, v) => Public!Pick(v)
         /\ CopyLucene(p) => version[p] \in Versions /\ Public!Pick(version[p])
<1>0. ASSUME NEW v \in Versions, final[v] # {}
      PROVE  /\ Conditions[v] # "absent"
             /\ ("manifest" \notin final[v]) = (Conditions[v] # "complete")
  <2>1. Conditions[v] = Condition(final[v])
    BY DEF Conditions
  <2>2. "manifest" \in final[v] => Assets \subseteq final[v]
    BY DEF ManifestMeansComplete
  <2> QED
    BY <1>0, <2>1, <2>2, ConditionIs
<1>1. ASSUME NEW v \in Versions, Rollback(p, v) PROVE Public!Pick(v)
  <2>1. /\ pc[p] = "idle" /\ pc'[p] = "open" /\ version'[p] = v
        /\ \A q \in Procs \ {p} : pc'[q] = pc[q] /\ version'[q] = version[q]
    BY <1>1, Starting, Begins DEF Places
  <2>2. final[v] # {} /\ UNCHANGED <<final, tmp, current>>
    BY <1>1 DEF Rollback, dirs, pointer
  <2>3. Chosen' = Chosen \union {v}
    BY <2>1, <2>2, ChosenWith
  <2>4. UNCHANGED <<Conditions, Active>>
    BY <2>2, Zenon DEF Conditions, Active
  <2>5. /\ Conditions[v] # "absent"
        /\ ("manifest" \notin final[v]) = (Conditions[v] # "complete")
    BY <1>0, <2>2
  <2>6. bare' = (bare \/ "manifest" \notin final[v]) /\ UNCHANGED overlapped
    BY <1>1, Zenon DEF Rollback
  <2>7. bare' = (bare \/ Conditions[v] # "complete")
    BY <2>5, <2>6, Zenon
  <2> QED
    BY <2>3, <2>4, <2>5, <2>6, <2>7, Zenon DEF Public!Pick
<1>2. ASSUME CopyLucene(p) PROVE version[p] \in Versions /\ Public!Pick(version[p])
  <2>0. PICK v \in Versions : v = version[p]
    BY <1>2 DEF CopyLucene, Kinds
  <2>1. /\ pc[p] = "copy lucene" /\ pc'[p] = "open" /\ version'[p] = v
        /\ \A q \in Procs \ {p} : pc'[q] = pc[q] /\ version'[q] = version[q]
    BY <1>2, <2>0, Goes DEF CopyLucene, Places
  <2>2. final[v] # {} /\ "." \in final[v] /\ "lucene" \notin final[v]
    BY <1>2, <2>0, <2>1 DEF CopyLucene, Opened, Rooted
  <2>3. /\ final'[v] = final[v] \union {"lucene"} /\ UNCHANGED <<tmp, current>>
        /\ \A w \in Versions \ {v} : final'[w] = final[w]
    BY <1>2, <2>0, <2>2 DEF CopyLucene, pointer, Kinds
  <2>4. Chosen' = Chosen \union {v}
    BY <2>1, <2>3, ChosenWith
  <2>5. UNCHANGED Active
    BY <2>3, Zenon DEF Active
  <2>6. /\ Conditions[v] # "absent"
        /\ ("manifest" \notin final[v]) = (Conditions[v] # "complete")
    BY <1>0, <2>2
  <2>7. bare' = (bare \/ "manifest" \notin final[v]) /\ UNCHANGED overlapped
    BY <1>2, <2>0, Zenon DEF CopyLucene
  <2>8. bare' = (bare \/ Conditions[v] # "complete")
    BY <2>6, <2>7, Zenon
  <2>9. Conditions' = [Conditions EXCEPT ![v] = IF @ = "empty" THEN "linked" ELSE @]
    <3>1. /\ Conditions[v] = Condition(final[v])
          /\ Conditions' = [Conditions EXCEPT ![v] = Condition(final'[v])]
      BY <2>3, ConditionsOf
    <3>2. /\ "manifest" \in final[v] => Assets \subseteq final[v]
          /\ "manifest" \in final'[v] <=> "manifest" \in final[v]
          /\ "manifest" \in final'[v] => Assets \subseteq final'[v]
      BY <2>3 DEF ManifestMeansComplete
    <3>3. Condition(final'[v]) = IF Condition(final[v]) = "empty"
                                 THEN "linked" ELSE Condition(final[v])
      <4>1. CASE final[v] = {"."}
        <5>1. final'[v] = {".", "lucene"}
          BY <2>3, <4>1
        <5>2. Condition(final[v]) = "empty"
          BY <3>2, <4>1, ConditionIs
        <5>3. Condition(final'[v]) = "linked"
          BY <3>2, <5>1, ConditionIs
        <5> QED
          BY <5>2, <5>3
      <4>2. CASE final[v] # {"."}
        <5>1. final'[v] # {} /\ final'[v] # {"."} /\ final'[v] # {".", "lucene"}
          BY <2>2, <2>3, <4>2
        <5>2. /\ Condition(final'[v]) \in {"complete", "partial"}
              /\ Condition(final'[v]) = "complete" <=> "manifest" \in final[v]
          BY <3>2, <5>1, ConditionIs
        <5>3. /\ Condition(final[v]) \in {"complete", "partial"}
              /\ Condition(final[v]) = "complete" <=> "manifest" \in final[v]
          BY <2>2, <3>2, <4>2, ConditionIs
        <5> QED
          BY <5>2, <5>3
      <4> QED
        BY <4>1, <4>2
    <3> QED
      BY <3>1, <3>3, Zenon
  <2> QED
    BY <2>0, <2>4, <2>5, <2>6, <2>7, <2>8, <2>9, Zenon DEF Public!Pick
<1> QED
  BY <1>1, <1>2

\* link_lucene_assets makes the directory, or finds it there.
LEMMA LuceneImplements ==
  ASSUME Kinds, Rooted, NEW p \in Procs, NEW v \in Versions, BeginLucene(p, v)
  PROVE  Public!Grow(v) \/ Public!Withdraw
<1>1. /\ pc[p] = "idle" /\ pc'[p] = "clear lucene"
      /\ \A q \in Procs \ {p} : pc'[q] = pc[q] /\ version'[q] = version[q]
  BY Starting, Begins DEF Places
<1>2. /\ final'[v] = final[v] \union {"."} /\ UNCHANGED <<tmp, current>>
      /\ \A w \in Versions \ {v} : final'[w] = final[w]
  BY DEF BeginLucene, pointer, Kinds
<1>3. UNCHANGED <<bare, overlapped>>
  BY Zenon DEF BeginLucene, history
<1>4. Chosen' = Chosen
  BY <1>1, <1>2, ChosenWith
<1>5. UNCHANGED Active
  BY <1>2, Zenon DEF Active
<1>6. /\ Conditions[v] = Condition(final[v])
      /\ Conditions' = [Conditions EXCEPT ![v] = Condition(final'[v])]
  BY <1>2, ConditionsOf
<1>7. CASE final[v] = {}
  <2>1. final'[v] = {"."}
    BY <1>2, <1>7
  <2>2. Condition(final'[v]) = "empty" /\ Condition(final[v]) = "absent"
    BY <1>7, <2>1, ConditionIs
  <2>3. Conditions[v] \in Public!Unfilled
    BY <1>6, <2>2 DEF Public!Unfilled
  <2>4. Conditions' \in {[Conditions EXCEPT ![v] = c] : c \in {"empty", "partial"}}
    BY <1>6, <2>2
  <2> QED
    BY <1>3, <1>4, <1>5, <2>3, <2>4, Zenon DEF Public!Grow
<1>8. CASE final[v] # {}
  <2>1. final'[v] = final[v]
    BY <1>2, <1>8 DEF Rooted
  <2>2. UNCHANGED Conditions
    BY <1>6, <2>1 DEF Conditions
  <2>3. Chosen' \subseteq Chosen
    BY <1>4
  <2> QED
    BY <1>3, <1>5, <2>2, <2>3, Zenon DEF Public!Withdraw
<1> QED
  BY <1>7, <1>8

\* Removing the Lucene assets empties a version that has nothing else, and leaves
\* any other in its condition.
LEMMA ClearImplements ==
  ASSUME Kinds, Rooted, ManifestMeansComplete, NEW p \in Procs, NEW v \in Versions,
         v = version[p], ClearLucene(p)
  PROVE  Public!Clear(v) \/ Public!Withdraw
<1>1. /\ pc[p] = "clear lucene" /\ pc'[p] = "copy lucene"
      /\ \A q \in Procs \ {p} : pc'[q] = pc[q] /\ version'[q] = version[q]
  BY Goes DEF ClearLucene, Places
<1>2. /\ final'[v] = final[v] \ {"lucene"} /\ UNCHANGED <<tmp, current>>
      /\ \A w \in Versions \ {v} : final'[w] = final[w]
  BY DEF ClearLucene, pointer, Kinds
<1>3. UNCHANGED <<bare, overlapped>>
  BY Zenon DEF ClearLucene, history
<1>4. Chosen' = Chosen
  BY <1>1, <1>2, ChosenWith
<1>5. UNCHANGED Active
  BY <1>2, Zenon DEF Active
<1>6. /\ Conditions[v] = Condition(final[v])
      /\ Conditions' = [Conditions EXCEPT ![v] = Condition(final'[v])]
  BY <1>2, ConditionsOf
<1>7. CASE final[v] = {".", "lucene"}
  <2>1. final'[v] = {"."}
    BY <1>2, <1>7
  <2>2. "manifest" \notin final[v] /\ "manifest" \notin final'[v]
    BY <1>7, <2>1
  <2>3. Condition(final[v]) = "linked"
    BY <1>7, <2>2, ConditionIs
  <2>4. Condition(final'[v]) = "empty"
    BY <2>1, <2>2, ConditionIs
  <2>5. Conditions[v] = "linked" /\ Conditions' = [Conditions EXCEPT ![v] = "empty"]
    BY <1>6, <2>3, <2>4
  <2> QED
    BY <1>3, <1>4, <1>5, <2>5, Zenon DEF Public!Clear
<1>8. CASE final[v] # {".", "lucene"}
  <2>1. /\ "manifest" \in final[v] => Assets \subseteq final[v]
        /\ "manifest" \in final'[v] <=> "manifest" \in final[v]
        /\ "manifest" \in final'[v] => Assets \subseteq final'[v]
    BY <1>2 DEF ManifestMeansComplete, Assets
  <2>2. Condition(final'[v]) = Condition(final[v])
    <3>1. CASE "lucene" \notin final[v]
      <4>1. final'[v] = final[v]
        BY <1>2, <3>1
      <4> QED
        BY <4>1
    <3>2. CASE "lucene" \in final[v]
      <4>1. "." \in final[v]
        BY <3>2 DEF Rooted
      <4>2. /\ final[v] # {} /\ final[v] # {"."}
            /\ final'[v] # {} /\ final'[v] # {"."} /\ final'[v] # {".", "lucene"}
        BY <1>2, <1>8, <3>2, <4>1
      <4>3. /\ Condition(final[v]) \in {"complete", "partial"}
            /\ Condition(final[v]) = "complete" <=> "manifest" \in final[v]
        BY <1>8, <2>1, <4>2, ConditionIs
      <4>4. /\ Condition(final'[v]) \in {"complete", "partial"}
            /\ Condition(final'[v]) = "complete" <=> "manifest" \in final[v]
        BY <2>1, <4>2, ConditionIs
      <4> QED
        BY <4>3, <4>4
    <3> QED
      BY <3>1, <3>2
  <2>3. UNCHANGED Conditions
    BY <1>6, <2>2 DEF Conditions
  <2>4. Chosen' \subseteq Chosen
    BY <1>4
  <2> QED
    BY <1>3, <1>5, <2>3, <2>4, Zenon DEF Public!Withdraw
<1> QED
  BY <1>7, <1>8

\* What is written to CURRENT is a chosen version, or no name after an overlap.
LEMMA CurrentMoves ==
  ASSUME Flags, NEW x, current' = x, Chosen' \subseteq Chosen,
         UNCHANGED <<final, bare, overlapped>>,
         x \in Versions => x \in Chosen, x \notin Versions => overlapped
  PROVE  (\E v \in Versions : Public!Activate(v)) \/ Public!Lose
<1>1. UNCHANGED Conditions
  BY Zenon DEF Conditions
<1>2. CASE x \in Versions
  <2>1. Active' = x /\ x \in Chosen
    BY <1>2 DEF Active
  <2> QED
    BY <1>1, <1>2, <2>1, Zenon DEF Public!Activate
<1>3. CASE x \notin Versions
  <2>1. Active' = Absent /\ overlapped
    BY <1>3 DEF Active
  <2> QED
    BY <1>1, <2>1, Zenon DEF Public!Lose
<1> QED
  BY <1>2, <1>3

LEMMA WriteImplements ==
  ASSUME Kinds, Flags, ~overlapped => AloneOnTmp, NEW p \in Procs, WriteTmp(p)
  PROVE  Public!Withdraw \/ (\E v \in Versions : Public!Activate(v)) \/ Public!Lose
<1>1. /\ pc[p] = "write" /\ pc'[p] = "replace" /\ version'[p] = version[p]
      /\ version[p] \in Versions /\ Goto(p, "replace")
      /\ \A q \in Procs \ {p} : pc'[q] = pc[q] /\ version'[q] = version[q]
  BY Goes DEF WriteTmp, Places, Kinds
<1>2. UNCHANGED <<bare, overlapped>>
  BY Zenon DEF WriteTmp, history
<1>3. \A file : Written(p, file) \subseteq {version[p]} \union NoName
  BY DEF Written, NoName
<1>4. UNCHANGED final
  BY DEF WriteTmp, dirs
<1>5. tmp' \in {tmp} \union NoName \union {version[p]}
  BY <1>3 DEF WriteTmp
<1>6. CASE fd[p] = "current"
  <2>1. current' \in {version[p]} \union NoName
    BY <1>3, <1>6 DEF WriteTmp
  <2>2. version[p] \in Chosen
    BY <1>1 DEF Chosen, Switching, Writing, Linking
  <2>3. Chosen' \subseteq Chosen \union {version[p]}
    BY <1>1, <1>5, ChosenBy
  <2>4. ~AloneOnTmp
    BY <1>1, <1>6 DEF AloneOnTmp
  <2>5. overlapped
    BY <2>4, Zenon
  <2>6. /\ current' \in Versions => current' \in Chosen
        /\ Chosen' \subseteq Chosen
    BY <2>1, <2>2, <2>3, NamesAssumption
  <2>7. UNCHANGED <<final, bare, overlapped>>
    BY <1>2, <1>4
  <2> QED
    BY <2>5, <2>6, <2>7, CurrentMoves
<1>7. CASE fd[p] # "current"
  <2>1. UNCHANGED <<final, current, bare>>
    BY <1>2, <1>4, <1>7 DEF WriteTmp
  <2>2. overlapped => overlapped'
    BY <1>2, Zenon
  <2>3. "replace" \in Places /\ pc[p] \in {"open", "write", "replace"}
    BY <1>1 DEF Places
  <2> QED
    BY <1>1, <1>5, <2>1, <2>2, <2>3, OnlyWithdraws
<1> QED
  BY <1>6, <1>7

LEMMA ReplaceImplements ==
  ASSUME Kinds, Flags, ~overlapped => AloneOnTmp, NEW p \in Procs, Replace(p)
  PROVE  (\E v \in Versions : Public!Activate(v)) \/ Public!Lose
<1>1. /\ pc[p] = "replace" /\ pc'[p] = "link"
      /\ version[p] \in Versions
      /\ \A q \in Procs \ {p} : pc'[q] = pc[q] /\ version'[q] = version[q]
  BY Goes DEF Replace, Places, Kinds
<1>2. UNCHANGED <<bare, overlapped>>
  BY Zenon DEF Replace, history
<1>3. UNCHANGED final /\ current' = tmp /\ tmp' \in NoName
  BY Names DEF Replace, dirs
<1>4. tmp \in Versions => tmp \in Chosen
  BY DEF Chosen
<1>5. tmp \notin Versions => overlapped
  <2>1. tmp \notin Versions => ~AloneOnTmp
    BY <1>1 DEF AloneOnTmp
  <2> QED
    BY <2>1, Zenon
<1>6. Chosen' \subseteq Chosen \union {}
  BY <1>1, <1>3, ChosenBy
<1>7. Chosen' \subseteq Chosen /\ UNCHANGED <<final, bare, overlapped>>
  BY <1>2, <1>3, <1>6
<1> QED
  BY <1>3, <1>4, <1>5, <1>7, CurrentMoves

LEMMA StopImplements ==
  ASSUME Kinds, Flags, NEW p \in Procs,
         OpenTmp(p) \/ FindLink(p) \/ Unlink(p) \/ Symlink(p) \/ Stop(p)
  PROVE  Public!Withdraw
<1>1. CASE OpenTmp(p)
  <2>1. /\ Goto(p, "write") /\ pc[p] = "open" /\ tmp' = Empty
        /\ UNCHANGED <<final, current>>
    BY <1>1 DEF OpenTmp, dirs
  <2>2. UNCHANGED bare /\ (overlapped => overlapped')
    BY <1>1, Zenon DEF OpenTmp
  <2>3. UNCHANGED <<final, current, bare>>
    BY <2>1, <2>2
  <2>4. "write" \in Places /\ pc[p] \in {"open", "write", "replace"} /\ tmp' \in NoName
    BY <2>1 DEF Places, NoName
  <2> QED
    BY <2>1, <2>2, <2>3, <2>4, OnlyWithdraws
<1>2. CASE FindLink(p) \/ Unlink(p) \/ Symlink(p) \/ Stop(p)
  <2>1. PICK l \in {"unlink", "symlink", "idle"} : Goto(p, l)
    BY <1>2 DEF FindLink, Unlink, Symlink, Stop
  <2>2. UNCHANGED <<final, current, tmp>>
    BY <1>2 DEF FindLink, Unlink, Symlink, Stop, dirs, pointer
  <2>3. UNCHANGED <<bare, overlapped>>
    BY <1>2, Zenon DEF FindLink, Unlink, Symlink, Stop, history
  <2>4. overlapped => overlapped'
    BY <2>3, Zenon
  <2>5. UNCHANGED <<final, current, bare>>
    BY <2>2, <2>3
  <2>6. l \in Places /\ l \notin {"open", "write", "replace"}
    BY DEF Places
  <2> QED
    BY <2>1, <2>2, <2>4, <2>5, <2>6, OnlyWithdraws
<1> QED
  BY <1>1, <1>2

LEMMA StepImplements ==
  IInv /\ Opened /\ [Next]_vars => [Public!ReleasesNext]_Public!releaseVars
<1> SUFFICES ASSUME IInv, Opened, [Next]_vars
             PROVE  [Public!ReleasesNext]_Public!releaseVars
  OBVIOUS
<1>1. /\ Kinds /\ Flags /\ Staged /\ Rooted /\ ManifestMeansComplete
      /\ (~overlapped => AloneOnTmp)
  BY Zenon DEF IInv, Types, Promises
<1>2. ASSUME NEW p \in Procs, Prepare(p) PROVE Public!ReleasesNext
  BY <1>1, <1>2, PrepareImplements, Zenon DEF Public!ReleasesNext
<1>6. ASSUME NEW p \in Procs, ClearLucene(p) PROVE Public!ReleasesNext
  <2>1. PICK v \in Versions : v = version[p]
    BY <1>1, <1>6 DEF ClearLucene, Kinds
  <2> QED
    BY <1>1, <1>6, <2>1, ClearImplements, Zenon DEF Public!ReleasesNext
<1>3. ASSUME NEW p \in Procs, Choose(p) PROVE Public!ReleasesNext
  BY <1>1, <1>3, <1>6, PublishImplements, PickImplements, LuceneImplements, Zenon
     DEF Choose, Public!ReleasesNext
<1>4. ASSUME NEW p \in Procs, Switch(p) \/ Stop(p) PROVE Public!ReleasesNext
  BY <1>1, <1>4, WriteImplements, ReplaceImplements, StopImplements, Zenon
     DEF Switch, Public!ReleasesNext
<1>5. CASE UNCHANGED vars
  <2>1. UNCHANGED <<final, tmp, current, pc, version>>
    BY <1>5 DEF vars
  <2>2. UNCHANGED <<bare, overlapped>>
    BY <1>5, Zenon DEF vars
  <2>3. UNCHANGED <<Conditions, Active>>
    BY <2>1, Zenon DEF Conditions, Active
  <2>4. UNCHANGED Chosen
    BY <2>1 DEF Chosen, Switching, Writing, Linking
  <2> QED
    BY <2>2, <2>3, <2>4, Zenon DEF Public!releaseVars
<1> QED
  BY <1>2, <1>3, <1>4, <1>5 DEF Next

\* However the processes' calls of the file system interleave and stop, what they do
\* to the versions and to CURRENT is what Releases allows: a version becomes complete
\* in one step, from an empty directory or none, and for good, also one whose Lucene
\* assets are being linked anew; CURRENT moves only to versions that a call has
\* chosen, and it is left without one only after switches that overlapped.
THEOREM LifecycleImplementsReleases == Spec => ImplementsReleases
<1>1. Init => Public!ReleasesInit
  <2> SUFFICES ASSUME Init PROVE Public!ReleasesInit
    OBVIOUS
  <2>1. Conditions = [v \in Versions |-> "absent"]
    BY DEF Init, Conditions, Condition
  <2>2. Chosen = {}
    BY Names DEF Init, Chosen, Switching, Writing, Linking
  <2>3. Active = Absent
    BY Names DEF Init, Active
  <2>4. bare = FALSE /\ overlapped = FALSE
    BY DEF Init
  <2> QED
    BY <2>1, <2>2, <2>3, <2>4, Zenon DEF Public!ReleasesInit
<1> QED
  BY <1>1, StepImplements, Invariance, OpenedInvariance, PTL
     DEF Spec, ImplementsReleases, Public!ReleasesSpec
=============================================================================
