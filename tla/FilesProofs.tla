----------------------------- MODULE FilesProofs -----------------------------
(***************************************************************************)
(* Proofs about StoredFiles, for any files, calls at once, restarts and    *)
(* clock: a ticket keeps its files and no object is left behind, unless    *)
(* what the code does not guard against has happened.                      *)
(***************************************************************************)
EXTENDS StoredFiles, TLAPS

(***************************************************************************)
(* The invariant.                                                          *)
(***************************************************************************)
Bringing == {"stage", "attach", "import"}
Removing == {"clean", "cleanRows", "delete", "deleteRow", "erase", "purge", "takeBack"}

\* What is under way to a row is coming and stored; what is to be deleted has had
\* its row for some time.
CallKnown(w) ==
    /\ doing[w].step \in Bringing =>
         \A f \in doing[w].files : rows[f] = "coming" /\ f \in objects
    /\ doing[w].step \in Removing =>
         \A f \in doing[w].files : rows[f] \notin {"new", "coming"}
    /\ doing[w].step \in Removing \ {"takeBack"} =>
         /\ doing[w].files \subseteq doing[w].listed
         /\ \A f \in doing[w].listed : rows[f] \notin {"new", "coming"}
    /\ doing[w].step \in {"delete", "deleteRow", "erase"} =>
         doing[w].files = doing[w].listed
    /\ doing[w].step \in {"erase", "purge"} =>
         \A f \in doing[w].listed : rows[f] \in {"attached", "gone"}
    /\ doing[w].step = "purge" => erased

\* Nobody brings what another brings.
Apart == \A v, w \in Worker :
    v # w /\ doing[v].step \in Bringing /\ doing[w].step \in Bringing =>
        doing[v].files \cap doing[w].files = {}

\* The object of f went, or may have, and its row will.
Struck(w, f) ==
    /\ f \in doing[w].listed
    /\ \/ doing[w].step \in {"cleanRows", "deleteRow"}
       \/ doing[w].step = "clean" /\ f \notin doing[w].files

\* As long as no loss was possible: an upload that a ticket may claim has its
\* object, unless it is being deleted,
Stored == \A f \in File :
    rows[f] = "staged" => f \in objects \/ \E w \in Worker : Struck(w, f)

\* and what is to be deleted is no ticket's.
Kept ==
    /\ \A f \in held : rows[f] = "attached" /\ f \in objects
    /\ \A w \in Worker :
         /\ doing[w].step \in {"clean", "cleanRows", "delete", "deleteRow"} =>
              doing[w].listed \cap held = {}
         /\ doing[w].step = "takeBack" => \A f \in doing[w].files : rows[f] = "gone"

\* Calls that see to the objects of their files
Minds(w, f) ==
    doing[w].step \in Bringing \union {"purge", "takeBack"} /\ f \in doing[w].files

\* As long as nothing could be left over: where a row is about to go, the object
\* went before.
Minded ==
    /\ \A f \in objects :
         rows[f] \in {"staged", "attached"} \/ \E w \in Worker : Minds(w, f)
    /\ \A w \in Worker :
         /\ doing[w].step \in {"clean", "cleanRows"} =>
              (doing[w].listed \ doing[w].files) \cap objects = {}
         /\ doing[w].step = "cleanRows" => doing[w].files = {}
         /\ doing[w].step = "deleteRow" => doing[w].files \cap objects = {}

IInv ==
    /\ TypeOK
    /\ \A w \in Worker : CallKnown(w)
    /\ Apart
    /\ erased => held = {}
    /\ "loss" \notin disturbed => Kept /\ Stored
    /\ "leftover" \notin disturbed => Minded

------------------------------------------------------------------------------
(***************************************************************************)
(* Types.                                                                  *)
(***************************************************************************)
States == {"new", "coming", "staged", "attached", "gone"}

LEMMA BoundTypes == Hour \in Nat /\ MaxTime \in Nat \ {0} /\ MaxCrashes \in Nat
<1> QED
  BY StoredFilesAssumption

LEMMA IdleType == Idle \in CallType /\ Idle.step = "idle" /\ Idle.files = {}
<1> QED
  BY DEF Idle, CallType

\* Turning rows keeps their types.
LEMMA TurnType ==
    ASSUME TypeOK, NEW files, NEW state \in States, Turn(files, state)
    PROVE  /\ rows' \in [File -> States] /\ stagedAt' \in [File -> 0..MaxTime]
           /\ \A f \in File : rows'[f] = IF f \in files THEN state ELSE rows[f]
<1> QED
  BY BoundTypes DEF TypeOK, Turn, States

\* What becomes of one call keeps the types of all.
LEMMA CallsType ==
    ASSUME TypeOK, NEW w \in Worker, NEW call \in CallType,
           doing' = [doing EXCEPT ![w] = call]
    PROVE  /\ doing' \in [Worker -> CallType] /\ doing'[w] = call
           /\ \A v \in Worker \ {w} : doing'[v] = doing[v]
<1> QED
  BY DEF TypeOK

------------------------------------------------------------------------------
(***************************************************************************)
(* The kinds of steps: an object comes before its row, rows settle, calls  *)
(* that delete begin, objects go, rows go.                                 *)
(***************************************************************************)
\* Only worker w goes on, and only the rows of the given files change.
Only(w, files) ==
    /\ \A v \in Worker \ {w} : doing'[v] = doing[v]
    /\ \A f \in File \ files : rows'[f] = rows[f]

LEMMA StoredStays ==
    ASSUME Stored, NEW w \in Worker, \A v \in Worker \ {w} : doing'[v] = doing[v],
           \A f \in File : rows'[f] = "staged" =>
             /\ rows[f] = "staged" \/ f \in objects'
             /\ f \in objects \ objects' => Struck(w, f)'
             /\ Struck(w, f) => Struck(w, f)'
    PROVE  Stored'
<1> SUFFICES ASSUME NEW f \in File, rows'[f] = "staged", f \notin objects'
             PROVE  \E v \in Worker : Struck(v, f)'
  BY DEF Stored
<1>1. CASE f \in objects
  BY <1>1
<1>2. ASSUME NEW v \in Worker, Struck(v, f) PROVE \E u \in Worker : Struck(u, f)'
  <2>1. CASE v = w
    BY <1>2, <2>1
  <2>2. CASE v # w
    BY <1>2, <2>2 DEF Struck
  <2> QED
    BY <2>1, <2>2
<1> QED
  BY <1>1, <1>2 DEF Stored

\* An object is stored for a row that is to come.
LEMMA FileComes ==
    ASSUME IInv, TypeOK', NEW w \in Worker, NEW f \in File, rows[f] = "new",
           doing'[w].step \in Bringing,
           \/ doing[w] = Idle /\ doing'[w].files = {f}
           \/ doing[w].step \in Bringing /\ doing'[w].files = doing[w].files \union {f},
           Only(w, {f}), rows'[f] = "coming", objects' = objects \union {f},
           UNCHANGED <<erased, held, disturbed>>
    PROVE  IInv'
<1>1. /\ \A v \in Worker : CallKnown(v)
      /\ \A v \in Worker : doing[v] \in CallType /\ doing'[v] \in CallType
  BY DEF IInv, TypeOK
<1>2. ASSUME NEW v \in Worker, doing[v].step \in Bringing PROVE f \notin doing[v].files
  BY <1>1, <1>2 DEF CallKnown
<1>3. ASSUME NEW v \in Worker PROVE CallKnown(v)'
  <2>1. CASE v = w
    BY <1>1, <2>1 DEF CallKnown, Only, Bringing, Removing, CallType
  <2>2. CASE v # w
    <3>1. doing'[v] = doing[v] /\ CallKnown(v)
      BY <1>1, <2>2 DEF Only
    <3> QED
      BY <1>1, <3>1 DEF CallKnown, Only, CallType
  <2> QED
    BY <2>1, <2>2
<1>4. Apart'
  BY <1>2 DEF IInv, Apart, Only, Idle
<1>5. "loss" \notin disturbed => Kept'
  <2> SUFFICES ASSUME Kept PROVE Kept'
    BY DEF IInv
  <2>1. \A g \in held : g # f /\ g \in File
    BY DEF Kept, IInv, TypeOK
  <2>2. doing'[w].step \notin Removing
    BY DEF Bringing, Removing
  <2> QED
    BY <1>1, <2>1, <2>2 DEF Kept, Only, Removing, CallType, CallKnown
<1>6. "leftover" \notin disturbed => Minded'
  <2> SUFFICES ASSUME Minded PROVE Minded'
    BY DEF IInv
  <2>1. ASSUME NEW g \in objects'
        PROVE  rows'[g] \in {"staged", "attached"} \/ \E v \in Worker : Minds(v, g)'
    <3>1. CASE g = f
      BY <3>1 DEF Minds
    <3>2. CASE g # f
      <4>1. g \in objects /\ rows'[g] = rows[g]
        BY <3>2 DEF IInv, TypeOK, Only
      <4>2. ASSUME NEW v \in Worker, Minds(v, g) PROVE Minds(v, g)'
        BY <4>2 DEF Minds, Only, Idle, Bringing
      <4> QED
        BY <4>1, <4>2 DEF Minded
    <3> QED
      BY <3>1, <3>2
  <2>2. ASSUME NEW v \in Worker, v # w
        PROVE  /\ doing'[v].step \in {"clean", "cleanRows"} =>
                    (doing'[v].listed \ doing'[v].files) \cap objects' = {}
               /\ doing'[v].step = "cleanRows" => doing'[v].files = {}
               /\ doing'[v].step = "deleteRow" => doing'[v].files \cap objects' = {}
    BY <1>1, <2>2 DEF Minded, Only, CallKnown, Removing
  <2>3. doing'[w].step \notin Removing
    BY DEF Bringing, Removing
  <2> QED
    BY <2>1, <2>2, <2>3 DEF Minded, Removing
<1>7. erased' => held' = {}
  BY DEF IInv
<1>9. "loss" \notin disturbed' => Stored'
  <2>1. "loss" \notin disturbed' => Stored
    BY DEF IInv
  <2>2. \A g \in File : rows'[g] = "staged" =>
             /\ rows[g] = "staged" \/ g \in objects'
             /\ g \in objects \ objects' => Struck(w, g)'
             /\ Struck(w, g) => Struck(w, g)'
    BY <1>1 DEF Only, Struck, Idle, Bringing, IInv, TypeOK
  <2> QED
    BY <2>1, <2>2, StoredStays DEF Only
<1> QED
  BY <1>3, <1>4, <1>5, <1>6, <1>7, <1>9 DEF IInv

\* The rows of a call are inserted or given up.
LEMMA RowsSettle ==
    ASSUME IInv, TypeOK', NEW w \in Worker, doing[w].step \in Bringing,
           doing'[w].step \in {"idle", "takeBack"},
           doing'[w].files \subseteq doing[w].files,
           Only(w, doing[w].files),
           \A f \in doing[w].files : rows'[f] \in {"staged", "attached", "gone"},
           NEW used \in SUBSET doing[w].files, held' = held \union used,
           \A f \in used : rows'[f] = "attached", used # {} => ~erased,
           UNCHANGED <<objects, erased>>, disturbed \subseteq disturbed',
           "loss" \notin disturbed' /\ doing'[w].step = "takeBack" =>
             \A f \in doing'[w].files : rows'[f] = "gone",
           "leftover" \notin disturbed' => \A f \in doing[w].files :
             \/ rows'[f] \in {"staged", "attached"}
             \/ doing'[w].step = "takeBack" /\ f \in doing'[w].files
    PROVE  IInv'
<1>1. /\ \A v \in Worker : CallKnown(v)
      /\ \A v \in Worker : doing[v] \in CallType /\ doing'[v] \in CallType
  BY DEF IInv, TypeOK
<1>2. \A f \in doing[w].files : f \in File /\ rows[f] = "coming" /\ f \in objects
  BY <1>1 DEF CallKnown, CallType
<1>3. ASSUME NEW v \in Worker, v # w
      PROVE  /\ doing'[v] = doing[v]
             /\ doing[v].step \in Bringing =>
                  \A f \in doing[v].files : rows'[f] = rows[f]
             /\ doing[v].step \in Removing =>
                  \A f \in doing[v].files : rows'[f] = rows[f]
             /\ doing[v].step \in Removing \ {"takeBack"} =>
                  \A f \in doing[v].listed : rows'[f] = rows[f] /\ f \notin used
  BY <1>1, <1>2, <1>3 DEF IInv, Apart, Only, CallKnown, CallType
<1>4. ASSUME NEW v \in Worker PROVE CallKnown(v)'
  <2>1. CASE v = w
    BY <1>1, <2>1 DEF CallKnown, Bringing, Removing, CallType
  <2>2. CASE v # w
    <3>1. /\ doing'[v] = doing[v] /\ CallKnown(v)
          /\ doing[v].step \in {"erase", "purge"} =>
               \A f \in doing[v].listed : rows'[f] = rows[f]
      BY <1>1, <1>3, <2>2 DEF Removing
    <3> QED
      BY <1>3, <2>2, <3>1 DEF CallKnown
  <2> QED
    BY <2>1, <2>2
<1>5. Apart'
  BY <1>3 DEF IInv, Apart, Bringing
<1>6. "loss" \notin disturbed' => Kept'
  <2> SUFFICES ASSUME "loss" \notin disturbed' PROVE Kept'
    OBVIOUS
  <2>1. Kept
    BY DEF IInv
  <2>2. ASSUME NEW f \in held' PROVE rows'[f] = "attached" /\ f \in objects'
    <3>1. CASE f \in used
      BY <1>2, <3>1
    <3>2. CASE f \in held
      <4>1. f \notin doing[w].files /\ f \in File
        BY <1>2, <2>1, <3>2 DEF Kept, IInv, TypeOK
      <4> QED
        BY <2>1, <3>2, <4>1 DEF Kept, Only
    <3> QED
      BY <3>1, <3>2
  <2>3. ASSUME NEW v \in Worker
        PROVE  /\ doing'[v].step \in {"clean", "cleanRows", "delete", "deleteRow"} =>
                    doing'[v].listed \cap held' = {}
               /\ doing'[v].step = "takeBack" =>
                    \A f \in doing'[v].files : rows'[f] = "gone"
    <3>1. CASE v = w
      BY <3>1
    <3>2. CASE v # w
      BY <1>3, <2>1, <3>2 DEF Kept, Removing
    <3> QED
      BY <3>1, <3>2
  <2> QED
    BY <2>2, <2>3 DEF Kept
<1>7. "leftover" \notin disturbed' => Minded'
  <2> SUFFICES ASSUME "leftover" \notin disturbed' PROVE Minded'
    OBVIOUS
  <2>1. Minded
    BY DEF IInv
  <2>2. ASSUME NEW f \in objects
        PROVE  rows'[f] \in {"staged", "attached"} \/ \E v \in Worker : Minds(v, f)'
    <3>1. CASE f \in doing[w].files
      BY <3>1 DEF Minds
    <3>2. CASE f \notin doing[w].files
      <4>1. rows'[f] = rows[f]
        BY <3>2 DEF Only, IInv, TypeOK
      <4>2. ASSUME NEW v \in Worker, Minds(v, f) PROVE Minds(v, f)'
        BY <1>3, <3>2, <4>2 DEF Minds
      <4> QED
        BY <2>1, <4>1, <4>2 DEF Minded
    <3> QED
      BY <3>1, <3>2
  <2> QED
    BY <1>3, <2>1, <2>2 DEF Minded
<1>8. erased' => held' = {}
  BY DEF IInv
<1>9. "loss" \notin disturbed' => Stored'
  <2>1. "loss" \notin disturbed' => Stored
    BY DEF IInv
  <2>2. \A f \in File : rows'[f] = "staged" =>
             /\ rows[f] = "staged" \/ f \in objects'
             /\ f \in objects \ objects' => Struck(w, f)'
             /\ Struck(w, f) => Struck(w, f)'
    BY <1>1, <1>2 DEF Only, Struck, Bringing, IInv, TypeOK
  <2> QED
    BY <2>1, <2>2, StoredStays DEF Only
<1> QED
  BY <1>4, <1>5, <1>6, <1>7, <1>8, <1>9 DEF IInv

\* A call that deletes begins with rows that are there.
LEMMA RemovalBegins ==
    ASSUME IInv, TypeOK', NEW w \in Worker, doing[w] = Idle,
           doing'[w].step \in {"clean", "delete", "erase"},
           doing'[w].files = doing'[w].listed, Only(w, {}),
           \A f \in doing'[w].files :
             rows[f] = "attached" \/ (rows[f] = "staged" /\ doing'[w].step # "erase"),
           held' \subseteq held,
           doing'[w].step # "erase" /\ "loss" \notin disturbed =>
             doing'[w].listed \cap held' = {},
           UNCHANGED <<objects, erased, disturbed>>
    PROVE  IInv'
<1>1. /\ \A v \in Worker : CallKnown(v)
      /\ \A v \in Worker : doing[v] \in CallType /\ doing'[v] \in CallType
      /\ doing[w].step = "idle" /\ doing[w].files = {}
  BY IdleType DEF IInv, TypeOK
<1>2. /\ \A v \in Worker \ {w} : doing'[v] = doing[v]
      /\ \A f \in File : rows'[f] = rows[f]
  BY DEF Only
<1>3. ASSUME NEW v \in Worker PROVE CallKnown(v)'
  <2>1. CASE v = w
    BY <1>1, <1>2, <2>1 DEF CallKnown, Bringing, Removing, CallType
  <2>2. CASE v # w
    BY <1>1, <1>2, <2>2 DEF CallKnown, CallType
  <2> QED
    BY <2>1, <2>2
<1>4. Apart'
  BY <1>2 DEF IInv, Apart, Bringing
<1>5. "loss" \notin disturbed => Kept'
  <2> SUFFICES ASSUME "loss" \notin disturbed PROVE Kept'
    OBVIOUS
  <2>1. Kept
    BY DEF IInv
  <2>2. \A f \in held' : rows'[f] = "attached" /\ f \in objects'
    BY <1>2, <2>1 DEF Kept, IInv, TypeOK
  <2>3. ASSUME NEW v \in Worker, v # w
        PROVE  /\ doing'[v].step \in {"clean", "cleanRows", "delete", "deleteRow"} =>
                    doing'[v].listed \cap held' = {}
               /\ doing'[v].step = "takeBack" =>
                    \A f \in doing'[v].files : rows'[f] = "gone"
    <3>1. doing'[v] = doing[v]
      BY <1>2, <2>3
    <3> QED
      BY <1>1, <1>2, <2>1, <3>1 DEF Kept, CallType
  <2> QED
    BY <2>2, <2>3 DEF Kept
<1>6. "leftover" \notin disturbed => Minded'
  <2> SUFFICES ASSUME Minded PROVE Minded'
    BY DEF IInv
  <2>1. ASSUME NEW f \in objects, NEW v \in Worker, Minds(v, f) PROVE Minds(v, f)'
    BY <1>1, <1>2, <2>1 DEF Minds
  <2>2. \A f \in objects :
          rows'[f] \in {"staged", "attached"} \/ \E v \in Worker : Minds(v, f)'
    BY <1>2, <2>1 DEF Minded, IInv, TypeOK
  <2> QED
    BY <1>2, <2>2 DEF Minded
<1>7. erased' => held' = {}
  BY DEF IInv
<1>9. "loss" \notin disturbed' => Stored'
  <2>1. "loss" \notin disturbed' => Stored
    BY DEF IInv
  <2>2. \A f \in File : rows'[f] = "staged" =>
             /\ rows[f] = "staged" \/ f \in objects'
             /\ f \in objects \ objects' => Struck(w, f)'
             /\ Struck(w, f) => Struck(w, f)'
    BY <1>1, <1>2 DEF Struck
  <2> QED
    BY <2>1, <2>2, StoredStays DEF Only
<1> QED
  BY <1>3, <1>4, <1>5, <1>6, <1>7, <1>9 DEF IInv

\* A call goes on with fewer files; the objects of those it leaves are gone.
LEMMA ObjectsGo ==
    ASSUME IInv, TypeOK', NEW w \in Worker, doing[w].step \in Removing, Only(w, {}),
           doing'[w].listed = doing[w].listed \/ doing'[w].step = "idle",
           \/ doing'[w].step = doing[w].step /\ doing[w].step \in {"clean", "purge", "takeBack"}
           \/ doing[w].step = "delete" /\ doing'[w].step = "deleteRow"
                /\ doing'[w].files = doing[w].files
           \/ doing[w].step = "clean" /\ doing'[w].step = "cleanRows" /\ doing'[w].files = {}
           \/ doing'[w].step = "idle" /\ doing'[w].files = {},
           doing'[w].step = "idle" => doing[w].step \in {"delete", "purge", "takeBack"},
           doing'[w].files \subseteq doing[w].files,
           (objects \ objects') \cap doing'[w].files = {} \/ doing[w].step = "delete",
           objects' # objects => doing'[w].step # "idle",
           objects' \subseteq objects, objects \ objects' \subseteq doing[w].files,
           objects' # objects => doing[w].step \in {"clean", "purge", "takeBack", "delete"},
           UNCHANGED <<erased, held>>, disturbed \subseteq disturbed',
           "leftover" \notin disturbed' =>
             /\ doing[w].step # "delete" =>
                  (doing[w].files \ doing'[w].files) \cap objects' = {}
             /\ doing'[w].step = "deleteRow" => doing[w].files \cap objects' = {}
    PROVE  IInv'
<1>1. /\ \A v \in Worker : CallKnown(v)
      /\ \A v \in Worker : doing[v] \in CallType /\ doing'[v] \in CallType
  BY DEF IInv, TypeOK
<1>2. /\ \A v \in Worker \ {w} : doing'[v] = doing[v]
      /\ \A f \in File : rows'[f] = rows[f]
  BY DEF Only
<1>3. \A f \in objects \ objects' : f \in File /\ rows[f] \notin {"new", "coming"}
  BY <1>1 DEF CallKnown, CallType, IInv, TypeOK
<1>4. ASSUME NEW v \in Worker PROVE CallKnown(v)'
  <2>1. CASE v = w
    BY <1>1, <1>2, <2>1 DEF CallKnown, Bringing, Removing, CallType
  <2>2. CASE v # w
    BY <1>1, <1>2, <1>3, <2>2 DEF CallKnown, CallType
  <2> QED
    BY <2>1, <2>2
<1>5. Apart'
  BY <1>2 DEF IInv, Apart, Bringing, Removing
<1>6. "loss" \notin disturbed' => Kept'
  <2> SUFFICES ASSUME "loss" \notin disturbed' PROVE Kept'
    OBVIOUS
  <2>1. Kept
    BY DEF IInv
  <2>2. ASSUME NEW f \in held PROVE f \in objects'
    <3>1. rows[f] = "attached" /\ f \in objects /\ (erased => held = {})
      BY <2>1 DEF Kept, IInv
    <3>2. doing[w].step # "purge"
      BY <1>1, <3>1 DEF CallKnown
    <3>3. doing[w].step \in {"clean", "takeBack", "delete"} => f \notin doing[w].files
      BY <1>1, <2>1, <3>1 DEF Kept, CallKnown, Removing
    <3> QED
      BY <3>1, <3>2, <3>3
  <2>3. \A f \in held : rows'[f] = "attached"
    BY <1>2, <2>1 DEF Kept, IInv, TypeOK
  <2>4. ASSUME NEW v \in Worker
        PROVE  /\ doing'[v].step \in {"clean", "cleanRows", "delete", "deleteRow"} =>
                    doing'[v].listed \cap held' = {}
               /\ doing'[v].step = "takeBack" =>
                    \A f \in doing'[v].files : rows'[f] = "gone"
    <3>1. CASE v # w
      BY <1>1, <1>2, <2>1, <3>1 DEF Kept, CallType
    <3>2. CASE v = w
      BY <1>1, <1>2, <2>1, <3>2 DEF Kept, CallType
    <3> QED
      BY <3>1, <3>2
  <2> QED
    BY <2>2, <2>3, <2>4 DEF Kept
<1>7. "leftover" \notin disturbed' => Minded'
  <2> SUFFICES ASSUME "leftover" \notin disturbed' PROVE Minded'
    OBVIOUS
  <2>1. Minded
    BY DEF IInv
  <2>2. ASSUME NEW f \in objects'
        PROVE  rows'[f] \in {"staged", "attached"} \/ \E v \in Worker : Minds(v, f)'
    <3>1. ASSUME NEW v \in Worker, Minds(v, f) PROVE Minds(v, f)'
      <4>1. CASE v # w
        BY <1>2, <3>1, <4>1 DEF Minds
      <4>2. CASE v = w
        <5>1. doing[w].step \in {"purge", "takeBack"} /\ f \in doing'[w].files
          BY <2>2, <3>1, <4>2 DEF Minds, Bringing, Removing
        <5> QED
          BY <4>2, <5>1 DEF Minds
      <4> QED
        BY <4>1, <4>2
    <3> QED
      BY <1>2, <2>1, <2>2, <3>1 DEF Minded, IInv, TypeOK
  <2>3. ASSUME NEW v \in Worker
        PROVE  /\ doing'[v].step \in {"clean", "cleanRows"} =>
                    (doing'[v].listed \ doing'[v].files) \cap objects' = {}
               /\ doing'[v].step = "cleanRows" => doing'[v].files = {}
               /\ doing'[v].step = "deleteRow" => doing'[v].files \cap objects' = {}
    <3>1. CASE v # w
      BY <1>2, <2>1, <3>1 DEF Minded
    <3>2. CASE v = w
      BY <2>1, <3>2 DEF Minded
    <3> QED
      BY <3>1, <3>2
  <2> QED
    BY <2>2, <2>3 DEF Minded
<1>8. erased' => held' = {}
  BY DEF IInv
<1>9. "loss" \notin disturbed' => Stored'
  <2> SUFFICES ASSUME "loss" \notin disturbed' PROVE Stored'
    OBVIOUS
  <2>1. Kept /\ Stored
    BY DEF IInv
  <2>2. ASSUME NEW f \in File, rows[f] = "staged", f \in objects \ objects'
        PROVE  Struck(w, f)'
    <3>1. doing[w].step # "purge" /\ doing[w].step # "takeBack" /\ f \in doing[w].files
      BY <1>1, <2>1, <2>2 DEF Kept, CallKnown, Removing
    <3>2. f \in doing[w].listed /\ doing'[w].listed = doing[w].listed
      BY <1>1, <2>2, <3>1 DEF CallKnown, Removing
    <3>3. CASE doing[w].step = "delete"
      BY <2>2, <3>2, <3>3 DEF Struck
    <3>4. CASE doing[w].step = "clean"
      BY <2>2, <3>2, <3>4 DEF Struck
    <3> QED
      BY <2>2, <3>1, <3>3, <3>4
  <2>3. ASSUME NEW f \in File, Struck(w, f) PROVE Struck(w, f)'
    <3>1. doing[w].step = "clean" /\ f \in doing[w].listed /\ f \notin doing[w].files
      BY <2>3 DEF Struck
    <3> QED
      BY <3>1 DEF Struck
  <2> QED
    BY <1>2, <2>1, <2>2, <2>3, StoredStays
<1> QED
  BY <1>4, <1>5, <1>6, <1>7, <1>8, <1>9 DEF IInv

\* Rows go whose objects went before.
LEMMA RowsGo ==
    ASSUME IInv, TypeOK', NEW w \in Worker, doing[w].step \in {"cleanRows", "deleteRow"},
           doing'[w] = Idle, Only(w, doing[w].listed),
           \A f \in doing[w].listed : rows'[f] = "gone",
           UNCHANGED <<objects, erased, held, disturbed>>
    PROVE  IInv'
<1>1. /\ \A v \in Worker : CallKnown(v)
      /\ \A v \in Worker : doing[v] \in CallType /\ doing'[v] \in CallType
      /\ doing'[w].step = "idle"
  BY IdleType DEF IInv, TypeOK
<1>2. \A f \in doing[w].listed : f \in File /\ rows[f] \notin {"new", "coming"}
  BY <1>1 DEF CallKnown, CallType, Removing
<1>3. /\ \A v \in Worker \ {w} : doing'[v] = doing[v]
      /\ \A f \in File : rows'[f] = rows[f] \/ (f \in doing[w].listed /\ rows'[f] = "gone")
  BY DEF Only
<1>4. ASSUME NEW v \in Worker PROVE CallKnown(v)'
  <2>1. CASE v = w
    BY <1>1, <2>1 DEF CallKnown, Bringing, Removing
  <2>2. CASE v # w
    BY <1>1, <1>2, <1>3, <2>2 DEF CallKnown, CallType
  <2> QED
    BY <2>1, <2>2
<1>5. Apart'
  BY <1>1, <1>3 DEF IInv, Apart, Bringing
<1>6. "loss" \notin disturbed => Kept'
  <2> SUFFICES ASSUME Kept PROVE Kept'
    BY DEF IInv
  <2>1. doing[w].listed \cap held = {}
    BY DEF Kept
  <2> QED
    BY <1>1, <1>3, <2>1 DEF Kept, IInv, TypeOK, CallType
<1>7. "leftover" \notin disturbed => Minded'
  <2> SUFFICES ASSUME Minded PROVE Minded'
    BY DEF IInv
  <2>1. doing[w].listed \cap objects = {}
    BY <1>1 DEF Minded, CallKnown
  <2>2. ASSUME NEW f \in objects
        PROVE  rows'[f] \in {"staged", "attached"} \/ \E v \in Worker : Minds(v, f)'
    <3>1. rows'[f] = rows[f]
      BY <1>3, <2>1 DEF IInv, TypeOK
    <3>2. ASSUME NEW v \in Worker, Minds(v, f) PROVE Minds(v, f)'
      BY <1>3, <3>2 DEF Minds, Bringing
    <3> QED
      BY <3>1, <3>2 DEF Minded
  <2> QED
    BY <1>1, <1>3, <2>2 DEF Minded
<1>8. erased' => held' = {}
  BY DEF IInv
<1>9. "loss" \notin disturbed' => Stored'
  <2>1. "loss" \notin disturbed' => Stored
    BY DEF IInv
  <2>2. \A f \in File : rows'[f] = "staged" =>
             /\ rows[f] = "staged" \/ f \in objects'
             /\ f \in objects \ objects' => Struck(w, f)'
             /\ Struck(w, f) => Struck(w, f)'
    BY <1>1, <1>3 DEF Struck
  <2> QED
    BY <2>1, <2>2, StoredStays DEF Only
<1> QED
  BY <1>4, <1>5, <1>6, <1>7, <1>8, <1>9 DEF IInv

LEMMA EraseKnown ==
    ASSUME IInv, TypeOK', NEW w \in Worker, EraseWorkspace(w)
    PROVE  IInv'
<1>1. /\ \A v \in Worker : CallKnown(v)
      /\ \A v \in Worker : doing[v] \in CallType /\ doing'[v] \in CallType
  BY DEF IInv, TypeOK
<1>2. /\ doing[w].step = "erase" /\ erased' /\ held' = {} /\ objects' = objects
      /\ doing[w].files = doing[w].listed
  BY <1>1 DEF EraseWorkspace, CallKnown
<1>3. /\ doing'[w].step = "purge" /\ doing'[w].files = doing[w].files
      /\ doing'[w].listed = doing[w].listed
      /\ \A v \in Worker \ {w} : doing'[v] = doing[v]
  BY <1>1 DEF EraseWorkspace, Goes, IInv, TypeOK, CallType
<1>4. \A f \in File : rows'[f] = IF rows[f] = "attached" THEN "gone" ELSE rows[f]
  BY DEF EraseWorkspace, Turn, Attached
<1>5. ASSUME NEW v \in Worker PROVE CallKnown(v)'
  <2>1. CASE v = w
    BY <1>1, <1>2, <1>3, <1>4, <2>1 DEF CallKnown, Bringing, Removing, CallType
  <2>2. CASE v # w
    BY <1>1, <1>2, <1>3, <1>4, <2>2 DEF CallKnown, CallType
  <2> QED
    BY <2>1, <2>2
<1>6. Apart'
  BY <1>3 DEF IInv, Apart, Bringing
<1>7. "loss" \notin disturbed' => Kept'
  <2> SUFFICES ASSUME "loss" \notin disturbed' PROVE Kept'
    OBVIOUS
  <2>1. Kept
    BY DEF IInv, EraseWorkspace
  <2>2. ASSUME NEW v \in Worker, doing'[v].step = "takeBack"
        PROVE  \A f \in doing'[v].files : rows'[f] = "gone"
    BY <1>1, <1>3, <1>4, <2>1, <2>2 DEF Kept, CallType
  <2> QED
    BY <1>2, <2>2 DEF Kept
<1>8. "leftover" \notin disturbed' => Minded'
  <2> SUFFICES ASSUME "leftover" \notin disturbed' PROVE Minded'
    OBVIOUS
  <2>1. Minded /\ Attached \subseteq doing[w].listed
    BY DEF IInv, EraseWorkspace
  <2>2. ASSUME NEW f \in objects
        PROVE  rows'[f] \in {"staged", "attached"} \/ \E v \in Worker : Minds(v, f)'
    <3>1. f \in File
      BY DEF IInv, TypeOK
    <3>2. CASE rows[f] = "attached"
      BY <1>2, <1>3, <2>1, <3>1, <3>2 DEF Attached, Minds
    <3>3. CASE rows[f] # "attached"
      <4>1. ASSUME NEW v \in Worker, Minds(v, f) PROVE Minds(v, f)'
        BY <1>2, <1>3, <4>1 DEF Minds, Bringing
      <4> QED
        BY <1>4, <2>1, <3>1, <3>3, <4>1 DEF Minded
    <3> QED
      BY <3>2, <3>3
  <2> QED
    BY <1>2, <1>3, <2>1, <2>2 DEF Minded
<1>9. "loss" \notin disturbed' => Stored'
  <2>1. "loss" \notin disturbed' => Stored
    BY DEF IInv, EraseWorkspace
  <2>2. \A f \in File : rows'[f] = "staged" =>
             /\ rows[f] = "staged" \/ f \in objects'
             /\ f \in objects \ objects' => Struck(w, f)'
             /\ Struck(w, f) => Struck(w, f)'
    BY <1>1, <1>2, <1>3, <1>4 DEF Struck
  <2> QED
    BY <1>3, <2>1, <2>2, StoredStays
<1> QED
  BY <1>2, <1>5, <1>6, <1>7, <1>8, <1>9 DEF IInv

\* A claim turns uploads that no call is about to delete, or owns up to a loss.
LEMMA ClaimKnown ==
    ASSUME IInv, TypeOK', NEW files \in SUBSET File, Claim(files)
    PROVE  IInv'
<1>1. /\ \A v \in Worker : CallKnown(v)
      /\ \A v \in Worker : doing[v] \in CallType
      /\ UNCHANGED <<erased, objects, doing>> /\ ~erased /\ held' = held \union files
  BY DEF Claim, site, IInv, TypeOK
<1>2. \A f \in File : rows'[f] = IF f \in files THEN "attached" ELSE rows[f]
  BY DEF Claim, Turn
<1>3. \A f \in files : rows[f] = "staged"
  BY DEF Claim, Staged
<1>4. ASSUME NEW v \in Worker PROVE CallKnown(v)'
  BY <1>1, <1>2, <1>3 DEF CallKnown, CallType
<1>5. Apart'
  BY <1>1 DEF IInv, Apart
<1>6. "loss" \notin disturbed' => Kept'
  <2> SUFFICES ASSUME "loss" \notin disturbed' PROVE Kept'
    OBVIOUS
  <2>1. Kept /\ Stored /\ \A f \in files : ~Doomed(f)
    BY DEF Claim, IInv
  <2>2. \A f \in files : f \in objects
    BY <1>3, <2>1 DEF Stored, Struck, Doomed, Deleting
  <2> QED
    BY <1>1, <1>2, <1>3, <2>1, <2>2 DEF Kept, Doomed, Deleting, IInv, TypeOK, CallType
<1>7. "leftover" \notin disturbed' => Minded'
  BY <1>1, <1>2 DEF IInv, TypeOK, Minded, Minds, Claim
<1>8. erased' => held' = {}
  BY <1>1
<1>9. "loss" \notin disturbed' => Stored'
  <2>1. "loss" \notin disturbed' => Stored
    BY DEF Claim, IInv
  <2> QED
    BY <1>1, <1>2, <2>1 DEF Stored, Struck
<1> QED
  BY <1>4, <1>5, <1>6, <1>7, <1>8, <1>9 DEF IInv

------------------------------------------------------------------------------
(***************************************************************************)
(* Every action is a step of one of these kinds.                           *)
(***************************************************************************)
\* An idle worker takes a step on.
LEMMA BeginsType ==
    ASSUME TypeOK, NEW w \in Worker, NEW files \in SUBSET File,
           NEW step \in {"stage", "attach", "import", "clean", "delete", "erase"},
           Begins(w, step, files)
    PROVE  /\ doing[w] = Idle /\ doing' \in [Worker -> CallType]
           /\ doing'[w] = [step |-> step, files |-> files, listed |-> files]
           /\ \A v \in Worker \ {w} : doing'[v] = doing[v]
<1>1. [step |-> step, files |-> files, listed |-> files] \in CallType
  BY DEF CallType
<1> QED
  BY <1>1, CallsType DEF Begins

\* A worker goes on to another step, with these files left, or both.
LEMMA GoesType ==
    ASSUME TypeOK, NEW w \in Worker, NEW files \in SUBSET File,
           NEW step \in {"import", "takeBack", "clean", "cleanRows", "deleteRow", "purge"},
           \/ doing' = [doing EXCEPT ![w].step = step] /\ files = doing[w].files
           \/ doing' = [doing EXCEPT ![w].files = files] /\ step = doing[w].step
           \/ doing' = [doing EXCEPT ![w].step = step, ![w].files = files]
    PROVE  /\ doing' \in [Worker -> CallType]
           /\ doing'[w].step = step /\ doing'[w].files = files
           /\ doing'[w].listed = doing[w].listed
           /\ \A v \in Worker \ {w} : doing'[v] = doing[v]
<1>1. doing' = [doing EXCEPT ![w] = [step |-> step, files |-> files,
                                    listed |-> doing[w].listed]]
  <2>1. doing \in [Worker -> CallType] /\ doing[w] \in CallType
    BY DEF TypeOK
  <2>2. CASE doing' = [doing EXCEPT ![w].step = step] /\ files = doing[w].files
    <3>1. [doing[w] EXCEPT !.step = step] =
            [step |-> step, files |-> files, listed |-> doing[w].listed]
      BY <2>1, <2>2 DEF CallType
    <3> QED
      BY <2>1, <2>2, <3>1
  <2>3. CASE doing' = [doing EXCEPT ![w].files = files] /\ step = doing[w].step
    <3>1. [doing[w] EXCEPT !.files = files] =
            [step |-> step, files |-> files, listed |-> doing[w].listed]
      BY <2>1, <2>3 DEF CallType
    <3> QED
      BY <2>1, <2>3, <3>1
  <2>4. CASE doing' = [doing EXCEPT ![w].step = step, ![w].files = files]
    <3>1. [doing[w] EXCEPT !.step = step, !.files = files] =
            [step |-> step, files |-> files, listed |-> doing[w].listed]
      <4>1. [doing[w] EXCEPT !.step = step] =
              [step |-> step, files |-> doing[w].files, listed |-> doing[w].listed]
        BY <2>1 DEF CallType
      <4>2. [[step |-> step, files |-> doing[w].files, listed |-> doing[w].listed]
              EXCEPT !.files = files] =
              [step |-> step, files |-> files, listed |-> doing[w].listed]
        OBVIOUS
      <4> QED
        BY <4>1, <4>2
    <3>2. doing' = [doing EXCEPT ![w] = [doing[w] EXCEPT !.step = step, !.files = files]]
      BY <2>1, <2>4
    <3> QED
      BY <3>1, <3>2
  <2> QED
    BY <2>2, <2>3, <2>4
<1>2. [step |-> step, files |-> files, listed |-> doing[w].listed] \in CallType
  BY DEF CallType, TypeOK
<1> QED
  BY <1>1, <1>2, CallsType

LEMMA EndsType ==
    ASSUME TypeOK, NEW w \in Worker, Ends(w)
    PROVE  /\ doing' \in [Worker -> CallType] /\ doing'[w] = Idle
           /\ doing'[w].step = "idle" /\ doing'[w].files = {}
           /\ \A v \in Worker \ {w} : doing'[v] = doing[v]
<1> QED
  BY CallsType, IdleType DEF Ends

\* The step and the files of a call have their types.
LEMMA CallOf ==
    ASSUME TypeOK, NEW w \in Worker
    PROVE  doing[w] \in CallType /\ doing[w].files \subseteq File /\ doing[w].listed \subseteq File
<1> QED
  BY DEF TypeOK, CallType

LEMMA UploadKept ==
    ASSUME IInv, NEW w \in Worker, NEW f \in File,
           NEW step \in Bringing, Upload(w, f, step)
    PROVE  IInv'
<1>1. TypeOK
  BY DEF IInv
<1>2. /\ doing[w] = Idle /\ doing' \in [Worker -> CallType]
      /\ doing'[w] = [step |-> step, files |-> {f}, listed |-> {f}]
      /\ \A v \in Worker \ {w} : doing'[v] = doing[v]
  <2>1. /\ Begins(w, step, {f}) /\ {f} \in SUBSET File
        /\ step \in {"stage", "attach", "import", "clean", "delete", "erase"}
    BY DEF Upload, Bringing
  <2> QED
    BY <1>1, <2>1, BeginsType
<1>3. /\ rows' \in [File -> States] /\ stagedAt' \in [File -> 0..MaxTime]
      /\ \A g \in File : rows'[g] = IF g \in {f} THEN "coming" ELSE rows[g]
  BY <1>1, TurnType DEF Upload, States
<1>4. TypeOK'
  BY <1>1, <1>2, <1>3 DEF Upload, TypeOK, States, site
<1> QED
  BY <1>2, <1>3, <1>4, FileComes DEF Upload, Only, site

LEMMA StoreAnotherKept ==
    ASSUME IInv, NEW w \in Worker, NEW f \in File, StoreAnother(w, f)
    PROVE  IInv'
<1>1. TypeOK /\ doing[w].files \subseteq File /\ doing[w].step = "import"
  BY CallOf DEF IInv, StoreAnother
<1>2. /\ doing' = [doing EXCEPT ![w].files = doing[w].files \union {f}]
      /\ doing[w].files \union {f} \in SUBSET File
  BY <1>1 DEF StoreAnother, TypeOK
<1>3. /\ doing' \in [Worker -> CallType]
      /\ doing'[w].step = "import" /\ doing'[w].files = doing[w].files \union {f}
      /\ \A v \in Worker \ {w} : doing'[v] = doing[v]
  BY <1>1, <1>2, GoesType
<1>4. /\ rows' \in [File -> States] /\ stagedAt' \in [File -> 0..MaxTime]
      /\ \A g \in File : rows'[g] = IF g \in {f} THEN "coming" ELSE rows[g]
  BY <1>1, TurnType DEF StoreAnother, States
<1>5. TypeOK'
  BY <1>1, <1>3, <1>4 DEF StoreAnother, TypeOK, States, site
<1> QED
  BY <1>1, <1>3, <1>4, <1>5, FileComes DEF StoreAnother, Only, Bringing, site

LEMMA InsertStagedKept ==
    ASSUME IInv, NEW w \in Worker, InsertStaged(w)
    PROVE  IInv'
<1>1. /\ TypeOK /\ doing[w].files \subseteq File
      /\ Turn(doing[w].files, "staged") /\ Ends(w) /\ doing[w].step \in Bringing
  BY CallOf DEF IInv, InsertStaged, Bringing
<1>2. /\ doing' \in [Worker -> CallType] /\ doing'[w].step = "idle" /\ doing'[w].files = {}
      /\ \A v \in Worker \ {w} : doing'[v] = doing[v]
  BY <1>1, EndsType
<1>3. /\ rows' \in [File -> States] /\ stagedAt' \in [File -> 0..MaxTime]
      /\ \A g \in File : rows'[g] = IF g \in doing[w].files THEN "staged" ELSE rows[g]
  BY <1>1, TurnType DEF States
<1>4. TypeOK'
  BY <1>1, <1>2, <1>3 DEF InsertStaged, TypeOK, States, site
<1>5. /\ Only(w, doing[w].files) /\ {} \in SUBSET doing[w].files
      /\ \A f \in doing[w].files : rows'[f] = "staged"
  BY <1>1, <1>2, <1>3 DEF Only
<1>6. /\ held' = held \union {} /\ UNCHANGED <<objects, erased>>
      /\ disturbed \subseteq disturbed' /\ ({} # {} => ~erased)
  BY DEF InsertStaged, site
<1> QED
  BY <1>1, <1>2, <1>4, <1>5, <1>6, RowsSettle

LEMMA InsertAttachedKept ==
    ASSUME IInv, NEW w \in Worker, InsertAttached(w)
    PROVE  IInv'
<1>1. /\ TypeOK /\ doing[w].files \subseteq File
      /\ Turn(doing[w].files, "attached") /\ Ends(w) /\ doing[w].step \in Bringing
  BY CallOf DEF IInv, InsertAttached, Bringing
<1>2. /\ doing' \in [Worker -> CallType] /\ doing'[w].step = "idle" /\ doing'[w].files = {}
      /\ \A v \in Worker \ {w} : doing'[v] = doing[v]
  BY <1>1, EndsType
<1>3. /\ rows' \in [File -> States] /\ stagedAt' \in [File -> 0..MaxTime]
      /\ \A g \in File : rows'[g] = IF g \in doing[w].files THEN "attached" ELSE rows[g]
  BY <1>1, TurnType DEF States
<1>4. TypeOK'
  BY <1>1, <1>2, <1>3 DEF InsertAttached, TypeOK, States, site
<1>5. /\ Only(w, doing[w].files) /\ doing[w].files \in SUBSET doing[w].files
      /\ \A f \in doing[w].files : rows'[f] = "attached"
  BY <1>1, <1>2, <1>3 DEF Only
<1>6. /\ held' = held \union doing[w].files /\ UNCHANGED <<objects, erased>>
      /\ disturbed \subseteq disturbed' /\ (doing[w].files # {} => ~erased)
  BY DEF InsertAttached, site
<1> QED
  BY <1>1, <1>2, <1>4, <1>5, <1>6, RowsSettle

LEMMA InsertFailsKept ==
    ASSUME IInv, NEW w \in Worker, InsertFails(w)
    PROVE  IInv'
<1>1. /\ TypeOK /\ doing[w].files \subseteq File
      /\ Turn(doing[w].files, "gone") /\ Ends(w) /\ doing[w].step \in Bringing
  BY CallOf DEF IInv, InsertFails, Bringing
<1>2. /\ doing' \in [Worker -> CallType] /\ doing'[w].step = "idle" /\ doing'[w].files = {}
      /\ \A v \in Worker \ {w} : doing'[v] = doing[v]
  BY <1>1, EndsType
<1>3. /\ rows' \in [File -> States] /\ stagedAt' \in [File -> 0..MaxTime]
      /\ \A g \in File : rows'[g] = IF g \in doing[w].files THEN "gone" ELSE rows[g]
  BY <1>1, TurnType DEF States
<1>4. TypeOK'
  BY <1>1, <1>2, <1>3 DEF InsertFails, TypeOK, States, site
<1>5. /\ Only(w, doing[w].files) /\ {} \in SUBSET doing[w].files
      /\ \A f \in doing[w].files : rows'[f] = "gone"
  BY <1>1, <1>2, <1>3 DEF Only
<1>6. /\ held' = held \union {} /\ UNCHANGED <<objects, erased>>
      /\ disturbed \subseteq disturbed' /\ ({} # {} => ~erased)
  BY DEF InsertFails, site
<1> QED
  BY <1>1, <1>2, <1>4, <1>5, <1>6, RowsSettle DEF InsertFails

LEMMA InsertsKept ==
    ASSUME IInv, NEW w \in Worker, NEW used \in SUBSET doing[w].files,
           CommitImport(w, used) \/ CommitUnanswered(w, used)
    PROVE  IInv'
<1>1. /\ TypeOK /\ doing[w].files \subseteq File /\ doing[w].files \ used \subseteq File
      /\ Inserts(w, used) /\ doing[w].step = "import"
  BY CallOf DEF IInv, CommitImport, CommitUnanswered, Inserts
<1>2. /\ doing' \in [Worker -> CallType] /\ doing'[w].step = "takeBack"
      /\ doing'[w].files = doing[w].files \ used \/ doing'[w].files = doing[w].files
      /\ CommitImport(w, used) => doing'[w].files = doing[w].files \ used
      /\ CommitUnanswered(w, used) => doing'[w].files = doing[w].files
      /\ \A v \in Worker \ {w} : doing'[v] = doing[v]
  <2>1. ASSUME CommitImport(w, used)
        PROVE  /\ doing' \in [Worker -> CallType] /\ doing'[w].step = "takeBack"
               /\ doing'[w].files = doing[w].files \ used
               /\ \A v \in Worker \ {w} : doing'[v] = doing[v]
    BY <1>1, <2>1, GoesType DEF CommitImport, TakesBack
  <2>2. ASSUME CommitUnanswered(w, used)
        PROVE  /\ doing' \in [Worker -> CallType] /\ doing'[w].step = "takeBack"
               /\ doing'[w].files = doing[w].files
               /\ \A v \in Worker \ {w} : doing'[v] = doing[v]
    BY <1>1, <2>2, GoesType DEF CommitUnanswered, TakesBack
  <2>3. CASE CommitImport(w, used) /\ ~CommitUnanswered(w, used)
    BY <2>1, <2>3
  <2>4. CASE CommitUnanswered(w, used) /\ ~CommitImport(w, used)
    BY <2>2, <2>4
  <2>5. CASE CommitImport(w, used) /\ CommitUnanswered(w, used)
    BY <2>1, <2>2, <2>5
  <2> QED
    BY <2>3, <2>4, <2>5
<1>3. /\ rows' \in [File -> States]
      /\ \A f \in used : rows'[f] = "attached"
      /\ \A f \in doing[w].files \ used : rows'[f] = "gone"
      /\ \A f \in File \ doing[w].files : rows'[f] = rows[f]
  BY <1>1 DEF Inserts, TypeOK, States
<1>4. TypeOK'
  BY <1>1, <1>2, <1>3 DEF Inserts, CommitImport, CommitUnanswered, TypeOK, States, site
<1>5. /\ held' = held \union used /\ UNCHANGED <<objects, erased>> /\ ~erased
      /\ disturbed \subseteq disturbed'
      /\ CommitImport(w, used) \/ "loss" \in disturbed'
  BY <1>1 DEF Inserts, CommitImport, CommitUnanswered, site
<1>6. /\ doing[w].step \in Bringing /\ doing'[w].files \subseteq doing[w].files
      /\ Only(w, doing[w].files)
      /\ \A f \in doing[w].files : rows'[f] \in {"staged", "attached", "gone"}
  BY <1>1, <1>2, <1>3 DEF Bringing, Only
<1>7. /\ "loss" \notin disturbed' => \A f \in doing'[w].files : rows'[f] = "gone"
      /\ \A f \in doing[w].files : rows'[f] = "attached" \/ f \in doing'[w].files
  BY <1>2, <1>3, <1>5
<1> QED
  BY <1>2, <1>3, <1>4, <1>5, <1>6, <1>7, RowsSettle

LEMMA RollBackKept ==
    ASSUME IInv, NEW w \in Worker, RollBackImport(w)
    PROVE  IInv'
<1>1. /\ TypeOK /\ doing[w].files \subseteq File /\ doing[w].step = "import"
      /\ Turn(doing[w].files, "gone") /\ TakesBack(w, doing[w].files)
  BY CallOf DEF IInv, RollBackImport
<1>2. /\ doing' \in [Worker -> CallType] /\ doing'[w].step = "takeBack"
      /\ doing'[w].files = doing[w].files
      /\ \A v \in Worker \ {w} : doing'[v] = doing[v]
  BY <1>1, GoesType DEF TakesBack
<1>3. /\ rows' \in [File -> States] /\ stagedAt' \in [File -> 0..MaxTime]
      /\ \A g \in File : rows'[g] = IF g \in doing[w].files THEN "gone" ELSE rows[g]
  BY <1>1, TurnType DEF States
<1>4. TypeOK'
  BY <1>1, <1>2, <1>3 DEF RollBackImport, TypeOK, States, site
<1>5. /\ Only(w, doing[w].files) /\ {} \in SUBSET doing[w].files
      /\ \A f \in doing[w].files : rows'[f] = "gone"
      /\ doing[w].step \in Bringing
  BY <1>1, <1>2, <1>3 DEF Only, Bringing
<1>6. held' = held \union {} /\ UNCHANGED <<objects, erased, disturbed>>
  BY DEF RollBackImport, site
<1> QED
  BY <1>2, <1>4, <1>5, <1>6, RowsSettle

LEMMA FindExpiredKept ==
    ASSUME IInv, NEW w \in Worker, FindExpired(w)
    PROVE  IInv'
<1>1. /\ TypeOK /\ Expired \in SUBSET File /\ Begins(w, "clean", Expired)
      /\ UNCHANGED <<rows, stagedAt, objects, erased, crashes, now, disturbed>>
      /\ held' \subseteq held
  BY DEF IInv, FindExpired, site, Expired, Staged
<1>2. /\ doing[w] = Idle /\ doing' \in [Worker -> CallType]
      /\ doing'[w] = [step |-> "clean", files |-> Expired, listed |-> Expired]
      /\ \A v \in Worker \ {w} : doing'[v] = doing[v]
  BY <1>1, BeginsType
<1>3. TypeOK'
  BY <1>1, <1>2 DEF TypeOK
<1>4. "loss" \notin disturbed => Expired \cap held = {}
  BY DEF IInv, Kept, Expired, Staged
<1>5. /\ doing'[w].step = "clean" /\ doing'[w].files = Expired /\ doing'[w].listed = Expired
      /\ \A f \in Expired : rows[f] = "staged"
      /\ Only(w, {})
      /\ "loss" \notin disturbed => Expired \cap held' = {}
  BY <1>1, <1>2, <1>4 DEF Only, Expired, Staged
<1> QED
  BY <1>1, <1>2, <1>3, <1>5, RemovalBegins

LEMMA AskToDeleteKept ==
    ASSUME IInv, NEW w \in Worker, NEW f \in File, AskToDelete(w, f)
    PROVE  IInv'
<1>1. /\ TypeOK /\ {f} \in SUBSET File /\ Begins(w, "delete", {f})
      /\ UNCHANGED <<rows, stagedAt, objects, erased, crashes, now, disturbed>>
      /\ held' \subseteq held
  BY DEF IInv, AskToDelete, site
<1>2. /\ doing[w] = Idle /\ doing' \in [Worker -> CallType]
      /\ doing'[w] = [step |-> "delete", files |-> {f}, listed |-> {f}]
      /\ \A v \in Worker \ {w} : doing'[v] = doing[v]
  BY <1>1, BeginsType
<1>3. TypeOK'
  BY <1>1, <1>2 DEF TypeOK
<1>4. /\ {f} \cap held' = {}
      /\ rows[f] \in {"staged", "attached"}
  BY DEF AskToDelete, Staged, Attached
<1>5. /\ doing'[w].step = "delete" /\ doing'[w].files = {f} /\ doing'[w].listed = {f}
  BY <1>2
<1> QED
  BY <1>1, <1>2, <1>3, <1>4, <1>5, RemovalBegins DEF Only

LEMMA ListKeysKept ==
    ASSUME IInv, NEW w \in Worker, ListKeys(w)
    PROVE  IInv'
<1>1. /\ TypeOK /\ Attached \in SUBSET File /\ Begins(w, "erase", Attached)
      /\ UNCHANGED <<rows, stagedAt, objects, erased, crashes, now, disturbed>>
      /\ held' \subseteq held
  BY DEF IInv, ListKeys, site, Attached
<1>2. /\ doing[w] = Idle /\ doing' \in [Worker -> CallType]
      /\ doing'[w] = [step |-> "erase", files |-> Attached, listed |-> Attached]
      /\ \A v \in Worker \ {w} : doing'[v] = doing[v]
  BY <1>1, BeginsType
<1>3. TypeOK'
  BY <1>1, <1>2 DEF TypeOK
<1>4. /\ doing'[w].step = "erase" /\ doing'[w].files = Attached /\ doing'[w].listed = Attached
      /\ \A f \in Attached : rows[f] = "attached"
      /\ Only(w, {})
  BY <1>1, <1>2 DEF Only, Attached
<1> QED
  BY <1>1, <1>2, <1>3, <1>4, RemovalBegins

LEMMA DeleteObjectKept ==
    ASSUME IInv, NEW w \in Worker, NEW f \in File, DeleteObject(w, f)
    PROVE  IInv'
<1>1. /\ TypeOK /\ doing[w].files \subseteq File /\ doing[w].files \ {f} \in SUBSET File
      /\ doing[w].step \in {"clean", "purge", "takeBack"} /\ f \in doing[w].files
      /\ doing' = [doing EXCEPT ![w].files = doing[w].files \ {f}]
  BY CallOf DEF IInv, DeleteObject, TypeOK
<1>2. /\ doing' \in [Worker -> CallType] /\ doing'[w].step = doing[w].step
      /\ doing'[w].files = doing[w].files \ {f} /\ doing'[w].listed = doing[w].listed
      /\ \A v \in Worker \ {w} : doing'[v] = doing[v]
  BY <1>1, GoesType
<1>3. /\ UNCHANGED <<rows, stagedAt, erased, crashes, now, held>>
      /\ \/ objects' = objects \ {f} /\ UNCHANGED disturbed
         \/ disturbed' = disturbed \union {"leftover"} /\ UNCHANGED objects
  BY DEF DeleteObject, site
<1>4. TypeOK'
  BY <1>1, <1>2, <1>3 DEF TypeOK
<1>5. /\ Only(w, {}) /\ objects' \subseteq objects /\ objects \ objects' \subseteq {f}
      /\ disturbed \subseteq disturbed'
      /\ "leftover" \notin disturbed' => f \notin objects'
      /\ (objects \ objects') \cap doing'[w].files = {}
      /\ (doing[w].files \ doing'[w].files) = {f}
  BY <1>1, <1>2, <1>3 DEF Only
<1> QED
  BY <1>1, <1>2, <1>3, <1>4, <1>5, ObjectsGo DEF Removing

LEMMA ObjectsDoneKept ==
    ASSUME IInv, NEW w \in Worker, ObjectsDone(w)
    PROVE  IInv'
<1>1. /\ TypeOK /\ doing[w].files = {}
      /\ doing[w].step \in {"clean", "purge", "takeBack"}
      /\ UNCHANGED <<rows, stagedAt, objects, erased, crashes, now, held, disturbed>>
      /\ IF doing[w].step = "clean" THEN Goes(w, "cleanRows") ELSE Ends(w)
  BY DEF IInv, ObjectsDone, site
<1>2. CASE doing[w].step = "clean"
  <2>1. /\ doing' \in [Worker -> CallType] /\ doing'[w].step = "cleanRows"
        /\ doing'[w].files = {} /\ doing'[w].listed = doing[w].listed
        /\ \A v \in Worker \ {w} : doing'[v] = doing[v]
    BY <1>1, <1>2, GoesType DEF Goes
  <2>2. TypeOK' /\ Only(w, {})
    BY <1>1, <2>1 DEF TypeOK, Only
  <2> QED
    BY <1>1, <1>2, <2>1, <2>2, ObjectsGo DEF Removing
<1>3. CASE doing[w].step # "clean"
  <2>1. /\ doing' \in [Worker -> CallType] /\ doing'[w].step = "idle"
        /\ doing'[w].files = {}
        /\ \A v \in Worker \ {w} : doing'[v] = doing[v]
    BY <1>1, <1>3, EndsType
  <2>2. TypeOK' /\ Only(w, {})
    BY <1>1, <2>1 DEF TypeOK, Only
  <2> QED
    BY <1>1, <1>3, <2>1, <2>2, ObjectsGo DEF Removing
<1> QED
  BY <1>2, <1>3

LEMMA DeleteFileKept ==
    ASSUME IInv, NEW w \in Worker, DeleteFile(w)
    PROVE  IInv'
<1>1. /\ TypeOK /\ doing[w].files \subseteq File /\ doing[w].step = "delete"
      /\ UNCHANGED <<rows, stagedAt, erased, crashes, now, held, disturbed>>
  BY CallOf DEF IInv, DeleteFile, site
<1>2. CASE objects' = objects \ doing[w].files /\ Goes(w, "deleteRow")
  <2>1. /\ doing' \in [Worker -> CallType] /\ doing'[w].step = "deleteRow"
        /\ doing'[w].files = doing[w].files /\ doing'[w].listed = doing[w].listed
        /\ \A v \in Worker \ {w} : doing'[v] = doing[v]
    BY <1>1, <1>2, GoesType DEF Goes
  <2>2. TypeOK' /\ Only(w, {})
    BY <1>1, <1>2, <2>1 DEF TypeOK, Only
  <2>3. /\ objects' \subseteq objects /\ objects \ objects' \subseteq doing[w].files
        /\ doing[w].files \cap objects' = {}
    BY <1>2
  <2> QED
    BY <1>1, <2>1, <2>2, <2>3, ObjectsGo DEF Removing
<1>3. CASE Ends(w) /\ UNCHANGED objects
  <2>1. /\ doing' \in [Worker -> CallType] /\ doing'[w].step = "idle"
        /\ doing'[w].files = {}
        /\ \A v \in Worker \ {w} : doing'[v] = doing[v]
    BY <1>1, <1>3, EndsType
  <2>2. TypeOK' /\ Only(w, {})
    BY <1>1, <1>3, <2>1 DEF TypeOK, Only
  <2> QED
    BY <1>1, <1>3, <2>1, <2>2, ObjectsGo DEF Removing
<1> QED
  BY <1>2, <1>3 DEF DeleteFile

LEMMA RowsGoneKept ==
    ASSUME IInv, NEW w \in Worker, DeleteCleaned(w) \/ DeleteRow(w)
    PROVE  IInv'
<1>1. PICK files \in SUBSET File :
        /\ Turn(files \cap (Staged \union Attached), "gone") /\ Ends(w)
        /\ files = doing[w].listed
  <2>1. CASE DeleteCleaned(w)
    BY <2>1, CallOf DEF DeleteCleaned, IInv
  <2>2. CASE DeleteRow(w)
    BY <2>2, CallOf DEF DeleteRow, IInv, CallKnown
  <2> QED
    BY <2>1, <2>2
<1>2. /\ TypeOK /\ doing[w].step \in {"cleanRows", "deleteRow"} /\ CallKnown(w)
      /\ UNCHANGED <<objects, erased, crashes, now, held, disturbed>>
  BY DEF DeleteCleaned, DeleteRow, IInv, site
<1>3. /\ doing' \in [Worker -> CallType] /\ doing'[w] = Idle
      /\ \A v \in Worker \ {w} : doing'[v] = doing[v]
  BY <1>1, <1>2, EndsType
<1>4. /\ rows' \in [File -> States] /\ stagedAt' \in [File -> 0..MaxTime]
      /\ \A g \in File : rows'[g] = IF g \in files \cap (Staged \union Attached)
                                    THEN "gone" ELSE rows[g]
  BY <1>1, <1>2, TurnType DEF States
<1>5. TypeOK'
  BY <1>2, <1>3, <1>4 DEF TypeOK, States
<1>6. /\ Only(w, files)
      /\ \A f \in files : rows'[f] = "gone"
  <2>1. \A f \in files : rows[f] \notin {"new", "coming"}
    BY <1>1, <1>2 DEF CallKnown, Removing
  <2>2. \A f \in files : rows[f] \in {"staged", "attached", "gone"}
    BY <1>1, <1>2, <2>1 DEF TypeOK
  <2> QED
    BY <1>1, <1>3, <1>4, <2>2 DEF Only, Staged, Attached
<1> QED
  BY <1>1, <1>2, <1>3, <1>5, <1>6, RowsGo

LEMMA EraseKept ==
    ASSUME IInv, NEW w \in Worker, EraseWorkspace(w)
    PROVE  IInv'
<1>1. TypeOK /\ doing[w].files \subseteq File
  BY CallOf DEF IInv
<1>2. doing' \in [Worker -> CallType]
  BY <1>1, GoesType DEF EraseWorkspace, Goes
<1>3. rows' \in [File -> States] /\ stagedAt' \in [File -> 0..MaxTime]
  BY <1>1, TurnType DEF EraseWorkspace, States
<1>4. TypeOK'
  BY <1>1, <1>2, <1>3 DEF EraseWorkspace, TypeOK, States
<1> QED
  BY <1>4, EraseKnown

LEMMA ClaimKept ==
    ASSUME IInv, NEW files \in SUBSET File, Claim(files)
    PROVE  IInv'
<1>1. TypeOK
  BY DEF IInv
<1>2. rows' \in [File -> States] /\ stagedAt' \in [File -> 0..MaxTime]
  BY <1>1, TurnType DEF Claim, States
<1>3. TypeOK'
  BY <1>1, <1>2 DEF Claim, TypeOK, States, site
<1> QED
  BY <1>3, ClaimKnown

\* After a restart nothing is under way; a deletion that it stopped is owned up to.
LEMMA CrashKept ==
    ASSUME IInv, Crash
    PROVE  IInv'
<1>1. TypeOK
  BY DEF IInv
<1>2. /\ UNCHANGED <<objects, erased, held, now>>
      /\ \A w \in Worker : doing'[w] = Idle /\ doing'[w].step = "idle" /\ doing'[w].files = {}
      /\ doing' \in [Worker -> CallType]
  BY IdleType DEF Crash
<1>3. /\ rows' \in [File -> States] /\ stagedAt' \in [File -> 0..MaxTime]
      /\ \A f \in File : rows'[f] = IF rows[f] = "coming" THEN "gone" ELSE rows[f]
  BY <1>1, TurnType DEF Crash, States
<1>4. /\ crashes' \in 0..MaxCrashes
      /\ disturbed \subseteq disturbed' /\ disturbed' \subseteq {"loss", "leftover"}
      /\ "leftover" \notin disturbed' => \A w \in Worker : doing[w] = Idle
      /\ "loss" \notin disturbed' => Deleting = {}
  BY <1>1, BoundTypes DEF Crash, TypeOK
<1>5. TypeOK'
  BY <1>1, <1>2, <1>3, <1>4 DEF TypeOK, States
<1>6. ASSUME NEW w \in Worker PROVE CallKnown(w)'
  BY <1>2 DEF CallKnown, Bringing, Removing
<1>7. Apart'
  BY <1>2 DEF Apart, Bringing
<1>8. "loss" \notin disturbed' => Kept' /\ Stored'
  <2> SUFFICES ASSUME "loss" \notin disturbed' PROVE Kept' /\ Stored'
    OBVIOUS
  <2>1. Kept /\ Stored
    BY <1>4 DEF IInv
  <2>2. \A w \in Worker, f \in File : ~Struck(w, f)
    BY <1>4 DEF Struck, Deleting
  <2>3. Kept'
    BY <1>1, <1>2, <1>3, <2>1 DEF Kept, TypeOK
  <2>4. Stored'
    BY <1>2, <1>3, <2>1, <2>2 DEF Stored
  <2> QED
    BY <2>3, <2>4
<1>9. "leftover" \notin disturbed' => Minded'
  <2> SUFFICES ASSUME "leftover" \notin disturbed' PROVE Minded'
    OBVIOUS
  <2>1. \A f \in objects : rows[f] \in {"staged", "attached"}
    BY <1>4, IdleType DEF IInv, Minded, Minds, Bringing
  <2> QED
    BY <1>1, <1>2, <1>3, <2>1 DEF Minded, TypeOK
<1>10. erased' => held' = {}
  BY <1>2 DEF IInv
<1> QED
  BY <1>5, <1>6, <1>7, <1>8, <1>9, <1>10 DEF IInv

LEMMA TickKept ==
    ASSUME IInv, Tick \/ UNCHANGED vars
    PROVE  IInv'
<1>1. UNCHANGED <<objects, rows, stagedAt, erased, doing, held, disturbed, crashes>>
  BY DEF Tick, vars
<1>2. now' \in 1..MaxTime
  BY BoundTypes DEF Tick, vars, IInv, TypeOK
<1> QED
  BY <1>1, <1>2 DEF IInv, TypeOK, CallKnown, Apart, Kept, Stored, Struck, Minded, Minds

LEMMA IInvAtFirst ==
    ASSUME Init
    PROVE  IInv
<1>1. \A w \in Worker : doing[w] = Idle /\ doing[w].step = "idle" /\ doing[w].files = {}
  BY IdleType DEF Init
<1>2. TypeOK
  <2>1. 0 \in 0..MaxTime /\ 1 \in 1..MaxTime /\ 0 \in 0..MaxCrashes
    BY BoundTypes
  <2>2. doing \in [Worker -> CallType]
    BY IdleType DEF Init
  <2> QED
    BY <2>1, <2>2, Zenon DEF Init, TypeOK
<1>3. \A w \in Worker : CallKnown(w)
  BY <1>1 DEF CallKnown, Bringing, Removing
<1>4. Apart /\ Kept /\ Stored /\ Minded
  BY <1>1 DEF Init, Apart, Kept, Stored, Minded, Bringing
<1> QED
  BY <1>2, <1>3, <1>4 DEF IInv, Init

LEMMA IInvIsKept ==
    ASSUME IInv, [Next]_vars
    PROVE  IInv'
<1>1. CASE Tick \/ UNCHANGED vars
  BY <1>1, TickKept
<1>2. CASE Crash
  BY <1>2, CrashKept
<1>3. ASSUME NEW files \in SUBSET File, Claim(files) PROVE IInv'
  BY <1>3, ClaimKept
<1>4. ASSUME NEW w \in Worker, Begin(w) PROVE IInv'
  <2>1. ASSUME NEW f \in File, NEW step \in Bringing, Upload(w, f, step) PROVE IInv'
    BY <2>1, UploadKept
  <2>2. ASSUME NEW f \in File, StoreAnother(w, f) PROVE IInv'
    BY <2>2, StoreAnotherKept
  <2>3. ASSUME NEW f \in File, AskToDelete(w, f) PROVE IInv'
    BY <2>3, AskToDeleteKept
  <2>4. ASSUME ListKeys(w) PROVE IInv'
    BY <2>4, ListKeysKept
  <2> QED
    BY <1>4, <2>1, <2>2, <2>3, <2>4 DEF Begin, Bringing
<1>5. ASSUME NEW w \in Worker, FindExpired(w) PROVE IInv'
  BY <1>5, FindExpiredKept
<1>6. ASSUME NEW w \in Worker, Continue(w) PROVE IInv'
  <2>1. ASSUME InsertStaged(w) \/ InsertAttached(w) \/ InsertFails(w) PROVE IInv'
    BY <2>1, InsertStagedKept, InsertAttachedKept, InsertFailsKept
  <2>2. ASSUME NEW f \in File, DeleteObject(w, f) PROVE IInv'
    BY <2>2, DeleteObjectKept
  <2>3. ASSUME ObjectsDone(w) \/ DeleteFile(w) PROVE IInv'
    BY <2>3, ObjectsDoneKept, DeleteFileKept
  <2>4. ASSUME DeleteCleaned(w) \/ DeleteRow(w) PROVE IInv'
    BY <2>4, RowsGoneKept
  <2>5. ASSUME NEW used \in SUBSET doing[w].files,
               CommitImport(w, used) \/ CommitUnanswered(w, used)
        PROVE  IInv'
    BY <2>5, InsertsKept
  <2>6. ASSUME RollBackImport(w) \/ EraseWorkspace(w) PROVE IInv'
    BY <2>6, RollBackKept, EraseKept
  <2> QED
    BY <1>6, <2>1, <2>2, <2>3, <2>4, <2>5, <2>6 DEF Continue
<1> QED
  BY <1>1, <1>2, <1>3, <1>4, <1>5, <1>6 DEF Next

------------------------------------------------------------------------------
\* The inductive invariant holds in every state.
THEOREM FilesInvariant == Spec => []IInv
<1> QED
  BY IInvAtFirst, IInvIsKept, PTL DEF Spec

\* The variables keep their types.
THEOREM FilesTypeCorrect == Spec => []TypeOK
<1>1. IInv => TypeOK
  BY DEF IInv
<1> QED
  BY <1>1, FilesInvariant, PTL

\* Neither the cleanup, a deletion nor an import takes a file away from a ticket: an
\* upload that is claimed has its object unless a call is about to delete it, what a
\* call deletes is no ticket's, and an import takes back only what has no row.
THEOREM TicketsKeepTheirFiles == Spec => []TicketKeepsItsFiles
<1>1. IInv => TicketKeepsItsFiles
  BY DEF IInv, Kept, TicketKeepsItsFiles
<1> QED
  BY <1>1, FilesInvariant, PTL

\* Objects are left without a row only by the failures that the property names: a row
\* goes after its object, and every object without a row is in the hands of a call.
THEOREM NoObjectIsLeftBehind == Spec => []NothingLeftBehind
<1>1. IInv => NothingLeftBehind
  <2> SUFFICES ASSUME IInv, "leftover" \notin disturbed, NEW f \in objects
               PROVE  f \in Staged \union Attached \/ \E w \in Worker : f \in doing[w].files
    BY DEF NothingLeftBehind
  <2>1. f \in File /\ (rows[f] \in {"staged", "attached"} \/ \E w \in Worker : Minds(w, f))
    BY DEF IInv, Minded, TypeOK
  <2> QED
    BY <2>1 DEF Minds, Staged, Attached
<1> QED
  BY <1>1, FilesInvariant, PTL

==============================================================================
