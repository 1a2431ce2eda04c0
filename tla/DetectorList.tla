----------------------------- MODULE DetectorList -----------------------------
(***************************************************************************)
(* The heartbeat monitor (alarm_task.c): a linked list with one cell per   *)
(* detector that has been heard of, stamped at every report.  The          *)
(* heartbeat task walks the list and takes out the detectors that have     *)
(* been silent for HEART_BEAT_TIME.                                        *)
(*                                                                         *)
(* Reports come from other tasks (uart_task.c, hmi_service.c), which copy  *)
(* the head, search from it cell by cell, stamp a cell or put one in       *)
(* front, and store the head back.  add_state does not take alarm_mutex:   *)
(* the walk and its removals go on between any two of these steps, and the *)
(* head is stored between the walk's own get_head and set_head.            *)
(*                                                                         *)
(* Cells are taken out as they are in the code: the first one is unlinked  *)
(* and never freed, a later one is freed while the walk, and a search, may *)
(* still stand on it.  The build leaves freed memory as it was until       *)
(* malloc hands it out again (CONFIG_HEAP_POISONING_DISABLED), to add_state*)
(* or to any other task, which then writes there what it likes: a task     *)
(* that reads on from such a cell is misled.                               *)
(*                                                                         *)
(* Time is kept in the cells, as the age of the stamp in ticks, up to      *)
(* HEART_BEAT_TIME.                                                        *)
(***************************************************************************)
EXTENDS Naturals

CONSTANTS
    Detectors,
    Cells,              \* addresses malloc can return
    NULL,
    Adders,             \* tasks that call add_state
    HEART_BEAT_TIME     \* in ticks

Links == Cells \cup {NULL}
Ages == 0..HEART_BEAT_TIME
Contents == [id : Detectors \cup {NULL}, age : Ages, next : Links]
Memory == [Cells -> Contents]

ASSUME ListAssumption == HEART_BEAT_TIME \in Nat \ {0} /\ NULL \notin Cells \cup Detectors

VARIABLES
    head,
    dtor,        \* the memory: what each cell holds, in use or not
    freed,       \* cells given back with free
    adder,       \* per adding task: where it is in add_state
    list,        \* per adding task: the head it copied and will store
    temp,        \* per adding task: the cell its search stands on
    id,          \* per adding task: the detector it adds
    timestamp,   \* per adding task: the age of the stamp it brings
    monitor,     \* where the heartbeat task is
    checker,     \* the cell it stands on
    head_local,  \* the head that pop_state works on
    silence,     \* ticks since each detector was last added or refreshed
    misled       \* who stands on, or will come to, a cell that was freed and that
                 \* another task was given

callVars == <<adder, list, temp, id, timestamp>>
walkVars == <<monitor, checker, head_local>>
vars == <<head, dtor, freed, callVars, walkVars, silence, misled>>

TypeOK ==
    /\ head \in Links
    /\ dtor \in Memory
    /\ freed \subseteq Cells
    /\ adder \in [Adders -> {"idle", "search", "stamp", "store"}]
    /\ list \in [Adders -> Links] /\ temp \in [Adders -> Links]
    /\ id \in [Adders -> Detectors \cup {NULL}]
    /\ timestamp \in [Adders -> Ages]
    /\ \A a \in Adders : /\ adder[a] \in {"search", "stamp"} => id[a] # NULL
                         /\ adder[a] = "stamp" => temp[a] # NULL
    /\ monitor \in {"walk", "lost", "pop", "step"}
    /\ checker \in Links
    /\ monitor # "walk" => checker # NULL
    /\ head_local \in Links
    /\ silence \in [Detectors -> Ages]
    /\ misled \subseteq {"walk", "search"}

\* The cells reached from a link, the first one included: those in every set that has it
\* and the next of each of its cells.
Reached(memory, link) ==
    LET Closed == {S \in SUBSET Cells :
                     /\ link \in S \cup {NULL}
                     /\ \A c \in S : memory[c].next \in S \cup {NULL}}
    IN  {c \in Cells : \A S \in Closed : c \in S}

Chain(link) == Reached(dtor, link)

\* The list as the tasks see it.
List == Chain(head)
CellsOf(k, chain) == {c \in chain : dtor[c].id = k}

\* An empty list: app_main fills it before the first report is handled, by the
\* calls of add_state that any task makes.
Init ==
    /\ head = NULL
    /\ dtor = [c \in Cells |-> [id |-> NULL, age |-> 0, next |-> NULL]]
    /\ freed = Cells
    /\ adder = [a \in Adders |-> "idle"]
    /\ list = [a \in Adders |-> NULL] /\ temp = [a \in Adders |-> NULL]
    /\ id = [a \in Adders |-> NULL]
    /\ timestamp = [a \in Adders |-> 0]
    /\ monitor = "walk"
    /\ checker = NULL /\ head_local = NULL
    /\ silence = [k \in Detectors |-> HEART_BEAT_TIME]
    /\ misled = {}

-----------------------------------------------------------------------------
(* add_state                                                                *)

\* The caller copies the head and takes the time of the report.
AddBegin(a, k) ==
    /\ adder[a] = "idle"
    /\ adder' = [adder EXCEPT ![a] = "search"]
    /\ list' = [list EXCEPT ![a] = head] /\ temp' = [temp EXCEPT ![a] = head]
    /\ id' = [id EXCEPT ![a] = k]
    /\ timestamp' = [timestamp EXCEPT ![a] = 0]
    /\ UNCHANGED <<head, dtor, freed, walkVars, silence, misled>>

\* The search goes on from a cell of another detector, still in the list or not.
AddNext(a) ==
    /\ adder[a] = "search" /\ temp[a] # NULL
    /\ dtor[temp[a]].id # id[a]
    /\ temp' = [temp EXCEPT ![a] = dtor[temp[a]].next]
    /\ UNCHANGED <<head, dtor, freed, adder, list, id, timestamp, walkVars, silence, misled>>

AddFound(a) ==
    /\ adder[a] = "search" /\ temp[a] # NULL
    /\ dtor[temp[a]].id = id[a]
    /\ adder' = [adder EXCEPT ![a] = "stamp"]
    /\ UNCHANGED <<head, dtor, freed, list, temp, id, timestamp, walkVars, silence, misled>>

\* What is left of the call is to store the head.
ToStore(a) ==
    /\ adder' = [adder EXCEPT ![a] = "store"]
    /\ temp' = [temp EXCEPT ![a] = NULL]
    /\ id' = [id EXCEPT ![a] = NULL]
    /\ timestamp' = [timestamp EXCEPT ![a] = 0]

\* Variant: an existing cell keeps its stamp.
AddStamp_KeepStamp(a) ==
    /\ adder[a] = "stamp"
    /\ silence' = [silence EXCEPT ![id[a]] = timestamp[a]]
    /\ ToStore(a)
    /\ UNCHANGED <<head, dtor, freed, list, walkVars, misled>>

\* The cell found is stamped ...
AddStamp(a) ==
    /\ adder[a] = "stamp"
    /\ dtor' = [dtor EXCEPT ![temp[a]].age = timestamp[a]]
    /\ silence' = [silence EXCEPT ![id[a]] = timestamp[a]]
    /\ ToStore(a)
    /\ UNCHANGED <<head, freed, list, walkVars, misled>>

\* A cell that malloc can return.  Leaked cells count as new memory once
\* nothing leads to them.
Available ==
    freed \cup (Cells \ (List \cup Chain(checker) \cup Chain(head_local)
                          \cup UNION {Chain(list[a]) \cup Chain(temp[a]) : a \in Adders}))

\* ... or none was found and the detector gets one before the list (push_state) ...
AddPush(a) ==
    /\ adder[a] = "search" /\ temp[a] = NULL
    /\ \E c \in Available :
          /\ dtor' = [dtor EXCEPT ![c] =
                         [id |-> id[a], age |-> timestamp[a], next |-> list[a]]]
          /\ freed' = freed \ {c}
          /\ list' = [list EXCEPT ![a] = c]
    /\ silence' = [silence EXCEPT ![id[a]] = timestamp[a]]
    /\ ToStore(a)
    /\ UNCHANGED <<head, walkVars, misled>>

\* ... or malloc fails ...
AddFails(a) ==
    /\ adder[a] = "search" /\ temp[a] = NULL
    /\ ToStore(a)
    /\ UNCHANGED <<head, dtor, freed, list, walkVars, silence, misled>>

\* ... and in each case the head is stored back (set_head).
AddStore(a) ==
    /\ adder[a] = "store"
    /\ head' = list[a]
    /\ adder' = [adder EXCEPT ![a] = "idle"]
    /\ list' = [list EXCEPT ![a] = NULL]
    /\ UNCHANGED <<dtor, freed, temp, id, timestamp, walkVars, silence, misled>>

-----------------------------------------------------------------------------
(* Heartbeat_Task                                                           *)

WalkBegin ==
    /\ monitor = "walk" /\ checker = NULL
    /\ head # NULL
    /\ checker' = head
    /\ UNCHANGED <<head, dtor, freed, callVars, monitor, head_local, silence, misled>>

\* The walk goes on.  One that was misled is over at the end of the list.
GoOnTo(link) ==
    /\ checker' = link
    /\ misled' = IF link = NULL THEN misled \ {"walk"} ELSE misled

\* Variant: the walk ends at the first detector that has reported in time.
WalkFresh_Stops ==
    /\ monitor = "walk" /\ checker # NULL
    /\ dtor[checker].age < HEART_BEAT_TIME
    /\ GoOnTo(NULL)
    /\ UNCHANGED <<head, dtor, freed, callVars, monitor, head_local, silence>>

WalkFresh ==
    /\ monitor = "walk" /\ checker # NULL
    /\ dtor[checker].age < HEART_BEAT_TIME
    /\ GoOnTo(dtor[checker].next)
    /\ UNCHANGED <<head, dtor, freed, callVars, monitor, head_local, silence>>

\* The detector is named in curDetector and SS_ERROR_FLAG is posted.
WalkLost ==
    /\ monitor = "walk" /\ checker # NULL
    /\ dtor[checker].age = HEART_BEAT_TIME
    /\ monitor' = "lost"
    /\ UNCHANGED <<head, dtor, freed, callVars, checker, head_local, silence, misled>>

Lost(k) == monitor = "lost" /\ dtor[checker].id = k

\* get_head, for pop_state.
PopGet ==
    /\ monitor = "lost"
    /\ monitor' = "pop"
    /\ head_local' = head
    /\ UNCHANGED <<head, dtor, freed, callVars, checker, silence, misled>>

\* The first cell of a detector in a list: the one pop_state finds.
FirstOf(c, k, link) ==
    c \in CellsOf(k, Chain(link)) /\ CellsOf(k, Chain(link)) \subseteq Chain(c)

\* pop_state on the first cell of what was the list at get_head.  The cell stays
\* allocated; a head stored since then is overwritten ...
PopHead ==
    /\ head_local # NULL /\ dtor[head_local].id = dtor[checker].id
    /\ head' = dtor[head_local].next
    /\ UNCHANGED <<dtor, freed>>

\* Variant: the cell is freed but stays linked.
PopInner_StaysLinked ==
    /\ \E prev \in Chain(head_local), c \in Cells :
          /\ dtor[prev].next = c /\ c # head_local
          /\ FirstOf(c, dtor[checker].id, head_local)
          /\ freed' = freed \cup {c}
    /\ UNCHANGED <<head, dtor>>

\* ... on a later cell, which is freed ...
PopInner ==
    /\ \E prev \in Chain(head_local), c \in Cells :
          /\ dtor[prev].next = c /\ c # head_local
          /\ FirstOf(c, dtor[checker].id, head_local)
          /\ dtor' = [dtor EXCEPT ![prev].next = dtor[c].next]
          /\ freed' = freed \cup {c}
    /\ UNCHANGED head

\* ... or on a list without the detector.
PopNone ==
    /\ CellsOf(dtor[checker].id, Chain(head_local)) = {}
    /\ UNCHANGED <<head, dtor, freed>>

PopState ==
    /\ monitor = "pop"
    /\ PopHead \/ PopInner \/ PopNone
    /\ monitor' = "step"
    /\ head_local' = NULL
    /\ UNCHANGED <<callVars, checker, silence, misled>>

\* checker->next, after print_state, whether the cell is still there or not.
WalkStep ==
    /\ monitor = "step"
    /\ GoOnTo(dtor[checker].next)
    /\ monitor' = "walk"
    /\ UNCHANGED <<head, dtor, freed, callVars, head_local, silence>>

-----------------------------------------------------------------------------
(* The rest of the gateway, and time                                        *)

\* malloc gives a freed cell to another task, which writes there what it likes.  That
\* matters to the walk and to the searches that will read the cell.
Overwrite(c) ==
    /\ c \in freed
    /\ LET searched == \E a \in Adders : c \in Chain(temp[a])
           walked == c \in Chain(checker)
       IN  /\ searched \/ walked
           /\ misled' = misled \cup (IF walked THEN {"walk"} ELSE {})
                               \cup (IF searched THEN {"search"} ELSE {})
    /\ \E contents \in Contents : dtor' = [dtor EXCEPT ![c] = contents]
    /\ UNCHANGED <<head, freed, callVars, walkVars, silence>>

\* A misled task reads or writes where there is no memory: the gateway starts again.
Panic ==
    /\ misled # {}
    /\ head' = NULL
    /\ dtor' = [c \in Cells |-> [id |-> NULL, age |-> 0, next |-> NULL]]
    /\ freed' = Cells
    /\ adder' = [a \in Adders |-> "idle"]
    /\ list' = [a \in Adders |-> NULL] /\ temp' = [a \in Adders |-> NULL]
    /\ id' = [a \in Adders |-> NULL]
    /\ timestamp' = [a \in Adders |-> 0]
    /\ monitor' = "walk"
    /\ checker' = NULL /\ head_local' = NULL
    /\ silence' = [k \in Detectors |-> HEART_BEAT_TIME]
    /\ misled' = {}

Older(age) == IF age < HEART_BEAT_TIME THEN age + 1 ELSE age

\* Time passes.
Tick ==
    /\ dtor' = [c \in Cells |-> [dtor[c] EXCEPT !.age = Older(@)]]
    /\ timestamp' = [a \in Adders |-> IF adder[a] \in {"search", "stamp"}
                                      THEN Older(timestamp[a]) ELSE timestamp[a]]
    /\ silence' = [k \in Detectors |-> Older(silence[k])]
    /\ UNCHANGED <<head, freed, adder, list, temp, id, walkVars, misled>>

-----------------------------------------------------------------------------
\* A task inside add_state goes on.
AddGoesOn(a) ==
    \/ AddNext(a)
    \/ AddFound(a)
    \/ AddStamp(a)
    \/ AddPush(a)
    \/ AddFails(a)
    \/ AddStore(a)

Walk ==
    \/ WalkBegin
    \/ WalkFresh
    \/ WalkLost
    \/ PopGet
    \/ PopState
    \/ WalkStep

Next ==
    \/ \E a \in Adders : (\E k \in Detectors : AddBegin(a, k)) \/ AddGoesOn(a)
    \/ Walk
    \/ \E c \in Cells : Overwrite(c)
    \/ Panic
    \/ Tick

Spec == Init /\ [][Next]_vars

-----------------------------------------------------------------------------
\* What hangs from the head, and from the head an adding task is about to store,
\* is memory in use, with at most one cell per detector: removals during add_state
\* leave no way back to a cell that was freed.  A walk that was misled does no harm
\* here, it removes as any walk does; of a misled search nothing is claimed.
ListSound ==
    "search" \notin misled =>
        /\ List \cap freed = {}
        /\ \A a \in Adders : Chain(list[a]) \cap freed = {}
        /\ \A k \in Detectors : \A b, c \in CellsOf(k, List) : b = c

\* While nobody is misled, the heartbeat task declares no detector lost that was added
\* or refreshed within HEART_BEAT_TIME, whatever stamps the cells it walks over hold.
NoFalseLoss ==
    [][monitor = "walk" /\ monitor' = "lost" /\ misled = {}
          => silence[dtor[checker].id] = HEART_BEAT_TIME]_vars
=============================================================================
