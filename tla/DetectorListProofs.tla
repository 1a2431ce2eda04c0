-------------------------- MODULE DetectorListProofs --------------------------
(***************************************************************************)
(* ListSound and NoFalseLoss for one adding task, for any memory, set of   *)
(* detectors and heartbeat time, however fast time passes.                 *)
(*                                                                         *)
(* The inductive invariant is HeartbeatInv.  Until a search is misled:     *)
(*   Good        what hangs from head, from the head pop_state works on,   *)
(*               and from the link the adding task will store, is a path   *)
(*               (no cell is the next of two, none leads back to the       *)
(*               start) of cells in use, with at most one per detector,    *)
(*               each stamped no earlier than its detector was heard of;   *)
(*   Covers      the list hangs from the link that will be stored, so that *)
(*               storing it takes nothing away from the walk;              *)
(*   Searching   a cell of the detector that is added, if the list to be   *)
(*               stored has one, is still ahead of the search, or found;   *)
(*   Popping     the head pop_state works on is in the list or NULL, so    *)
(*               that storing what follows it only shortens the list;      *)
(*   Standing    the heartbeat task, unless it is misled, stands on a cell *)
(*               of the list or of the one to be stored, or has taken it   *)
(*               out and reads from it a link into them.                   *)
(*                                                                         *)
(* The cells reached from a link are the smallest closed set, so facts on  *)
(* them come from naming a closed set, without induction.                  *)
(***************************************************************************)
EXTENDS DetectorList, TLAPS

OneAdder == \A a, b \in Adders : a = b

NoLink == NULL \notin Cells \cup Detectors

Path(memory, link) ==
    /\ \A c \in Reached(memory, link) : memory[c].next # link
    /\ \A c, d \in Reached(memory, link) :
          memory[c].next = memory[d].next /\ memory[c].next # NULL => c = d

InUse(memory, out, heard, link) ==
    \A c \in Reached(memory, link) :
        /\ c \notin out
        /\ memory[c].id \in Detectors
        /\ memory[c].age <= heard[memory[c].id]

Single(memory, link) ==
    \A c, d \in Reached(memory, link) : memory[c].id = memory[d].id => c = d

Good(memory, out, heard, link) ==
    Path(memory, link) /\ InUse(memory, out, heard, link) /\ Single(memory, link)

Well(link) == Good(dtor, freed, silence, link)

\* The cells of the list, and of the list about to be stored.
Known == List \cup UNION {Chain(list[a]) : a \in Adders}

Covers ==
    \A a \in Adders :
        IF adder[a] = "idle" THEN list[a] = NULL ELSE List \subseteq Chain(list[a])

Sought(a, c) == c \in Chain(list[a]) /\ dtor[c].id = id[a]

Searching ==
    \A a \in Adders :
        CASE adder[a] = "search" ->
                 /\ \A c \in Cells : Sought(a, c) => c \in Chain(temp[a])
                 /\ \A c, d \in Chain(list[a]) \cup Chain(temp[a]) :
                       dtor[c].id = dtor[d].id => c = d
          [] adder[a] = "stamp" ->
                 /\ dtor[temp[a]].id = id[a]
                 /\ \A c \in Cells : Sought(a, c) => c = temp[a]
          [] OTHER -> temp[a] = NULL

Popping == IF monitor = "pop" THEN head_local \in List \cup {NULL} ELSE head_local = NULL

Standing ==
    "walk" \in misled
        \/ (IF monitor = "step" THEN dtor[checker].next ELSE checker) \in Known \cup {NULL}

ListInv ==
    /\ Well(head) /\ Well(head_local)
    /\ \A a \in Adders : Well(list[a])
    /\ Covers
    /\ Searching
    /\ Popping
    /\ Standing

HeartbeatInv == TypeOK /\ ("search" \in misled \/ ListInv)

-----------------------------------------------------------------------------
(* The cells reached from a link *)

\* Cells that have the link and the next of each have all that is reached from it.
LEMMA ReachedLeast ==
    ASSUME NEW m, NEW link, NEW S \in SUBSET Cells, link \in S \cup {NULL},
           \A c \in S : m[c].next \in S \cup {NULL}
    PROVE  Reached(m, link) \subseteq S
BY DEF Reached

\* Nothing is reached from NULL.
LEMMA ReachedNull == ASSUME NEW m PROVE Reached(m, NULL) = {}
<1> SUFFICES ASSUME NEW c \in Reached(m, NULL) PROVE FALSE
  OBVIOUS
<1>1. {} \in SUBSET Cells
  OBVIOUS
<1>2. c \in {}
  BY <1>1 DEF Reached
<1> QED BY <1>2

\* A cell is reached from itself, and what is reached is closed.
LEMMA ReachedClosed ==
    ASSUME NoLink, NEW m \in Memory, NEW link \in Links
    PROVE  /\ Reached(m, link) \subseteq Cells
           /\ link \in Reached(m, link) \cup {NULL}
           /\ \A c \in Reached(m, link) : m[c].next \in Reached(m, link) \cup {NULL}
<1>1. Reached(m, link) \subseteq Cells
  BY DEF Reached
<1>2. link \in Reached(m, link) \cup {NULL}
  BY DEF Reached, Links
<1>3. ASSUME NEW c \in Reached(m, link) PROVE m[c].next \in Reached(m, link) \cup {NULL}
  <2>1. c \in Cells /\ m[c].next \in Links
    BY DEF Reached, Memory, Contents
  <2>2. ASSUME NEW S \in SUBSET Cells, link \in S \cup {NULL},
               \A d \in S : m[d].next \in S \cup {NULL}
        PROVE  m[c].next \in S \cup {NULL}
    BY <2>1, <2>2 DEF Reached
  <2> QED BY <2>1, <2>2 DEF Reached, Links
<1> QED BY <1>1, <1>2, <1>3

\* What is reached on the way is reached from the start.
LEMMA ReachedOn ==
    ASSUME NoLink, NEW m \in Memory, NEW link \in Links,
           NEW c \in Reached(m, link) \cup {NULL}
    PROVE  Reached(m, c) \subseteq Reached(m, link)
<1> DEFINE R == Reached(m, link)
<1>1. R \subseteq Cells /\ \A d \in R : m[d].next \in R \cup {NULL}
  BY ReachedClosed
<1> QED BY <1>1, ReachedLeast

\* Only the links of the cells reached matter.
LEMMA ReachedSame ==
    ASSUME NoLink, NEW m \in Memory, NEW n \in Memory, NEW link \in Links,
           \A c \in Reached(m, link) : n[c].next = m[c].next
    PROVE  Reached(n, link) = Reached(m, link)
<1> DEFINE R == Reached(m, link)
           Q == Reached(n, link)
<1>1. /\ R \subseteq Cells /\ link \in R \cup {NULL}
      /\ \A d \in R : m[d].next \in R \cup {NULL}
  BY ReachedClosed
<1>2. /\ Q \subseteq Cells /\ link \in Q \cup {NULL}
      /\ \A d \in Q : n[d].next \in Q \cup {NULL}
  BY ReachedClosed
<1> HIDE DEF R, Q
<1>3. \A d \in R : n[d].next = m[d].next
  BY DEF R
<1>4. Q \subseteq R
  BY <1>1, <1>3, ReachedLeast DEF Q
<1>5. R \subseteq Q
  BY <1>2, <1>3, <1>4, ReachedLeast DEF R
<1> QED BY <1>4, <1>5 DEF R, Q

\* A cell put before a chain that does not have it.
LEMMA ReachedPushed ==
    ASSUME NoLink, NEW m \in Memory, NEW n \in Memory, NEW link \in Links,
           NEW c \in Cells, c \notin Reached(m, link), n[c].next = link,
           \A d \in Cells \ {c} : n[d].next = m[d].next
    PROVE  /\ Reached(n, link) = Reached(m, link)
           /\ Reached(n, c) = {c} \cup Reached(m, link)
<1> DEFINE R == Reached(m, link)
           Q == Reached(n, c)
<1>0. NULL \notin Cells /\ c \in Links
  BY DEF NoLink, Links
<1>1. R \subseteq Cells /\ Q \subseteq Cells
  BY DEF Reached
<1>2. Reached(n, link) = R
  BY <1>1, ReachedSame
<1>3. /\ link \in R \cup {NULL}
      /\ \A d \in R : n[d].next \in R \cup {NULL}
  BY <1>2, ReachedClosed
<1>4. /\ c \in Q \cup {NULL} /\ \A d \in Q : n[d].next \in Q \cup {NULL}
  BY <1>0, ReachedClosed
<1> HIDE DEF R, Q
<1>5. Q \subseteq {c} \cup R
  <2>1. {c} \cup R \in SUBSET Cells
    BY <1>1
  <2>2. \A d \in {c} \cup R : n[d].next \in ({c} \cup R) \cup {NULL}
    BY <1>3
  <2> QED BY <2>1, <2>2, ReachedLeast DEF Q
<1>6. R \subseteq Q
  <2>1. c \in Q /\ link \in Q \cup {NULL}
    BY <1>0, <1>4
  <2> QED BY <1>0, <1>2, <2>1, ReachedOn DEF Q
<1> QED BY <1>0, <1>1, <1>2, <1>4, <1>5, <1>6 DEF R, Q

\* The first cell taken from a path.
LEMMA ReachedPopped ==
    ASSUME NoLink, NEW m \in Memory, NEW link \in Cells, Path(m, link)
    PROVE  Reached(m, m[link].next) = Reached(m, link) \ {link}
<1> DEFINE R == Reached(m, link)
           next == m[link].next
           Q == Reached(m, next)
<1>0. NULL \notin Cells /\ link \in Links /\ next \in Links
  BY DEF NoLink, Links, Memory, Contents
<1>1. /\ R \subseteq Cells /\ link \in R
      /\ \A d \in R : m[d].next \in R \cup {NULL}
  BY <1>0, ReachedClosed
<1>2. /\ Q \subseteq Cells /\ next \in Q \cup {NULL}
      /\ \A d \in Q : m[d].next \in Q \cup {NULL}
  BY <1>0, ReachedClosed
<1>3. \A d \in R : m[d].next # link
  BY DEF Path
<1> HIDE DEF R, Q
<1>4. Q \subseteq R \ {link}
  <2>1. R \ {link} \in SUBSET Cells /\ next \in (R \ {link}) \cup {NULL}
    BY <1>1, <1>3
  <2>2. \A d \in R \ {link} : m[d].next \in (R \ {link}) \cup {NULL}
    BY <1>1, <1>3
  <2> QED BY <2>1, <2>2, ReachedLeast DEF Q
<1>5. R \subseteq {link} \cup Q
  <2>1. {link} \cup Q \in SUBSET Cells /\ link \in ({link} \cup Q) \cup {NULL}
    BY <1>2
  <2>2. \A d \in {link} \cup Q : m[d].next \in ({link} \cup Q) \cup {NULL}
    BY <1>2
  <2> QED BY <2>1, <2>2, ReachedLeast DEF R
<1> QED BY <1>1, <1>4, <1>5 DEF R, Q

\* A later cell c unlinked from a path: n is m with the cell before it led past it.
Unlinked(m, n, link, before, c) ==
    /\ before \in Reached(m, link) /\ m[before].next = c /\ c \in Cells
    /\ n = [m EXCEPT ![before].next = m[c].next]

\* What is reached loses that cell and no other.
LEMMA ReachedUnlinked ==
    ASSUME NoLink, NEW m \in Memory, NEW n \in Memory, NEW link \in Links, Path(m, link),
           NEW before, NEW c, Unlinked(m, n, link, before, c)
    PROVE  /\ c # link /\ before # c /\ c \in Reached(m, link)
           /\ Reached(n, link) = Reached(m, link) \ {c}
<1> DEFINE R == Reached(m, link)
           Q == Reached(n, link)
<1>1. /\ R \subseteq Cells /\ link \in R \cup {NULL}
      /\ \A d \in R : m[d].next \in R \cup {NULL}
  BY ReachedClosed
<1>2. /\ Q \subseteq Cells /\ link \in Q \cup {NULL}
      /\ \A d \in Q : n[d].next \in Q \cup {NULL}
  BY ReachedClosed
<1>3. /\ \A d \in R : m[d].next # link
      /\ \A d, e \in R : m[d].next = m[e].next /\ m[d].next # NULL => d = e
  BY DEF Path
<1>4. before \in R /\ m[before].next = c /\ c \in Cells /\ NULL \notin Cells
  BY DEF Unlinked, NoLink
<1>5. /\ n[before].next = m[c].next
      /\ \A d \in Cells : d # before => n[d].next = m[d].next
  <2>1. before \in Cells
    BY <1>1, <1>4
  <2> QED BY <2>1 DEF Unlinked, Memory, Contents
<1>6. m[c].next \in Links
  BY <1>4 DEF Memory, Contents
<1> HIDE DEF R, Q
<1>7. c \in R /\ c # link
  BY <1>1, <1>3, <1>4
<1>8. \A d \in R : m[d].next = c => d = before
  BY <1>3, <1>4
<1>9. before # c
  <2> SUFFICES ASSUME before = c PROVE FALSE
    OBVIOUS
  <2>1. \A d \in R \ {c} : m[d].next \in (R \ {c}) \cup {NULL}
    BY <1>1, <1>8
  <2>2. R \subseteq R \ {c}
    BY <1>1, <1>7, <2>1, ReachedLeast DEF R
  <2> QED BY <2>2, <1>7
<1>10. Q \subseteq R \ {c}
  <2>1. \A d \in R \ {c} : n[d].next \in (R \ {c}) \cup {NULL}
    BY <1>1, <1>4, <1>5, <1>7, <1>8, <1>9
  <2> QED BY <1>1, <1>7, <2>1, ReachedLeast DEF Q
<1>11. before \in Q
  <2> SUFFICES ASSUME before \notin Q PROVE FALSE
    OBVIOUS
  <2>1. \A d \in Q : m[d].next \in Q \cup {NULL}
    BY <1>2, <1>5
  <2>2. R \subseteq Q
    BY <1>2, <2>1, ReachedLeast DEF R
  <2> QED BY <2>2, <1>4
<1>12. R \subseteq Q \cup {c}
  <2>1. \A d \in Q \cup {c} : m[d].next \in (Q \cup {c}) \cup {NULL}
    BY <1>2, <1>4, <1>5, <1>11
  <2>2. Q \cup {c} \in SUBSET Cells /\ link \in (Q \cup {c}) \cup {NULL}
    BY <1>2, <1>4
  <2> QED BY <2>1, <2>2, ReachedLeast DEF R
<1>13. Q = R \ {c}
  BY <1>10, <1>12
<1> QED BY <1>7, <1>9, <1>13 DEF R, Q

\* Wherever one starts: unlinking a cell makes nothing reached, and loses that cell only.
LEMMA ReachedElsewhere ==
    ASSUME NoLink, NEW m \in Memory, NEW n \in Memory, NEW link \in Links,
           NEW before \in Cells, NEW c \in Cells, before # c, m[before].next = c,
           n[before].next = m[c].next, \A d \in Cells \ {before} : n[d].next = m[d].next
    PROVE  /\ Reached(n, link) \subseteq Reached(m, link)
           /\ Reached(m, link) \ {c} \subseteq Reached(n, link)
<1> DEFINE R == Reached(m, link)
           Q == Reached(n, link)
<1>1. /\ R \subseteq Cells /\ link \in R \cup {NULL}
      /\ \A d \in R : m[d].next \in R \cup {NULL}
  BY ReachedClosed
<1>2. /\ Q \subseteq Cells /\ link \in Q \cup {NULL}
      /\ \A d \in Q : n[d].next \in Q \cup {NULL}
  BY ReachedClosed
<1>3. NULL \notin Cells
  BY DEF NoLink
<1> HIDE DEF R, Q
<1>4. Q \subseteq R
  <2>1. \A d \in R : n[d].next \in R \cup {NULL}
    BY <1>1, <1>3
  <2>2. R \in SUBSET Cells
    BY <1>1
  <2> QED BY <1>1, <2>1, <2>2, ReachedLeast DEF Q
<1>5. CASE before \in Q
  <2>1. \A d \in Q \cup {c} : m[d].next \in (Q \cup {c}) \cup {NULL}
    BY <1>2, <1>3, <1>5
  <2>2. Q \cup {c} \in SUBSET Cells /\ link \in (Q \cup {c}) \cup {NULL}
    BY <1>2
  <2>3. R \subseteq Q \cup {c}
    BY <2>1, <2>2, ReachedLeast DEF R
  <2> QED BY <1>4, <2>3 DEF R, Q
<1>6. CASE before \notin Q
  <2>1. \A d \in Q : m[d].next \in Q \cup {NULL}
    BY <1>2, <1>3, <1>6
  <2>2. R \subseteq Q
    BY <1>2, <2>1, ReachedLeast DEF R
  <2> QED BY <1>4, <2>2 DEF R, Q
<1> QED BY <1>5, <1>6

\* What is reached from a cell is that cell and what is reached from the next.
LEMMA ReachedNext ==
    ASSUME NoLink, NEW m \in Memory, NEW c \in Cells
    PROVE  /\ Reached(m, m[c].next) \subseteq Reached(m, c)
           /\ Reached(m, c) \subseteq {c} \cup Reached(m, m[c].next)
<1> DEFINE Q == Reached(m, m[c].next)
<1>1. c \in Links /\ m[c].next \in Links
  BY DEF Links, Memory, Contents
<1>2. c \in Reached(m, c) /\ m[c].next \in Reached(m, c) \cup {NULL}
  BY <1>1, ReachedClosed DEF NoLink
<1>3. /\ Q \subseteq Cells /\ m[c].next \in Q \cup {NULL}
      /\ \A d \in Q : m[d].next \in Q \cup {NULL}
  BY <1>1, ReachedClosed
<1>4. Reached(m, c) \subseteq {c} \cup Q
  <2> HIDE DEF Q
  <2>1. {c} \cup Q \in SUBSET Cells
        /\ \A d \in {c} \cup Q : m[d].next \in ({c} \cup Q) \cup {NULL}
    BY <1>3
  <2> QED BY <2>1, ReachedLeast
<1> QED BY <1>1, <1>2, <1>4, ReachedOn

-----------------------------------------------------------------------------
(* What keeps a chain good *)

\* Nothing hangs from NULL.
LEMMA GoodNull == ASSUME NEW m, NEW f, NEW s PROVE Good(m, f, s, NULL)
BY ReachedNull DEF Good, Path, InUse, Single

\* Same cells, links and names, and no stamp later than before for its detector.
LEMMA GoodSame ==
    ASSUME NoLink, NEW m \in Memory, NEW n \in Memory, NEW link \in Links,
           NEW f, NEW g, NEW s, NEW t, Good(m, f, s, link),
           \A c \in Reached(m, link) :
               /\ n[c].next = m[c].next /\ n[c].id = m[c].id
               /\ c \notin g /\ n[c].age <= t[m[c].id]
    PROVE  Reached(n, link) = Reached(m, link) /\ Good(n, g, t, link)
<1>1. Reached(n, link) = Reached(m, link)
  BY ReachedSame
<1>2. Path(n, link)
  BY <1>1 DEF Good, Path
<1>3. InUse(n, g, t, link)
  BY <1>1 DEF Good, InUse
<1>4. Single(n, link)
  BY <1>1 DEF Good, Single
<1> QED BY <1>1, <1>2, <1>3, <1>4 DEF Good

\* The chain from the second cell of a good one.
LEMMA GoodPopped ==
    ASSUME NoLink, NEW m \in Memory, NEW link \in Cells, NEW f, NEW s, Good(m, f, s, link)
    PROVE  /\ Reached(m, m[link].next) = Reached(m, link) \ {link}
           /\ Good(m, f, s, m[link].next)
<1> DEFINE next == m[link].next
<1>1. Reached(m, next) = Reached(m, link) \ {link}
  BY ReachedPopped DEF Good
<1>2. link \in Reached(m, link)
  BY ReachedClosed DEF Links, NoLink
<1>3. Path(m, next)
  <2>1. next = NULL => Path(m, next)
    BY ReachedNull DEF Path
  <2>2. ASSUME next # NULL PROVE Path(m, next)
    <3>1. \A c, d \in Reached(m, link) :
              m[c].next = m[d].next /\ m[c].next # NULL => c = d
      BY DEF Good, Path
    <3>2. \A c \in Reached(m, next) : m[c].next # next
      BY <1>1, <1>2, <2>2, <3>1
    <3> QED BY <1>1, <3>1, <3>2 DEF Path
  <2> QED BY <2>1, <2>2
<1>4. InUse(m, f, s, next) /\ Single(m, next)
  BY <1>1 DEF Good, InUse, Single
<1> QED BY <1>1, <1>3, <1>4 DEF Good

\* A good chain with a later cell unlinked and freed.
LEMMA GoodUnlinked ==
    ASSUME NoLink, NEW m \in Memory, NEW n \in Memory, NEW link \in Links,
           NEW f, NEW s, Good(m, f, s, link),
           NEW before, NEW c, Unlinked(m, n, link, before, c)
    PROVE  /\ Reached(n, link) = Reached(m, link) \ {c}
           /\ Good(n, f \cup {c}, s, link)
<1> DEFINE R == Reached(m, link)
<1>1. /\ Reached(n, link) = R \ {c}
      /\ c # link /\ before # c /\ c \in R
  BY ReachedUnlinked DEF Good
<1>2. R \subseteq Cells /\ before \in R /\ m[before].next = c
  BY ReachedClosed DEF Unlinked
<1>3. /\ n[before].next = m[c].next
      /\ \A d \in Cells : d # before => n[d].next = m[d].next
      /\ \A d \in Cells : n[d].id = m[d].id /\ n[d].age = m[d].age
  BY <1>2 DEF Unlinked, Memory, Contents
<1>4. Path(n, link)
  <2>1. /\ \A d \in R : m[d].next # link
        /\ \A d, e \in R : m[d].next = m[e].next /\ m[d].next # NULL => d = e
    BY DEF Good, Path
  <2> HIDE DEF R
  <2>2. \A d \in R \ {c} : n[d].next # link
    BY <1>1, <1>2, <1>3, <2>1
  <2>3. ASSUME NEW d \in R \ {c}, NEW e \in R \ {c}, n[d].next = n[e].next, n[d].next # NULL
        PROVE  d = e
    BY <1>1, <1>2, <1>3, <2>1, <2>3
  <2> QED BY <1>1, <2>2, <2>3 DEF Path
<1>5. InUse(n, f \cup {c}, s, link)
  BY <1>1, <1>2, <1>3 DEF Good, InUse
<1>6. Single(n, link)
  BY <1>1, <1>2, <1>3 DEF Good, Single
<1> QED BY <1>1, <1>4, <1>5, <1>6 DEF Good

\* A cell for detector k written before a chain.
Pushed(m, n, link, c, k, age) == n = [m EXCEPT ![c] = [id |-> k, age |-> age, next |-> link]]

\* A cell for a detector that has none put before a good chain.
LEMMA GoodPushed ==
    ASSUME NoLink, NEW m \in Memory, NEW n \in Memory, NEW link \in Links,
           NEW f, NEW s \in [Detectors -> Ages], NEW t, Good(m, f, s, link), HEART_BEAT_TIME \in Nat,
           NEW c \in Cells, c \notin Reached(m, link), NEW k \in Detectors, NEW x \in Ages,
           \A d \in Reached(m, link) : m[d].id # k,
           Pushed(m, n, link, c, k, x),
           t[k] = x, \A j \in Detectors \ {k} : t[j] = s[j]
    PROVE  /\ Reached(n, link) = Reached(m, link)
           /\ Reached(n, c) = {c} \cup Reached(m, link)
           /\ Good(n, f \ {c}, t, link)
           /\ Good(n, f \ {c}, t, c)
<1> DEFINE R == Reached(m, link)
<1>1. /\ n[c] = [id |-> k, age |-> x, next |-> link]
      /\ \A d \in Cells \ {c} : n[d] = m[d]
  BY DEF Memory, Contents, Pushed
<1>2. Reached(n, link) = R /\ Reached(n, c) = {c} \cup R
  <2>1. n[c].next = link /\ \A d \in Cells \ {c} : n[d].next = m[d].next
    BY <1>1
  <2> QED BY <2>1, ReachedPushed
<1>3. R \subseteq Cells /\ link \in R \cup {NULL} /\ \A d \in R : m[d].next \in R \cup {NULL}
  BY ReachedClosed
<1>4. /\ t[k] = x /\ \A j \in Detectors \ {k} : t[j] = s[j]
  OBVIOUS
<1>5. Good(n, f \ {c}, t, link)
  <2>1. \A d \in R : /\ n[d].next = m[d].next /\ n[d].id = m[d].id
                     /\ d \notin f \ {c} /\ n[d].age <= t[m[d].id]
    BY <1>1, <1>3, <1>4 DEF Good, InUse
  <2> QED BY <2>1, GoodSame
<1>6. Path(n, c)
  <2>1. /\ \A d \in R : m[d].next # link
        /\ \A d, e \in R : m[d].next = m[e].next /\ m[d].next # NULL => d = e
    BY DEF Good, Path
  <2>2. c # NULL /\ NULL \notin R
    BY <1>3 DEF NoLink
  <2> HIDE DEF R
  <2>3. \A d \in {c} \cup R : n[d].next # c
    BY <1>1, <1>3, <2>2 DEF R
  <2>4. \A d, e \in {c} \cup R : n[d].next = n[e].next /\ n[d].next # NULL => d = e
    BY <1>1, <1>3, <2>1, <2>2 DEF R
  <2> QED BY <1>2, <2>3, <2>4 DEF Path, R
<1>7. InUse(n, f \ {c}, t, c)
  <2>1. \A d \in R : d \notin f \ {c} /\ n[d].id \in Detectors /\ n[d].age <= t[n[d].id]
    BY <1>2, <1>5 DEF Good, InUse
  <2>2. c \notin f \ {c} /\ n[c].id = k /\ n[c].age <= t[k]
    BY <1>1, <1>4 DEF Ages
  <2> HIDE DEF R
  <2> QED BY <1>2, <2>1, <2>2 DEF InUse
<1>8. Single(n, c)
  <2>1. \A d \in R : n[d].id # k
    BY <1>1, <1>3
  <2>2. \A d, e \in R : n[d].id = n[e].id => d = e
    BY <1>2, <1>5 DEF Good, Single
  <2>3. n[c].id = k
    BY <1>1
  <2> HIDE DEF R
  <2>4. ASSUME NEW d \in {c} \cup R, NEW e \in {c} \cup R, n[d].id = n[e].id PROVE d = e
    BY <2>1, <2>2, <2>3, <2>4
  <2> QED BY <1>2, <2>4, Zenon DEF Single
<1> QED BY <1>2, <1>5, <1>6, <1>7, <1>8 DEF Good

-----------------------------------------------------------------------------
(* The steps *)

\* The monitor starts with an empty list ...
LEMMA InitGood == ASSUME Init PROVE HeartbeatInv
<1> USE DEF Init
<1>1. TypeOK
  BY ListAssumption DEF TypeOK, Memory, Contents, Links, Ages
<1>2. Well(head) /\ Well(head_local) /\ \A a \in Adders : Well(list[a])
  BY GoodNull DEF Well
<1>3. Covers /\ Searching /\ Popping /\ Standing
  BY DEF Covers, Searching, Popping, Standing
<1> QED BY <1>1, <1>2, <1>3 DEF HeartbeatInv, ListInv

\* ... also after a panic.
LEMMA PanicGood == ASSUME Panic PROVE HeartbeatInv'
<1> USE DEF Panic
<1>1. TypeOK'
  BY ListAssumption DEF TypeOK, Memory, Contents, Links, Ages
<1>2. Well(head)' /\ Well(head_local)' /\ \A a \in Adders : Well(list[a])'
  BY GoodNull DEF Well
<1>3. Covers' /\ Searching' /\ Popping' /\ Standing'
  BY DEF Covers, Searching, Popping, Standing
<1> QED BY <1>1, <1>2, <1>3 DEF HeartbeatInv, ListInv

\* Every step keeps the types.
LEMMA TypeKept == ASSUME TypeOK, [Next]_vars PROVE TypeOK'
<1> USE DEF TypeOK
<1>0. 0 \in Ages /\ HEART_BEAT_TIME \in Nat /\ NULL \notin Cells \cup Detectors
  BY ListAssumption DEF Ages
<1>a. \A age \in Ages : Older(age) \in Ages
  BY <1>0 DEF Older, Ages
<1>1. ASSUME NEW a \in Adders, NEW k \in Detectors, AddBegin(a, k) PROVE TypeOK'
  BY <1>0, <1>1 DEF AddBegin, walkVars
<1>2. ASSUME NEW a \in Adders, AddGoesOn(a) PROVE TypeOK'
  <2> USE DEF walkVars
  <2>1. CASE AddNext(a)
    <3>1. dtor[temp[a]].next \in Links
      BY <2>1 DEF AddNext, Memory, Contents, Links
    <3> QED BY <2>1, <3>1 DEF AddNext
  <2>2. CASE AddFound(a)
    BY <2>2 DEF AddFound
  <2>3. CASE AddStamp(a)
    <3>1. temp[a] \in Cells /\ id[a] \in Detectors /\ timestamp[a] \in Ages
      BY <2>3 DEF AddStamp, Links
    <3>2. dtor' \in Memory /\ silence' \in [Detectors -> Ages]
      BY <2>3, <3>1 DEF AddStamp, Memory, Contents
    <3> QED BY <1>0, <2>3, <3>2 DEF AddStamp, ToStore, Links
  <2>4. CASE AddPush(a)
    <3>1. Available \subseteq Cells
      BY DEF Available
    <3>2. id[a] \in Detectors /\ timestamp[a] \in Ages
      BY <2>4 DEF AddPush
    <3>3. PICK c \in Cells :
             /\ dtor' = [dtor EXCEPT ![c] =
                            [id |-> id[a], age |-> timestamp[a], next |-> list[a]]]
             /\ freed' = freed \ {c} /\ list' = [list EXCEPT ![a] = c]
      BY <2>4, <3>1 DEF AddPush
    <3>4. dtor' \in Memory /\ list' \in [Adders -> Links] /\ silence' \in [Detectors -> Ages]
      BY <2>4, <3>2, <3>3 DEF AddPush, Memory, Contents, Links
    <3> QED BY <1>0, <2>4, <3>3, <3>4 DEF AddPush, ToStore, Links
  <2>5. CASE AddFails(a)
    BY <1>0, <2>5 DEF AddFails, ToStore, Links
  <2>6. CASE AddStore(a)
    BY <2>6 DEF AddStore, Links
  <2> QED BY <1>2, <2>1, <2>2, <2>3, <2>4, <2>5, <2>6 DEF AddGoesOn
<1>3. CASE WalkBegin \/ WalkLost \/ PopGet
  BY <1>3 DEF WalkBegin, WalkLost, PopGet, callVars
<1>4. CASE WalkFresh \/ WalkStep
  <2>1. checker \in Cells
    BY <1>4 DEF WalkFresh, WalkStep, Links
  <2>2. dtor[checker].next \in Links
    BY <2>1 DEF Memory, Contents
  <2> QED BY <1>4, <2>2 DEF WalkFresh, WalkStep, GoOnTo, callVars
<1>5. CASE PopState
  <2> USE DEF callVars
  <2>1. CASE PopHead
    <3>1. dtor[head_local].next \in Links
      BY <2>1 DEF PopHead, Memory, Contents, Links
    <3> QED BY <1>5, <2>1, <3>1 DEF PopState, PopHead, Links
  <2>2. CASE PopInner
    <3>0. PICK prev \in Cells, c \in Cells :
             dtor' = [dtor EXCEPT ![prev].next = dtor[c].next] /\ freed' = freed \cup {c}
      BY <2>2 DEF PopInner, Chain, Reached
    <3>1. dtor' \in Memory /\ freed' \subseteq Cells
      BY <3>0 DEF Memory, Contents
    <3> QED BY <1>5, <2>2, <3>1 DEF PopState, PopInner, Links
  <2>3. CASE PopNone
    BY <1>5, <2>3 DEF PopState, PopNone, Links
  <2> QED BY <1>5, <2>1, <2>2, <2>3 DEF PopState
<1>6. ASSUME NEW c \in Cells, Overwrite(c) PROVE TypeOK'
  <2>1. dtor' \in Memory
    BY <1>6 DEF Overwrite, Memory
  <2>2. misled' \subseteq {"walk", "search"}
    BY <1>6 DEF Overwrite
  <2> QED BY <1>6, <2>1, <2>2 DEF Overwrite, callVars, walkVars
<1>7. CASE Panic
  BY <1>7, PanicGood DEF HeartbeatInv
<1>8. CASE Tick
  <2>1. dtor' \in Memory
    <3>1. ASSUME NEW c \in Cells PROVE [dtor[c] EXCEPT !.age = Older(@)] \in Contents
      <4>1. dtor[c] \in Contents
        BY DEF Memory
      <4>2. Older(dtor[c].age) \in Ages
        BY <4>1, <1>a DEF Contents
      <4> HIDE DEF TypeOK
      <4> QED BY <4>1, <4>2 DEF Contents
    <3>2. dtor' = [c \in Cells |-> [dtor[c] EXCEPT !.age = Older(@)]]
      BY <1>8 DEF Tick
    <3> QED BY <3>1, <3>2 DEF Memory
  <2>2. silence' \in [Detectors -> Ages] /\ timestamp' \in [Adders -> Ages]
    BY <1>8, <1>a DEF Tick
  <2> QED BY <1>8, <2>1, <2>2 DEF Tick, walkVars
<1>9. CASE UNCHANGED vars
  BY <1>9 DEF vars, callVars, walkVars
<1> QED BY <1>1, <1>2, <1>3, <1>4, <1>5, <1>6, <1>7, <1>8, <1>9 DEF Next, Walk

\* One task at most is in add_state: its own call is all there is to say of any.
LEMMA Alone == ASSUME OneAdder, NEW a \in Adders PROVE Adders = {a}
BY DEF OneAdder

\* add_state keeps the rest of the invariant: where it starts ...
LEMMA BeginKept ==
    ASSUME OneAdder, TypeOK, TypeOK', ListInv,
           NEW a \in Adders, NEW k \in Detectors, AddBegin(a, k)
    PROVE  ListInv'
<1> USE DEF ListInv, TypeOK
<1>1. /\ list' = [list EXCEPT ![a] = head] /\ temp' = [temp EXCEPT ![a] = head]
      /\ adder' = [adder EXCEPT ![a] = "search"] /\ adder[a] = "idle"
      /\ UNCHANGED <<head, dtor, freed, monitor, checker, head_local, silence, misled>>
  BY DEF AddBegin, walkVars
<1>2. list'[a] = head' /\ temp'[a] = head' /\ adder'[a] = "search" /\ Adders = {a}
  BY <1>1, Alone
<1>3. Well(head)' /\ Well(head_local)' /\ \A b \in Adders : Well(list[b])'
  BY <1>1, <1>2 DEF Well
<1>4. Covers' /\ Popping'
  BY <1>1, <1>2 DEF Covers, Popping, List, Chain
<1>5. \A c, d \in List : dtor[c].id = dtor[d].id => c = d
  BY DEF Well, Good, Single, List, Chain
<1>6. Searching'
  BY <1>1, <1>2, <1>5 DEF Searching, Sought, List, Chain
<1>7. Standing'
  <2>1. Known = List /\ Known' = List'
    BY <1>1, <1>2, ReachedNull DEF Known, Covers, List, Chain
  <2> QED BY <1>1, <2>1 DEF Standing, List, Chain
<1> QED BY <1>3, <1>4, <1>6, <1>7

\* ... while it searches ...
LEMMA NextKept ==
    ASSUME OneAdder, TypeOK, TypeOK', ListInv,
           NEW a \in Adders, AddNext(a)
    PROVE  ListInv'
<1> USE DEF ListInv, TypeOK
<1>0. NoLink
  BY ListAssumption DEF NoLink
<1>1. /\ temp' = [temp EXCEPT ![a] = dtor[temp[a]].next]
      /\ adder[a] = "search" /\ temp[a] \in Cells /\ dtor[temp[a]].id # id[a]
      /\ UNCHANGED <<head, dtor, freed, adder, list, id, monitor, checker, head_local,
                     silence, misled>>
  BY DEF AddNext, walkVars, Links
<1>2. Adders = {a} /\ temp'[a] = dtor[temp[a]].next
  BY <1>1, Alone
<1>3. Well(head)' /\ Well(head_local)' /\ \A b \in Adders : Well(list[b])'
  BY <1>1 DEF Well
<1>4. Covers' /\ Popping' /\ Standing'
  BY <1>1 DEF Covers, Popping, Standing, Known, List, Chain
<1>5. Searching'
  <2>1. /\ Reached(dtor, temp'[a]) \subseteq Reached(dtor, temp[a])
        /\ Reached(dtor, temp[a]) \subseteq {temp[a]} \cup Reached(dtor, temp'[a])
    BY <1>0, <1>1, <1>2, ReachedNext
  <2>2. /\ \A c \in Cells : Sought(a, c) => c \in Reached(dtor, temp[a])
        /\ \A c, d \in Reached(dtor, list[a]) \cup Reached(dtor, temp[a]) :
              dtor[c].id = dtor[d].id => c = d
    BY <1>1 DEF Searching, Chain
  <2>3. \A c \in Cells : Sought(a, c)' => c \in Reached(dtor, temp'[a])
    BY <1>1, <2>1, <2>2 DEF Sought, Chain
  <2>4. \A c, d \in Reached(dtor, list[a]) \cup Reached(dtor, temp'[a]) :
              dtor[c].id = dtor[d].id => c = d
    BY <2>1, <2>2
  <2>5. adder'[a] = "search" /\ dtor' = dtor /\ list' = list
    BY <1>1
  <2> QED BY <1>2, <2>3, <2>4, <2>5 DEF Searching, Chain
<1> QED BY <1>3, <1>4, <1>5

\* ... and finds a cell, the only one of the detector ...
LEMMA FoundKept ==
    ASSUME OneAdder, TypeOK, TypeOK', ListInv,
           NEW a \in Adders, AddFound(a)
    PROVE  ListInv'
<1> USE DEF ListInv, TypeOK
<1>1. /\ adder' = [adder EXCEPT ![a] = "stamp"]
      /\ adder[a] = "search" /\ temp[a] \in Cells /\ dtor[temp[a]].id = id[a]
      /\ UNCHANGED <<head, dtor, freed, list, temp, id, monitor, checker, head_local,
                     silence, misled>>
  BY DEF AddFound, walkVars, Links
<1>2. Adders = {a} /\ adder'[a] = "stamp"
  BY <1>1, Alone
<1>3. Well(head)' /\ Well(head_local)' /\ \A b \in Adders : Well(list[b])'
  BY <1>1 DEF Well
<1>4. Covers' /\ Popping' /\ Standing'
  BY <1>1, <1>2 DEF Covers, Popping, Standing, Known, List, Chain
<1>5. Searching'
  <2>1. temp[a] \in Chain(temp[a])
    BY <1>1, ReachedClosed, ListAssumption DEF Chain, NoLink, Links
  <2>2. \A c \in Cells : Sought(a, c) => c = temp[a]
    BY <1>1, <2>1 DEF Searching, Sought
  <2>3. \A c \in Cells : Sought(a, c)' => c = temp'[a]
    BY <1>1, <2>2 DEF Sought, Chain
  <2> QED BY <1>1, <1>2, <2>3 DEF Searching
<1> QED BY <1>3, <1>4, <1>5

\* ... when no memory is left ...
LEMMA FailsKept ==
    ASSUME OneAdder, TypeOK, TypeOK', ListInv,
           NEW a \in Adders, AddFails(a)
    PROVE  ListInv'
<1> USE DEF ListInv, TypeOK
<1>1. /\ adder' = [adder EXCEPT ![a] = "store"] /\ temp' = [temp EXCEPT ![a] = NULL]
      /\ adder[a] = "search"
      /\ UNCHANGED <<head, dtor, freed, list, monitor, checker, head_local, silence, misled>>
  BY DEF AddFails, ToStore, walkVars
<1>2. Adders = {a} /\ adder'[a] = "store" /\ temp'[a] = NULL
  BY <1>1, Alone
<1>3. Well(head)' /\ Well(head_local)' /\ \A b \in Adders : Well(list[b])'
  BY <1>1 DEF Well
<1>4. Covers' /\ Popping' /\ Standing'
  BY <1>1, <1>2 DEF Covers, Popping, Standing, Known, List, Chain
<1>5. Searching'
  BY <1>2 DEF Searching
<1> QED BY <1>3, <1>4, <1>5

\* ... and when it stores the head.
LEMMA StoreKept ==
    ASSUME OneAdder, TypeOK, TypeOK', ListInv,
           NEW a \in Adders, AddStore(a)
    PROVE  ListInv'
<1> USE DEF ListInv, TypeOK
<1>1. /\ adder' = [adder EXCEPT ![a] = "idle"] /\ list' = [list EXCEPT ![a] = NULL]
      /\ adder[a] = "store" /\ head' = list[a]
      /\ UNCHANGED <<dtor, freed, temp, monitor, checker, head_local, silence, misled>>
  BY DEF AddStore, walkVars
<1>2. Adders = {a} /\ adder'[a] = "idle" /\ list'[a] = NULL
  BY <1>1, Alone
<1>3. Well(head)' /\ Well(head_local)' /\ \A b \in Adders : Well(list[b])'
  BY <1>1, <1>2, GoodNull DEF Well
<1>4. List \subseteq List' /\ Known = List' /\ Known' = List'
  BY <1>1, <1>2, ReachedNull DEF Covers, Known, List, Chain
<1>5. Covers' /\ Popping' /\ Standing'
  BY <1>1, <1>2, <1>4 DEF Covers, Popping, Standing
<1>6. Searching'
  BY <1>1, <1>2 DEF Searching
<1> QED BY <1>3, <1>5, <1>6

\* During a call everything hangs from the head that will be stored.
LEMMA InCall ==
    ASSUME OneAdder, TypeOK, ListInv, NEW a \in Adders, adder[a] # "idle"
    PROVE  /\ Adders = {a} /\ Known = Chain(list[a])
           /\ List \subseteq Chain(list[a]) /\ Chain(head_local) \subseteq List
<1> USE DEF ListInv, TypeOK
<1>0. NoLink
  BY ListAssumption DEF NoLink
<1>1. Adders = {a}
  BY Alone
<1>2. List \subseteq Chain(list[a])
  BY DEF Covers
<1>3. Chain(head_local) \subseteq List
  BY <1>0, ReachedOn DEF Popping, List, Chain
<1> QED BY <1>1, <1>2, <1>3 DEF Known

\* The chains stay when every cell keeps its link.
LEMMA ChainsStay ==
    ASSUME NoLink, NEW m \in Memory, NEW n \in Memory, \A c \in Cells : n[c].next = m[c].next
    PROVE  \A link \in Links : Reached(n, link) = Reached(m, link)
<1> SUFFICES ASSUME NEW link \in Links PROVE Reached(n, link) = Reached(m, link)
  OBVIOUS
<1>1. Reached(m, link) \subseteq Cells
  BY DEF Reached
<1> QED BY <1>1, ReachedSame

\* The cell found is stamped with the time of the report, freed meanwhile or not.
LEMMA StampKept ==
    ASSUME OneAdder, TypeOK, TypeOK', ListInv,
           NEW a \in Adders, AddStamp(a)
    PROVE  ListInv'
<1> USE DEF ListInv, TypeOK
<1>0. NoLink
  BY ListAssumption DEF NoLink
<1>1. /\ adder' = [adder EXCEPT ![a] = "store"] /\ temp' = [temp EXCEPT ![a] = NULL]
      /\ adder[a] = "stamp" /\ temp[a] \in Cells /\ id[a] \in Detectors
      /\ silence' = [silence EXCEPT ![id[a]] = timestamp[a]]
      /\ UNCHANGED <<head, freed, list, monitor, checker, head_local, misled>>
  BY DEF AddStamp, ToStore, walkVars, Links
<1>2. Adders = {a} /\ adder'[a] = "store" /\ temp'[a] = NULL
  BY <1>1, Alone
<1>3. \A c \in Cells :
         /\ dtor'[c].next = dtor[c].next /\ dtor'[c].id = dtor[c].id
         /\ dtor'[c].age = IF c = temp[a] THEN timestamp[a] ELSE dtor[c].age
  BY <1>1 DEF AddStamp, Memory, Contents
<1>4. \A link \in Links : Reached(dtor', link) = Reached(dtor, link)
  BY <1>0, <1>3, ChainsStay
<1>5. ASSUME NEW link \in Links, Good(dtor, freed, silence, link),
             Reached(dtor, link) \subseteq Chain(list[a])
      PROVE  Good(dtor', freed, silence', link)
  <2>1. ASSUME NEW c \in Reached(dtor, link)
        PROVE  /\ dtor'[c].next = dtor[c].next /\ dtor'[c].id = dtor[c].id
               /\ c \notin freed /\ dtor'[c].age <= silence'[dtor[c].id]
    <3>1. c \in Cells /\ c \in Chain(list[a])
      BY <1>5 DEF Reached
    <3>2. c \notin freed /\ dtor[c].id \in Detectors /\ dtor[c].age <= silence[dtor[c].id]
      BY <1>5 DEF Good, InUse
    <3>3. /\ dtor[temp[a]].id = id[a]
          /\ dtor[c].id = id[a] => c = temp[a]
      BY <1>1, <3>1 DEF Searching, Sought
    <3>4. timestamp[a] <= timestamp[a]
      BY ListAssumption DEF Ages
    <3> QED BY <1>1, <1>3, <3>1, <3>2, <3>3, <3>4
  <2> QED BY <1>0, <1>5, <2>1, GoodSame
<1>6. Well(head)' /\ Well(head_local)' /\ \A b \in Adders : Well(list[b])'
  <2>1. List \subseteq Chain(list[a]) /\ Chain(head_local) \subseteq List
    BY <1>1, InCall
  <2> QED BY <1>1, <1>2, <1>5, <2>1 DEF Well, List, Chain
<1>7. List' = List /\ Known' = Known /\ Chain(list[a])' = Chain(list[a])
  BY <1>1, <1>2, <1>4 DEF Known, List, Chain
<1>8. Covers' /\ Popping'
  BY <1>1, <1>2, <1>7 DEF Covers, Popping
<1>9. Standing'
  BY <1>1, <1>3, <1>7 DEF Standing, Links
<1>10. Searching'
  BY <1>2 DEF Searching
<1> QED BY <1>6, <1>8, <1>9, <1>10

\* A detector without a cell gets one, which may be the one the walk stands on.
LEMMA PushKept ==
    ASSUME OneAdder, TypeOK, TypeOK', ListInv,
           NEW a \in Adders, AddPush(a)
    PROVE  ListInv'
<1> USE DEF ListInv, TypeOK
<1>0. NoLink /\ HEART_BEAT_TIME \in Nat
  BY ListAssumption DEF NoLink
<1>1. /\ adder' = [adder EXCEPT ![a] = "store"] /\ temp' = [temp EXCEPT ![a] = NULL]
      /\ adder[a] = "search" /\ temp[a] = NULL
      /\ id[a] \in Detectors /\ timestamp[a] \in Ages
      /\ silence' = [silence EXCEPT ![id[a]] = timestamp[a]]
      /\ UNCHANGED <<head, monitor, checker, head_local, misled>>
  BY DEF AddPush, ToStore, walkVars
<1>2. PICK c \in Available :
         /\ Pushed(dtor, dtor', list[a], c, id[a], timestamp[a])
         /\ freed' = freed \ {c} /\ list' = [list EXCEPT ![a] = c]
  BY DEF AddPush, Pushed
<1>3. /\ Adders = {a} /\ adder'[a] = "store" /\ temp'[a] = NULL /\ list'[a] = c
      /\ Known = Chain(list[a])
      /\ List \subseteq Chain(list[a]) /\ Chain(head_local) \subseteq List
  BY <1>1, <1>2, InCall
<1>4. c \in Cells /\ c \notin Chain(list[a])
  BY <1>2 DEF Available, Well, Good, InUse, Chain
<1>5. \A d \in Chain(list[a]) : d \in Cells /\ dtor[d].id # id[a]
  BY <1>1, ReachedNull DEF Searching, Sought, Chain, Reached
<1>6. /\ Reached(dtor', c) = {c} \cup Chain(list[a])
      /\ Good(dtor', freed', silence', c)
  <2> DEFINE l == list[a]
             k == id[a]
             x == timestamp[a]
  <2>1. /\ c \notin Reached(dtor, l) /\ Good(dtor, freed, silence, l)
        /\ \A d \in Reached(dtor, l) : dtor[d].id # k
    BY <1>4, <1>5 DEF Well, Chain
  <2>2. /\ dtor \in Memory /\ dtor' \in Memory /\ l \in Links
        /\ silence \in [Detectors -> Ages] /\ c \in Cells /\ k \in Detectors /\ x \in Ages
        /\ Pushed(dtor, dtor', l, c, k, x) 
        /\ silence'[k] = x /\ \A j \in Detectors \ {k} : silence'[j] = silence[j]
    BY <1>1, <1>2, <1>4
  <2> HIDE DEF TypeOK, ListInv, l, k, x
  <2>3. Good(dtor', freed \ {c}, silence', c)
    BY <1>0, <2>1, <2>2, GoodPushed
  <2>4. dtor'[c].next = l /\ \A d \in Cells \ {c} : dtor'[d].next = dtor[d].next
    BY <2>2 DEF Pushed, Memory
  <2>5. Reached(dtor', c) = {c} \cup Reached(dtor, l)
    BY <1>0, <2>1, <2>2, <2>4, ReachedPushed
  <2> QED BY <1>2, <2>3, <2>5 DEF Chain, l
<1>7. \A d \in Cells \ {c} : dtor'[d] = dtor[d]
  BY <1>2 DEF Pushed, Memory
<1>8. ASSUME NEW link \in Links, Well(link), Chain(link) \subseteq Chain(list[a])
      PROVE  Reached(dtor', link) = Chain(link) /\ Good(dtor', freed', silence', link)
  <2>1. ASSUME NEW d \in Reached(dtor, link)
        PROVE  /\ dtor'[d].next = dtor[d].next /\ dtor'[d].id = dtor[d].id
               /\ d \notin freed' /\ dtor'[d].age <= silence'[dtor[d].id]
    <3>1. d \in Cells \ {c} /\ dtor[d].id # id[a]
      BY <1>4, <1>5, <1>8 DEF Chain
    <3>2. d \notin freed /\ dtor[d].id \in Detectors /\ dtor[d].age <= silence[dtor[d].id]
      BY <1>8 DEF Well, Good, InUse
    <3> QED BY <1>1, <1>2, <1>7, <3>1, <3>2
  <2> QED BY <1>0, <1>8, <2>1, GoodSame DEF Well, Chain
<1>9. List' = List /\ Well(head)' /\ Well(head_local)' /\ \A b \in Adders : Well(list[b])'
  BY <1>1, <1>3, <1>6, <1>8 DEF Well, List, Chain
<1>10. Known' = {c} \cup Known
  BY <1>3, <1>6, <1>9 DEF Known, Chain
<1>11. Covers' /\ Popping'
  BY <1>1, <1>3, <1>6, <1>9 DEF Covers, Popping, Chain
<1>12. Standing'
  <2>1. dtor'[c].next = list[a]
    BY <1>2, <1>4 DEF Pushed, Memory
  <2>2. list[a] \in Known \cup {NULL}
    BY <1>0, <1>3, ReachedClosed DEF Chain
  <2>3. CASE monitor = "step" /\ checker = c
    BY <1>1, <1>10, <2>1, <2>2, <2>3 DEF Standing
  <2>4. CASE monitor = "step" /\ checker # c
    <3>1. checker \in Cells \ {c}
      BY <2>4 DEF Links
    <3> QED BY <1>1, <1>7, <1>10, <2>4, <3>1 DEF Standing
  <2>5. CASE monitor # "step"
    BY <1>1, <1>10, <2>5 DEF Standing
  <2> QED BY <2>3, <2>4, <2>5
<1>13. Searching'
  BY <1>3 DEF Searching
<1> QED BY <1>9, <1>11, <1>12, <1>13

\* The walk keeps it as it goes on, with a list that changes behind it ...
LEMMA WalkKept ==
    ASSUME TypeOK, TypeOK', ListInv,
           WalkBegin \/ WalkFresh \/ WalkLost \/ PopGet \/ WalkStep
    PROVE  ListInv'
<1> USE DEF ListInv, TypeOK
<1>0. NoLink
  BY ListAssumption DEF NoLink
<1>1. UNCHANGED <<head, dtor, freed, adder, list, temp, id, timestamp, silence>>
  BY DEF WalkBegin, WalkFresh, WalkLost, PopGet, WalkStep, callVars
<1>2. List' = List /\ Known' = Known /\ \A link : Reached(dtor', link) = Reached(dtor, link)
  BY <1>1 DEF List, Known, Chain
<1>3. \/ UNCHANGED head_local /\ monitor # "pop" /\ monitor' # "pop"
      \/ head_local' = head /\ monitor' = "pop"
  BY DEF WalkBegin, WalkFresh, WalkLost, PopGet, WalkStep
<1>4. Well(head)' /\ Well(head_local)' /\ \A a \in Adders : Well(list[a])'
  BY <1>1, <1>3 DEF Well
<1>5. head \in List \cup {NULL} /\ \A c \in Known : dtor[c].next \in Known \cup {NULL}
  BY <1>0, ReachedClosed DEF List, Known, Chain
<1>6. Covers' /\ Searching'
  BY <1>1, <1>2 DEF Covers, Searching, Sought, Chain
<1>7. Popping'
  BY <1>2, <1>3, <1>5 DEF Popping
<1>8. Standing'
  <2>1. CASE WalkBegin
    BY <1>1, <1>2, <1>5, <2>1 DEF WalkBegin, Standing, Known
  <2>2. CASE WalkFresh \/ WalkStep
    <3>1. /\ checker' = dtor[checker].next /\ monitor' = "walk"
          /\ misled' = IF checker' = NULL THEN misled \ {"walk"} ELSE misled
      BY <2>2 DEF WalkFresh, WalkStep, GoOnTo
    <3>2. "walk" \notin misled => dtor[checker].next \in Known \cup {NULL}
      BY <1>5, <2>2 DEF Standing, WalkFresh, WalkStep
    <3> QED BY <1>2, <3>1, <3>2 DEF Standing
  <2>3. CASE WalkLost \/ PopGet
    BY <1>2, <2>3 DEF WalkLost, PopGet, Standing
  <2> QED BY <2>1, <2>2, <2>3
<1> QED BY <1>4, <1>6, <1>7, <1>8

\* ... and so does time.
LEMMA TickKept ==
    ASSUME TypeOK, TypeOK', ListInv, Tick PROVE ListInv'
<1> USE DEF ListInv, TypeOK
<1>0. NoLink /\ HEART_BEAT_TIME \in Nat
  BY ListAssumption DEF NoLink
<1>1. UNCHANGED <<head, freed, adder, list, temp, id, monitor, checker, head_local, misled>>
  BY DEF Tick, walkVars
<1>2. \A c \in Cells : /\ dtor'[c].next = dtor[c].next /\ dtor'[c].id = dtor[c].id
                       /\ dtor'[c].age = Older(dtor[c].age)
  BY DEF Tick, Memory, Contents
<1>3. \A k \in Detectors : silence'[k] = Older(silence[k])
  BY DEF Tick
<1>4. \A x, y \in Ages : x <= y => Older(x) <= Older(y)
  BY <1>0 DEF Older, Ages
<1>5. \A link \in Links : Reached(dtor', link) = Reached(dtor, link)
  BY <1>0, <1>2, ChainsStay
<1>6. ASSUME NEW link \in Links, Well(link)
      PROVE  Good(dtor', freed, silence', link)
  <2>1. ASSUME NEW c \in Reached(dtor, link)
        PROVE  /\ dtor'[c].next = dtor[c].next /\ dtor'[c].id = dtor[c].id
               /\ c \notin freed /\ dtor'[c].age <= silence'[dtor[c].id]
    <3>1. c \in Cells
      BY DEF Reached
    <3>2. c \notin freed /\ dtor[c].id \in Detectors /\ dtor[c].age <= silence[dtor[c].id]
      BY <1>6 DEF Well, Good, InUse
    <3>3. dtor[c].age \in Ages /\ silence[dtor[c].id] \in Ages
      BY <3>1, <3>2 DEF Memory, Contents
    <3> QED BY <1>2, <1>3, <1>4, <3>1, <3>2, <3>3
  <2> QED BY <1>0, <1>6, <2>1, GoodSame DEF Well
<1>7. Well(head)' /\ Well(head_local)' /\ \A a \in Adders : Well(list[a])'
  BY <1>1, <1>6 DEF Well
<1>8. /\ List' = List /\ Known' = Known
      /\ \A a \in Adders : /\ Chain(list[a])' = Chain(list[a])
                           /\ Chain(temp[a])' = Chain(temp[a])
  BY <1>1, <1>5 DEF List, Known, Chain
<1>9. Covers' /\ Popping'
  BY <1>1, <1>8 DEF Covers, Popping
<1>10. Standing'
  BY <1>1, <1>2, <1>8 DEF Standing, Links
<1>11. Searching'
  <2>1. \A a \in Adders : \A c \in Cells : Sought(a, c)' <=> Sought(a, c)
    BY <1>1, <1>2, <1>8 DEF Sought
  <2>2. \A a \in Adders : \A c \in Chain(list[a]) \cup Chain(temp[a]) : dtor'[c].id = dtor[c].id
    BY <1>2 DEF Chain, Reached
  <2>3. \A a \in Adders : temp[a] # NULL => dtor'[temp[a]].id = dtor[temp[a]].id
    BY <1>2 DEF Links
  <2>4. \A a \in Adders : adder[a] = "stamp" => temp[a] # NULL
    OBVIOUS
  <2> QED BY <1>1, <1>8, <2>1, <2>2, <2>3, <2>4 DEF Searching
<1> QED BY <1>7, <1>9, <1>10, <1>11

\* Another task writes only into cells that are in no list.  The walk that stands on one is
\* misled.
LEMMA OverwriteKept ==
    ASSUME TypeOK, TypeOK', ListInv, NEW c \in Cells, Overwrite(c)
    PROVE  "search" \in misled' \/ ListInv'
<1> SUFFICES ASSUME "search" \notin misled' PROVE ListInv'
  OBVIOUS
<1> USE DEF ListInv, TypeOK
<1>0. NoLink
  BY ListAssumption DEF NoLink
<1>1. /\ UNCHANGED <<head, freed, adder, list, temp, id, monitor, checker, head_local,
                     silence>>
      /\ c \in freed
      /\ \A a \in Adders : c \notin Chain(temp[a])
      /\ "walk" \in misled'
  BY DEF Overwrite, callVars, walkVars
<1>2. \A d \in Cells \ {c} : dtor'[d] = dtor[d]
  BY DEF Overwrite, Memory
<1>3. ASSUME NEW link \in Links, c \notin Reached(dtor, link)
      PROVE  Reached(dtor', link) = Reached(dtor, link)
  <2>1. \A d \in Reached(dtor, link) : dtor'[d].next = dtor[d].next
    BY <1>2, <1>3 DEF Reached
  <2> QED BY <1>0, <2>1, ReachedSame
<1>4. ASSUME NEW link \in Links, Well(link)
      PROVE  c \notin Reached(dtor, link) /\ Good(dtor', freed, silence, link)
  <2>1. c \notin Reached(dtor, link)
    BY <1>1, <1>4 DEF Well, Good, InUse
  <2>2. ASSUME NEW d \in Reached(dtor, link)
        PROVE  /\ dtor'[d].next = dtor[d].next /\ dtor'[d].id = dtor[d].id
               /\ d \notin freed /\ dtor'[d].age <= silence[dtor[d].id]
    <3>1. dtor'[d] = dtor[d]
      BY <1>2, <2>1 DEF Reached
    <3> QED BY <1>4, <3>1 DEF Well, Good, InUse
  <2> QED BY <1>0, <1>4, <2>1, <2>2, GoodSame DEF Well
<1>5. Well(head)' /\ Well(head_local)' /\ \A a \in Adders : Well(list[a])'
  BY <1>1, <1>4 DEF Well
<1>6. /\ List' = List
      /\ \A a \in Adders : /\ Chain(list[a])' = Chain(list[a])
                           /\ Chain(temp[a])' = Chain(temp[a])
  BY <1>1, <1>3, <1>4 DEF List, Chain
<1>7. Covers' /\ Popping' /\ Standing'
  BY <1>1, <1>6 DEF Covers, Popping, Standing
<1>8. Searching'
  <2>1. \A a \in Adders : c \notin Chain(list[a])
    BY <1>4 DEF Chain
  <2>2. \A a \in Adders : \A d \in Chain(list[a]) \cup Chain(temp[a]) : dtor'[d].id = dtor[d].id
    BY <1>1, <1>2, <2>1 DEF Chain, Reached
  <2>3. \A a \in Adders : \A d \in Cells : Sought(a, d)' <=> Sought(a, d)
    BY <1>1, <1>6, <2>2 DEF Sought
  <2>4. \A a \in Adders : adder[a] = "stamp" => dtor'[temp[a]].id = dtor[temp[a]].id
    <3> SUFFICES ASSUME NEW a \in Adders, adder[a] = "stamp"
                 PROVE  dtor'[temp[a]].id = dtor[temp[a]].id
      OBVIOUS
    <3>1. temp[a] \in Chain(temp[a])
      BY <1>0, ReachedClosed DEF Chain
    <3> QED BY <2>2, <3>1
  <2> QED BY <1>1, <1>6, <2>2, <2>3, <2>4 DEF Searching
<1> QED BY <1>5, <1>7, <1>8

\* What the walk stands on, unless it is misled, is the only known cell of its detector.
LEMMA OneLost ==
    ASSUME OneAdder, TypeOK, ListInv, monitor = "pop", "walk" \notin misled,
           NEW c \in List, dtor[c].id = dtor[checker].id
    PROVE  c = checker
<1> USE DEF ListInv, TypeOK
<1>1. checker \in Known
  BY DEF Standing
<1>2. CASE \A a \in Adders : adder[a] = "idle"
  <2>1. Known = List
    BY <1>2, ReachedNull DEF Known, Covers, Chain
  <2> QED BY <1>1, <2>1 DEF Well, Good, Single, List, Chain
<1>3. ASSUME NEW a \in Adders, adder[a] # "idle" PROVE c = checker
  <2>1. Known = Chain(list[a]) /\ List \subseteq Chain(list[a])
    BY <1>3, InCall
  <2> QED BY <1>1, <2>1 DEF Well, Good, Single, Chain
<1> QED BY <1>2, <1>3

\* pop_state keeps the invariant: on the first cell ...
LEMMA PopHeadKept ==
    ASSUME OneAdder, TypeOK, TypeOK', ListInv, PopState, PopHead
    PROVE  ListInv'
<1> USE DEF ListInv, TypeOK
<1>0. NoLink
  BY ListAssumption DEF NoLink
<1>1. /\ head_local' = NULL /\ monitor = "pop" /\ monitor' = "step"
      /\ UNCHANGED <<dtor, freed, adder, list, temp, id, checker, silence, misled>>
  BY DEF PopState, PopHead, callVars
<1>2. /\ head_local \in Cells /\ head_local \in List
      /\ dtor[head_local].id = dtor[checker].id /\ head' = dtor[head_local].next
  BY <1>1 DEF PopHead, Popping, Links
<1>3. /\ Reached(dtor, head') = Reached(dtor, head_local) \ {head_local}
      /\ Good(dtor, freed, silence, head')
  BY <1>0, <1>2, GoodPopped DEF Well
<1>4. List' \subseteq List /\ head' \in List' \cup {NULL}
  BY <1>0, <1>1, <1>2, <1>3, ReachedOn, ReachedClosed DEF List, Chain
<1>5. Well(head)' /\ Well(head_local)' /\ \A a \in Adders : Well(list[a])'
  BY <1>1, <1>3, GoodNull DEF Well
<1>6. Covers' /\ Popping' /\ Searching'
  BY <1>1, <1>4 DEF Covers, Popping, Searching, Sought, Chain
<1>7. Standing'
  <2>1. "walk" \notin misled => head_local = checker
    BY <1>1, <1>2, OneLost
  <2> QED BY <1>1, <1>2, <1>4, <2>1 DEF Standing, Known
<1> QED BY <1>5, <1>6, <1>7

\* ... on a later one, unlinked from the list and from what is about to be stored ...
LEMMA PopInnerKept ==
    ASSUME OneAdder, TypeOK, TypeOK', ListInv, PopState, PopInner
    PROVE  ListInv'
<1> USE DEF ListInv, TypeOK
<1>0. NoLink /\ NULL \notin Cells
  BY ListAssumption DEF NoLink
<1>1. /\ head_local' = NULL /\ monitor = "pop" /\ monitor' = "step"
      /\ UNCHANGED <<head, adder, list, temp, id, checker, silence, misled>>
  BY DEF PopState, PopInner, callVars
<1>2. PICK prev \in Chain(head_local), c \in Cells :
         /\ FirstOf(c, dtor[checker].id, head_local) /\ dtor[prev].next = c
         /\ dtor' = [dtor EXCEPT ![prev].next = dtor[c].next]
         /\ freed' = freed \cup {c}
  BY DEF PopInner
<1>3. Chain(head_local) \subseteq List
  BY <1>0, <1>1, ReachedOn DEF Popping, List, Chain
<1>4. prev \in List /\ c \in List /\ dtor[c].id = dtor[checker].id
  BY <1>2, <1>3 DEF FirstOf, CellsOf
<1>5. prev \in Cells
  BY <1>2 DEF Chain, Reached
<1>6. ASSUME NEW link \in Links, Well(link), prev \in Reached(dtor, link)
      PROVE  /\ Reached(dtor', link) = Reached(dtor, link) \ {c}
             /\ Good(dtor', freed', silence', link)
             /\ prev # c /\ c # link
  <2>1. Unlinked(dtor, dtor', link, prev, c)
    BY <1>2, <1>6 DEF Unlinked
  <2>2. prev # c /\ c # link
    BY <1>0, <1>6, <2>1, ReachedUnlinked DEF Well, Good
  <2> QED BY <1>0, <1>1, <1>2, <1>6, <2>1, <2>2, GoodUnlinked DEF Well
<1>7. List' = List \ {c} /\ Well(head)' /\ prev # c /\ c # head
  BY <1>1, <1>4, <1>6 DEF Well, List, Chain
<1>8. \A d \in Cells : /\ dtor'[d].id = dtor[d].id
                       /\ d # prev => dtor'[d].next = dtor[d].next
                       /\ d = prev => dtor'[d].next = dtor[c].next
  BY <1>2, <1>5 DEF Memory, Contents
<1>9. \A link \in Links : /\ Reached(dtor', link) \subseteq Reached(dtor, link)
                          /\ Reached(dtor, link) \ {c} \subseteq Reached(dtor', link)
  <2> SUFFICES ASSUME NEW link \in Links
               PROVE  /\ Reached(dtor', link) \subseteq Reached(dtor, link)
                      /\ Reached(dtor, link) \ {c} \subseteq Reached(dtor', link)
    OBVIOUS
  <2>1. /\ dtor \in Memory /\ dtor' \in Memory /\ dtor[prev].next = c
        /\ dtor'[prev].next = dtor[c].next
        /\ \A d \in Cells \ {prev} : dtor'[d].next = dtor[d].next
    BY <1>2, <1>5, <1>8
  <2> HIDE DEF ListInv, TypeOK
  <2> QED BY <1>0, <1>5, <1>7, <2>1, ReachedElsewhere
<1>10. ASSUME NEW a \in Adders
       PROVE  /\ Well(list[a])'
              /\ adder[a] # "idle" => Chain(list[a])' = Chain(list[a]) \ {c}
              /\ adder[a] = "idle" => list[a] = NULL
  <2>1. adder[a] = "idle" => list[a] = NULL
    BY DEF Covers
  <2>2. CASE adder[a] = "idle"
    BY <1>1, <2>1, <2>2, GoodNull DEF Well
  <2>3. CASE adder[a] # "idle"
    <3>1. prev \in Reached(dtor, list[a])
      BY <1>4, <2>3 DEF Covers, Chain
    <3> QED BY <1>1, <1>6, <2>3, <3>1 DEF Well, Chain
  <2> QED BY <2>1, <2>2, <2>3
<1>11. Well(head_local)'
  BY <1>1, GoodNull DEF Well
<1>12. Covers' /\ Popping'
  BY <1>1, <1>7, <1>10 DEF Covers, Popping
<1>13. Searching'
  <2>1. ASSUME NEW a \in Adders, NEW d \in Cells, Sought(a, d)'
        PROVE  Sought(a, d) /\ d # c
    <3>1. d \in Chain(list[a]) /\ d # c
      BY <1>1, <1>10, <2>1, ReachedNull DEF Sought, Chain
    <3> QED BY <1>1, <1>8, <2>1, <3>1 DEF Sought
  <2>2. \A a \in Adders : /\ Chain(list[a])' \subseteq Chain(list[a])
                          /\ Chain(temp[a])' \subseteq Chain(temp[a])
                          /\ Chain(temp[a]) \ {c} \subseteq Chain(temp[a])'
    BY <1>1, <1>9 DEF Chain
  <2>3. \A a \in Adders : \A d \in Chain(list[a]) \cup Chain(temp[a]) : dtor'[d].id = dtor[d].id
    BY <1>8 DEF Chain, Reached
  <2>4. \A a \in Adders : adder[a] = "stamp" => dtor'[temp[a]].id = dtor[temp[a]].id
    BY <1>8 DEF Links
  <2>5. ASSUME NEW a \in Adders, adder[a] = "search"
        PROVE  /\ \A d \in Cells : Sought(a, d)' => d \in Chain(temp[a])'
               /\ \A d, e \in Chain(list[a])' \cup Chain(temp[a])' :
                     dtor'[d].id = dtor'[e].id => d = e
    BY <2>1, <2>2, <2>3, <2>5 DEF Searching
  <2>6. ASSUME NEW a \in Adders, adder[a] = "stamp"
        PROVE  dtor'[temp'[a]].id = id'[a] /\ \A d \in Cells : Sought(a, d)' => d = temp'[a]
    BY <1>1, <2>1, <2>4, <2>6 DEF Searching
  <2>7. ASSUME NEW a \in Adders, adder[a] \notin {"search", "stamp"} PROVE temp'[a] = NULL
    BY <1>1, <2>7 DEF Searching
  <2> QED BY <1>1, <2>5, <2>6, <2>7 DEF Searching
<1>14. Standing'
  <2> SUFFICES ASSUME "walk" \notin misled PROVE dtor'[checker].next \in List' \cup {NULL}
    BY <1>1 DEF Standing, Known
  <2>1. c = checker
    BY <1>1, <1>4, OneLost
  <2>2. dtor[c].next \in List \cup {NULL} /\ dtor[c].next # c
    <3>1. dtor[c].next \in List \cup {NULL}
      BY <1>0, <1>4, ReachedClosed DEF List, Chain
    <3>2. \A d, e \in List : dtor[d].next = dtor[e].next /\ dtor[d].next # NULL => d = e
      BY DEF Well, Good, Path, List, Chain
    <3> QED BY <1>0, <1>2, <1>4, <1>7, <3>1, <3>2
  <2> QED BY <1>7, <1>8, <2>1, <2>2
<1> QED BY <1>7, <1>10, <1>11, <1>12, <1>13, <1>14

\* ... and when the detector is not in the list.
LEMMA PopNoneKept ==
    ASSUME OneAdder, TypeOK, TypeOK', ListInv, PopState, PopNone
    PROVE  ListInv'
<1> USE DEF ListInv, TypeOK
<1>0. NoLink
  BY ListAssumption DEF NoLink
<1>1. /\ head_local' = NULL /\ monitor = "pop" /\ monitor' = "step"
      /\ UNCHANGED <<head, dtor, freed, adder, list, temp, id, checker, silence, misled>>
  BY DEF PopState, PopNone, callVars
<1>2. Well(head)' /\ Well(head_local)' /\ \A a \in Adders : Well(list[a])'
  BY <1>1, GoodNull DEF Well
<1>3. Covers' /\ Popping' /\ Searching'
  BY <1>1 DEF Covers, Popping, Searching, Sought, List, Chain
<1>4. Standing'
  <2>1. \A c \in Known : dtor[c].next \in Known \cup {NULL}
    BY <1>0, ReachedClosed DEF Known, List, Chain
  <2> QED BY <1>1, <2>1 DEF Standing, Known, List, Chain
<1> QED BY <1>2, <1>3, <1>4

\* Every step keeps the invariant.
LEMMA HeartbeatKept ==
    ASSUME OneAdder, HeartbeatInv, [Next]_vars PROVE HeartbeatInv'
<1>1. TypeOK /\ TypeOK'
  BY TypeKept DEF HeartbeatInv
<1>2. CASE Panic
  BY <1>2, PanicGood
<1>3. CASE "search" \in misled /\ ~Panic
  <2>1. ASSUME NEW a \in Adders, NEW k \in Detectors, AddBegin(a, k)
        PROVE  "search" \in misled'
    BY <1>3, <2>1 DEF AddBegin
  <2>2. ASSUME NEW a \in Adders, AddGoesOn(a) PROVE "search" \in misled'
    BY <1>3, <2>2 DEF AddGoesOn, AddNext, AddFound, AddStamp, AddPush, AddFails, AddStore
  <2>3. ASSUME Walk PROVE "search" \in misled'
    BY <1>3, <2>3 DEF Walk, WalkBegin, WalkFresh, WalkLost, PopGet, PopState, WalkStep, GoOnTo
  <2>4. ASSUME NEW c \in Cells, Overwrite(c) PROVE "search" \in misled'
    BY <1>3, <2>4 DEF Overwrite
  <2>5. ASSUME Tick \/ UNCHANGED vars PROVE "search" \in misled'
    BY <1>3, <2>5 DEF Tick, vars
  <2> QED BY <1>1, <1>3, <2>1, <2>2, <2>3, <2>4, <2>5 DEF HeartbeatInv, Next
<1>4. CASE ListInv /\ ~Panic
  <2>1. ASSUME NEW a \in Adders, NEW k \in Detectors, AddBegin(a, k) PROVE ListInv'
    BY <1>1, <1>4, <2>1, BeginKept
  <2>2. ASSUME NEW a \in Adders, AddGoesOn(a) PROVE ListInv'
    BY <1>1, <1>4, <2>2, NextKept, FoundKept, StampKept, PushKept, FailsKept, StoreKept
    DEF AddGoesOn
  <2>3. ASSUME PopState PROVE ListInv'
    BY <1>1, <1>4, <2>3, PopHeadKept, PopInnerKept, PopNoneKept DEF PopState
  <2>4. ASSUME Walk PROVE ListInv'
    BY <1>1, <1>4, <2>3, <2>4, WalkKept DEF Walk
  <2>5. ASSUME NEW c \in Cells, Overwrite(c) PROVE "search" \in misled' \/ ListInv'
    BY <1>1, <1>4, <2>5, OverwriteKept
  <2>6. ASSUME Tick PROVE ListInv'
    BY <1>1, <1>4, <2>6, TickKept
  <2>7. ASSUME UNCHANGED vars PROVE ListInv'
    BY <1>4, <2>7 DEF vars, callVars, walkVars, ListInv, Well, Covers, Searching, Sought,
                      Popping, Standing, Known, List, Chain
  <2> QED BY <1>1, <1>4, <2>1, <2>2, <2>4, <2>5, <2>6, <2>7 DEF HeartbeatInv, Next
<1> QED BY <1>2, <1>3, <1>4 DEF HeartbeatInv

\* It says what the run checks of the list ...
LEMMA HeartbeatSound == ASSUME HeartbeatInv PROVE ListSound
<1> SUFFICES ASSUME "search" \notin misled PROVE ListSound
  BY DEF ListSound
<1>1. List \cap freed = {} /\ \A a \in Adders : Chain(list[a]) \cap freed = {}
  BY DEF HeartbeatInv, ListInv, Well, Good, InUse, List, Chain
<1>2. \A k \in Detectors : \A b, c \in CellsOf(k, List) : b = c
  BY DEF HeartbeatInv, ListInv, Well, Good, Single, CellsOf, List, Chain
<1> QED BY <1>1, <1>2 DEF ListSound

\* ... and of the steps that declare a detector lost.
LEMMA HeartbeatLoses ==
    ASSUME HeartbeatInv, [Next]_vars, monitor = "walk", monitor' = "lost",
           misled = {}
    PROVE  silence[dtor[checker].id] = HEART_BEAT_TIME
<1> USE DEF HeartbeatInv, ListInv, TypeOK
<1>1. WalkLost
  <2>1. ASSUME NEW a \in Adders, NEW k \in Detectors, AddBegin(a, k) PROVE FALSE
    BY <2>1 DEF AddBegin, walkVars
  <2>2. ASSUME NEW a \in Adders, AddGoesOn(a) PROVE FALSE
    BY <2>2 DEF AddGoesOn, AddNext, AddFound, AddStamp, AddPush, AddFails, AddStore, walkVars
  <2>3. ASSUME NEW c \in Cells, Overwrite(c) PROVE FALSE
    BY <2>3 DEF Overwrite, walkVars
  <2>4. ~Panic /\ ~Tick /\ ~UNCHANGED vars
    BY DEF Panic, Tick, vars, walkVars
  <2>5. ~WalkBegin /\ ~WalkFresh /\ ~PopGet /\ ~PopState /\ ~WalkStep
    BY DEF WalkBegin, WalkFresh, PopGet, PopState, WalkStep
  <2> QED BY <2>1, <2>2, <2>3, <2>4, <2>5 DEF Next, Walk
<1>2. checker \in Known /\ dtor[checker].age = HEART_BEAT_TIME
  BY <1>1 DEF WalkLost, Standing
<1>3. dtor[checker].id \in Detectors /\ HEART_BEAT_TIME <= silence[dtor[checker].id]
  BY <1>2 DEF Known, Well, Good, InUse, List, Chain
<1>4. silence[dtor[checker].id] \in 0..HEART_BEAT_TIME
  BY <1>3 DEF Ages
<1> QED BY <1>3, <1>4, ListAssumption

-----------------------------------------------------------------------------
\* The invariant holds in every state, with one adding task.
LEMMA HeartbeatHolds == ASSUME OneAdder PROVE Spec => []HeartbeatInv
<1>1. Init => HeartbeatInv
  BY InitGood
<1>2. HeartbeatInv /\ [Next]_vars => HeartbeatInv'
  BY OneAdder, HeartbeatKept
<1> QED BY <1>1, <1>2, PTL DEF Spec

\* Nothing in the heartbeat list, or about to be stored as the list, was freed, and no
\* detector is in it twice, for any memory and detectors, while one task adds and until
\* another task's data misleads its search (alarm_task.c, add_state and pop_state).
THEOREM ListCorrect == ASSUME OneAdder PROVE Spec => []ListSound
<1> QED BY OneAdder, HeartbeatHolds, HeartbeatSound, PTL

\* No detector is declared lost that was heard of within HEART_BEAT_TIME, whatever that is,
\* while one task adds and nobody is misled (alarm_task.c, Heartbeat_Task).
THEOREM LossCorrect == ASSUME OneAdder PROVE Spec => NoFalseLoss
<1>1. HeartbeatInv /\ [Next]_vars
         => [monitor = "walk" /\ monitor' = "lost" /\ misled = {}
                => silence[dtor[checker].id] = HEART_BEAT_TIME]_vars
  BY HeartbeatLoses
<1> QED BY OneAdder, <1>1, HeartbeatHolds, PTL DEF Spec, NoFalseLoss
=============================================================================
