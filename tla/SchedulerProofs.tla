-------------------------- MODULE SchedulerProofs --------------------------
(***************************************************************************)
(* Proofs about the scheduler, for any number of processes, with the       *)
(* timer, the keyboard, process creation and exit in any order.            *)
(***************************************************************************)
EXTENDS Scheduler, WellFoundedInduction, TLAPS

(* the values the variables take *)
SchedTypeOK ==
  /\ current_process \in Pids \cup {None} /\ process_list \in {None, 0}
  /\ next_pid \in 0 .. MaxProcs
  /\ state \in [Pids -> {"NONE", "RUNNING", "READY", "DEAD"}]
  /\ next \in [Pids -> Pids \cup {None}]
  /\ resume \in [Pids -> {"entry", "tick"}]
  /\ mode \in [Pids -> {"kernel", "user", "halted"}]
  /\ making \in [Pids -> [new : Pids \cup {None}, tail : Pids \cup {None}]]
  /\ IF_flag \in BOOLEAN /\ in_service \in SUBSET {TIMER, KEYBOARD}

(* before process_init there is no process at all, after it there is a     *)
(* list that starts with the kernel                                        *)
Started ==
  IF current_process = None THEN /\ process_list = None /\ next_pid = 0 /\ in_service = {}
       /\ \A p \in Pids : making[p] = NotMaking
  ELSE process_list = 0 /\ next_pid # 0

(* a pid that was not given out yet is nowhere *)
FreshPids ==
  \A p \in Pids : p >= next_pid =>
    /\ state[p] = "NONE" /\ next[p] = None /\ ~Linked(p)
    /\ \A q \in Pids : making[q].new # p

(* The list runs upwards through processes that are on it, so every one    *)
(* that something points to is reached from the head.                      *)
ListAscends ==
  /\ \A q \in Pids : next[q] # None => Linked(q) /\ q < next[q]
  /\ \A p \in Pids :
       state[p] # "NONE" /\ (\A q \in Pids : making[q].new # p) => Linked(p)

(* The first switch is to a process that was never run, and it leaves      *)
(* interrupts off for good: until then only the kernel has run, and after  *)
(* it the process that is current stays current.                           *)
OneSwitch ==
  IF current_process \in {None, 0}
  THEN /\ \A p \in Pids : resume[p] = "entry"
       /\ \A p \in Pids \ {0} : making[p] = NotMaking
  ELSE ~IF_flag

(* The process that the current one is creating comes after all that are   *)
(* on the list, and the end of the list it found is still the end.  (For a *)
(* process that was switched away from inside process_create this would be *)
(* false: the next one may append to the same end.)                        *)
Creation ==
  current_process # None =>
    LET m == making[current_process]
    IN  /\ m.new # None => \A p \in Pids : Linked(p) => p < m.new
        /\ m.tail # None => m.new # None /\ Linked(m.tail) /\ next[m.tail] = None

SchedInv ==
  /\ SchedTypeOK /\ Started /\ FreshPids /\ ListAscends /\ OneSwitch /\ Creation
  /\ OneRunning /\ MaskedUntilEOI

-----------------------------------------------------------------------------
(* Helpers *)

LEMMA Naturals0 == Pids \in SUBSET Nat /\ None \notin Nat /\ 0 \in Pids
BY MaxProcsAssumption DEF Pids, None

(* a set of naturals that has an element has a least one *)
LEMMA LeastElement ==
  ASSUME NEW T \in SUBSET Nat, T # {}
  PROVE  \E x \in T : \A y \in T : x <= y
<1>. DEFINE Less == {ss \in Nat \X Nat : ss[1] < ss[2]}
<1>a. IsWellFoundedOn(Less, Nat)
  BY NatLessThanWellFounded DEF OpToRel
<1>b. \A x, y \in Nat : y < x => <<y, x>> \in Less
  OBVIOUS
<1>. HIDE DEF Less
<1>1. PICK x \in T : \A y \in T : ~(<<y, x>> \in Less)
  BY Zenon, <1>a, WFMin
<1>2. \A y \in T : ~(y < x)
  BY Zenon, <1>b, <1>1
<1>3. \A y \in T : x <= y
  BY <1>2
<1>4. QED
  BY <1>3

(* induction: a set with 0 that is closed under successor is Nat *)
LEMMA SetInduction ==
  ASSUME NEW T \in SUBSET Nat, 0 \in T, \A n \in T : n + 1 \in T
  PROVE  T = Nat
<1>. SUFFICES ASSUME Nat \ T # {} PROVE FALSE
  BY Zenon
<1>1. PICK x \in Nat \ T : \A y \in Nat \ T : x <= y
  BY Zenon, LeastElement
<1>2. x # 0 /\ x - 1 \in Nat /\ ~(x <= x - 1)
  BY <1>1
<1>3. x - 1 \in T
  BY <1>1, <1>2
<1>4. (x - 1) + 1 \in T
  BY <1>3
<1>5. QED
  BY <1>1, <1>4

(* q lists the results of up to n iterations of g from a *)
Iterates(q, S, g, a, n) ==
  q \in [0 .. n -> S] /\ q[0] = a /\ \A k \in 1 .. n : q[k] = g[q[k - 1]]

(* iterating a function n times is defined *)
LEMMA IterationExists ==
  ASSUME NEW S, NEW g \in [S -> S], NEW a \in S, NEW N \in Nat
  PROVE  \E q : Iterates(q, S, g, a, N)
<1>. DEFINE T == {n \in Nat : \E q : Iterates(q, S, g, a, n)}
<1>1. 0 \in T
  <2>1. Iterates([k \in 0 .. 0 |-> a], S, g, a, 0)
    BY DEF Iterates
  <2>2. QED
    BY <2>1
<1>2. ASSUME NEW n \in T PROVE n + 1 \in T
  <2>1. PICK q : Iterates(q, S, g, a, n)
    BY <1>2
  <2>. DEFINE r == [k \in 0 .. n + 1 |-> IF k = n + 1 THEN g[q[n]] ELSE q[k]]
  <2>2. n \in Nat /\ q \in [0 .. n -> S] /\ q[n] \in S /\ g[q[n]] \in S
    BY <2>1 DEF Iterates
  <2>3. r \in [0 .. n + 1 -> S]
    BY <2>2
  <2>4. r[0] = a
    BY <2>1, <2>2 DEF Iterates
  <2>5. ASSUME NEW k \in 1 .. n + 1 PROVE r[k] = g[r[k - 1]]
    <3>1. r[k - 1] = q[k - 1]
      BY <2>2
    <3>2. CASE k = n + 1
      BY <2>2, <3>1, <3>2
    <3>3. CASE k \in 1 .. n
      <4>1. r[k] = q[k]
        BY <2>2, <3>3
      <4>2. QED
        BY <2>1, <3>1, <3>3, <4>1 DEF Iterates
    <3>4. QED
      BY <2>2, <3>2, <3>3
  <2>. HIDE DEF r
  <2>6. Iterates(r, S, g, a, n + 1)
    BY <2>3, <2>4, <2>5 DEF Iterates
  <2>7. QED
    BY <2>2, <2>6
<1>. HIDE DEF T
<1>3. T = Nat
  BY Zenon, <1>1, <1>2, SetInduction DEF T
<1>4. QED
  BY <1>3 DEF T

(* the loop of scheduler_tick ends on a process of the list, never past it *)
LEMMA ScanIsPid ==
  ASSUME SchedTypeOK, Started, current_process # None
  PROVE  Scan \in Pids /\ Linked(Scan)
<1>. DEFINE c == current_process
            S == {x \in Pids : Linked(x)}
            g == [x \in S |-> IF state[x] = "DEAD" /\ x # c THEN After(x) ELSE x]
            Body(q) == [k \in 0 .. MaxProcs |->
                          IF k = 0 THEN After(c)
                          ELSE IF state[q[k - 1]] = "DEAD" /\ q[k - 1] # c
                               THEN After(q[k - 1]) ELSE q[k - 1]]
            scan == CHOOSE q : q = Body(q)
<1>0. MaxProcs \in Nat /\ c \in Pids
  BY MaxProcsAssumption DEF SchedTypeOK
<1>1. \A x \in Pids : After(x) \in S
  BY Naturals0 DEF After, SchedTypeOK, Started, Linked
<1>2. g \in [S -> S] /\ After(c) \in S
  BY <1>0, <1>1
<1>. HIDE DEF c, S
<1>3. PICK r : Iterates(r, S, g, After(c), MaxProcs)
  <2>. HIDE DEF g
  <2>1. QED
    BY <1>0, <1>2, IterationExists
<1>4. r = Body(r)
  <2>1. ASSUME NEW k \in 0 .. MaxProcs PROVE r[k] = Body(r)[k]
    <3>1. CASE k = 0
      BY <1>3, <3>1 DEF Iterates
    <3>2. CASE k # 0
      <4>1. k \in 1 .. MaxProcs /\ k - 1 \in 0 .. MaxProcs
        BY <1>0, <3>2
      <4>2. r[k - 1] \in S /\ r[k] = g[r[k - 1]]
        BY <1>3, <4>1 DEF Iterates
      <4>3. QED
        BY <3>2, <4>2
    <3>3. QED
      BY <3>1, <3>2
  <2>2. QED
    BY <1>3, <2>1 DEF Iterates
<1>. HIDE DEF Body
<1>5. scan = Body(scan)
  BY <1>4
<1>. HIDE DEF scan, g
<1>. DEFINE T == {n \in Nat : n <= MaxProcs => scan[n] \in S}
<1>6. 0 \in T
  <2>1. scan[0] = After(c)
    BY <1>0, <1>5 DEF Body
  <2>2. QED
    BY <1>2, <2>1
<1>7. ASSUME NEW n \in T PROVE n + 1 \in T
  <2>. SUFFICES ASSUME n + 1 <= MaxProcs PROVE scan[n + 1] \in S
    OBVIOUS
  <2>1. n \in Nat /\ n + 1 \in 0 .. MaxProcs /\ n + 1 # 0 /\ (n + 1) - 1 = n
    BY <1>0
  <2>2. scan[n] \in S
    BY <1>0, <2>1
  <2>3. scan[n + 1] = Body(scan)[n + 1]
    BY <1>5
  <2>4. Body(scan)[n + 1] = IF state[scan[n]] = "DEAD" /\ scan[n] # c
                            THEN After(scan[n]) ELSE scan[n]
    BY <2>1 DEF Body
  <2>5. QED
    BY <1>1, <2>2, <2>3, <2>4 DEF S
<1>8. T = Nat
  <2>. HIDE DEF T
  <2>1. QED
    BY Zenon, <1>6, <1>7, SetInduction DEF T
<1>9. scan[MaxProcs] \in S
  BY <1>0, <1>8
<1>10. Scan = scan[MaxProcs]
  BY DEF Scan, scan, Body, c
<1>11. QED
  BY <1>9, <1>10 DEF S

-----------------------------------------------------------------------------
(* Every step preserves the invariant. *)

LEMMA InitSchedInv == Init => SchedInv
<1>. SUFFICES ASSUME Init PROVE SchedInv
  OBVIOUS
<1>1. SchedTypeOK
  <2>1. making \in [Pids -> [new : Pids \cup {None}, tail : Pids \cup {None}]]
    BY DEF Init, NotMaking
  <2>2. next_pid \in 0 .. MaxProcs
    BY MaxProcsAssumption DEF Init
  <2>3. IF_flag \in BOOLEAN /\ in_service \in SUBSET {TIMER, KEYBOARD}
    BY Zenon DEF Init
  <2>4. QED
    BY <2>1, <2>2, <2>3 DEF Init, SchedTypeOK
<1>2. Started /\ OneSwitch /\ Creation /\ OneRunning /\ MaskedUntilEOI
  BY DEF Init, Started, OneSwitch, Creation, OneRunning, MaskedUntilEOI
<1>3. \A p \in Pids : state[p] = "NONE" /\ next[p] = None /\ making[p].new = None
  BY DEF Init, NotMaking
<1>4. process_list = None /\ \A p \in Pids : p # None
  BY Naturals0 DEF Init
<1>5. FreshPids /\ ListAscends
  BY <1>3, <1>4 DEF FreshPids, ListAscends, Linked
<1>6. QED
  BY <1>1, <1>2, <1>5 DEF SchedInv

LEMMA IdtInitSchedInv == SchedInv /\ IdtInit => SchedInv'
<1>. SUFFICES ASSUME SchedInv, IdtInit PROVE SchedInv'
  OBVIOUS
<1>1. /\ UNCHANGED <<current_process, process_list, next_pid, state, next, resume,
                     mode, making, in_service>>
      /\ IF_flag' = TRUE /\ current_process = None
  BY DEF IdtInit
<1>2. MaskedUntilEOI'
  BY <1>1 DEF SchedInv, MaskedUntilEOI, Started
<1>3. QED
  BY <1>1, <1>2 DEF SchedInv, SchedTypeOK, Started, FreshPids, ListAscends,
     OneSwitch, Creation, OneRunning, Linked

(* the kernel becomes the head of the list *)
LEMMA ProcessInitSchedInv == SchedInv /\ ProcessInit => SchedInv'
<1>. SUFFICES ASSUME SchedInv, ProcessInit PROVE SchedInv'
  OBVIOUS
<1>1. /\ current_process = None /\ current_process' = 0
      /\ process_list' = 0 /\ next_pid' = 1
      /\ state' = [state EXCEPT ![0] = "RUNNING"]
      /\ UNCHANGED <<next, resume, mode, making, IF_flag, in_service>>
  BY DEF ProcessInit
<1>2. SchedTypeOK
  BY DEF SchedInv
<1>3. SchedTypeOK'
  BY <1>1, <1>2, Naturals0, MaxProcsAssumption DEF SchedTypeOK
<1>4. \A p \in Pids : state[p] = "NONE" /\ next[p] = None /\ ~Linked(p)
                      /\ \A q \in Pids : making[q].new # p
  BY <1>1, Naturals0 DEF SchedInv, Started, FreshPids
<1>5. \A p \in Pids \ {0} : state'[p] = "NONE" /\ state'[0] = "RUNNING"
  BY <1>1, <1>2, <1>4, Naturals0 DEF SchedTypeOK
<1>6. \A p \in Pids : Linked(p)' <=> p = 0
  BY <1>1, <1>4, Naturals0 DEF Linked
<1>7. Started' /\ OneSwitch' /\ MaskedUntilEOI'
  BY <1>1, Naturals0 DEF SchedInv, Started, OneSwitch, MaskedUntilEOI, None
<1>8. FreshPids'
  <2>1. \A p \in Pids : p >= next_pid' => p # 0
    BY <1>1, Naturals0
  <2>2. \A p \in Pids : p # 0 => state'[p] = "NONE" /\ next'[p] = None /\ ~Linked(p)'
    BY <1>1, <1>4, <1>5, <1>6
  <2>3. \A p \in Pids : \A q \in Pids : making'[q].new # p
    BY <1>1, <1>4
  <2>4. QED
    BY <2>1, <2>2, <2>3 DEF FreshPids
<1>9. ListAscends'
  BY <1>1, <1>4, <1>5, <1>6 DEF ListAscends
<1>10. OneRunning'
  BY <1>1, <1>2, <1>5, Naturals0 DEF OneRunning, SchedTypeOK
<1>11. Creation'
  <2>1. making[0] = NotMaking
    BY <1>1, Naturals0 DEF SchedInv, Started
  <2>2. QED
    BY <1>1, <2>1 DEF Creation, NotMaking
<1>12. QED
  BY <1>3, <1>7, <1>8, <1>9, <1>10, <1>11 DEF SchedInv

(* a new process, on no list yet *)
LEMMA CreateAllocSchedInv == SchedInv /\ CreateAlloc => SchedInv'
<1>. SUFFICES ASSUME SchedInv, CreateAlloc PROVE SchedInv'
  OBVIOUS
<1>. DEFINE c == current_process
            n == next_pid
<1>1. /\ c # None /\ making[c] = NotMaking /\ n < MaxProcs
      /\ state' = [state EXCEPT ![n] = "READY"]
      /\ next' = [next EXCEPT ![n] = None]
      /\ resume' = [resume EXCEPT ![n] = "entry"]
      /\ making' = [making EXCEPT ![c].new = n]
      /\ next_pid' = n + 1
      /\ UNCHANGED <<current_process, process_list, mode, IF_flag, in_service>>
  BY DEF CreateAlloc, InKernel
<1>2. SchedTypeOK /\ Started /\ FreshPids /\ ListAscends /\ OneSwitch /\ OneRunning
      /\ MaskedUntilEOI
  BY DEF SchedInv
<1>3. c \in Pids /\ n \in Pids /\ n \in Nat /\ n # 0
  BY <1>1, <1>2, MaxProcsAssumption DEF SchedTypeOK, Started, Pids
<1>4. /\ state[n] = "NONE" /\ next[n] = None /\ ~Linked(n)
      /\ \A q \in Pids : making[q].new # n
  BY <1>2, <1>3 DEF FreshPids
<1>5. c # n
  BY <1>1, <1>2, <1>4 DEF OneRunning
<1>6. next' = next
  BY <1>1, <1>2, <1>3, <1>4 DEF SchedTypeOK
<1>7. \A p \in Pids : Linked(p)' <=> Linked(p)
  BY <1>1, <1>6 DEF Linked
<1>8. making' = [making EXCEPT ![c] = [new |-> n, tail |-> None]]
      /\ making'[c] = [new |-> n, tail |-> None]
      /\ \A p \in Pids \ {c} : making'[p] = making[p]
  <2>1. [making[c] EXCEPT !.new = n] = [new |-> n, tail |-> None]
    BY <1>1 DEF NotMaking
  <2>2. making' = [making EXCEPT ![c] = [making[c] EXCEPT !.new = n]]
    BY <1>1
  <2>3. making' = [making EXCEPT ![c] = [new |-> n, tail |-> None]]
    BY Zenon, <2>1, <2>2
  <2>4. QED
    BY <1>2, <1>3, <2>3 DEF SchedTypeOK
<1>9. state'[n] = "READY" /\ \A p \in Pids \ {n} : state'[p] = state[p]
  BY <1>1, <1>2, <1>3 DEF SchedTypeOK
<1>. HIDE DEF c, n
<1>10. SchedTypeOK'
  <2>1. making' \in [Pids -> [new : Pids \cup {None}, tail : Pids \cup {None}]]
    <3>1. [new |-> n, tail |-> None] \in [new : Pids \cup {None}, tail : Pids \cup {None}]
      BY <1>3
    <3>2. QED
      BY Zenon, <1>2, <1>8, <3>1 DEF SchedTypeOK
  <2>2. next_pid' \in 0 .. MaxProcs
    BY <1>1, <1>3, MaxProcsAssumption
  <2>3. QED
    BY <1>1, <1>2, <1>3, <1>6, <2>1, <2>2 DEF SchedTypeOK
<1>11. Started' /\ MaskedUntilEOI'
  BY <1>1, <1>2, <1>3 DEF Started, MaskedUntilEOI, c
<1>12. FreshPids'
  <2>. SUFFICES ASSUME NEW p \in Pids, p >= n + 1
                PROVE  /\ state'[p] = "NONE" /\ next'[p] = None /\ ~Linked(p)'
                       /\ \A q \in Pids : making'[q].new # p
    BY <1>1 DEF FreshPids
  <2>1. p >= n /\ p # n
    BY <1>3, Naturals0
  <2>2. QED
    BY <1>2, <1>6, <1>7, <1>8, <1>9, <2>1 DEF FreshPids, n
<1>13. ListAscends'
  <2>1. ASSUME NEW p \in Pids, state'[p] # "NONE", \A q \in Pids : making'[q].new # p
        PROVE  Linked(p)
    <3>1. p # n /\ making[c].new # p
      BY <1>1, <1>3, <1>8, <2>1, Naturals0 DEF NotMaking
    <3>2. QED
      BY <1>2, <1>8, <1>9, <2>1, <3>1 DEF ListAscends
  <2>2. QED
    BY <1>2, <1>6, <1>7, <2>1 DEF ListAscends
<1>14. OneSwitch'
  BY <1>1, <1>2, <1>3, <1>8 DEF OneSwitch, c, SchedTypeOK
<1>15. OneRunning'
  BY <1>1, <1>2, <1>3, <1>5, <1>9 DEF OneRunning, c
<1>16. Creation'
  <2>1. \A p \in Pids : Linked(p) => p < n
    BY <1>2, <1>3, Naturals0 DEF FreshPids, n
  <2>2. QED
    BY <1>1, <1>7, <1>8, <2>1 DEF Creation, c
<1>17. QED
  BY <1>10, <1>11, <1>12, <1>13, <1>14, <1>15, <1>16 DEF SchedInv

(* the walk to the end of the list *)
LEMMA CreateFindTailSchedInv == SchedInv /\ CreateFindTail => SchedInv'
<1>. SUFFICES ASSUME SchedInv, CreateFindTail PROVE SchedInv'
  OBVIOUS
<1>. DEFINE c == current_process
<1>1. PICK t \in Pids : /\ Linked(t) /\ next[t] = None
                        /\ making' = [making EXCEPT ![c].tail = t]
  BY Zenon DEF CreateFindTail
<1>2. /\ c # None /\ making[c].new # None
      /\ UNCHANGED <<current_process, process_list, next_pid, state, next, resume,
                     mode, IF_flag, in_service>>
  BY DEF CreateFindTail, InKernel
<1>3. SchedTypeOK /\ Started /\ FreshPids /\ ListAscends /\ OneSwitch /\ OneRunning
      /\ MaskedUntilEOI /\ Creation
  BY DEF SchedInv
<1>4. c \in Pids
  BY <1>2, <1>3 DEF SchedTypeOK
<1>5. making'[c].new = making[c].new /\ making'[c].tail = t
      /\ (\A p \in Pids \ {c} : making'[p] = making[p])
      /\ making' \in [Pids -> [new : Pids \cup {None}, tail : Pids \cup {None}]]
  BY <1>1, <1>3, <1>4 DEF SchedTypeOK
<1>6. \A p \in Pids : (Linked(p)' <=> Linked(p)) /\ making'[p].new = making[p].new
  BY <1>2, <1>5 DEF Linked
<1>. HIDE DEF c
<1>7. SchedTypeOK' /\ Started' /\ OneRunning' /\ MaskedUntilEOI'
  BY <1>2, <1>3, <1>5 DEF SchedTypeOK, Started, OneRunning, MaskedUntilEOI, c
<1>8. FreshPids' /\ ListAscends'
  BY <1>2, <1>3, <1>6 DEF FreshPids, ListAscends
<1>9. OneSwitch'
  BY <1>2, <1>3, <1>4, <1>5 DEF OneSwitch, c
<1>10. Creation'
  <2>1. \A p \in Pids : Linked(p) => p < making[c].new
    BY <1>2, <1>3 DEF Creation, c
  <2>2. \A p \in Pids : Linked(p)' => p < making'[c].new
    BY <1>5, <1>6, <2>1
  <2>3. Linked(t)' /\ next'[t] = None
    BY <1>1, <1>2, <1>6
  <2>4. current_process' = c
    BY <1>2 DEF c
  <2>5. QED
    BY <1>2, <1>5, <2>2, <2>3, <2>4 DEF Creation
<1>11. QED
  BY <1>7, <1>8, <1>9, <1>10 DEF SchedInv

(* the new process goes behind the end that was found *)
LEMMA CreateLinkSchedInv == SchedInv /\ CreateLink => SchedInv'
<1>. SUFFICES ASSUME SchedInv, CreateLink PROVE SchedInv'
  OBVIOUS
<1>. DEFINE c == current_process
            t == making[c].tail
            m == making[c].new
<1>1. /\ c # None /\ t # None
      /\ next' = [next EXCEPT ![t] = m]
      /\ making' = [making EXCEPT ![c] = NotMaking]
      /\ UNCHANGED <<current_process, process_list, next_pid, state, resume, mode,
                     IF_flag, in_service>>
  BY DEF CreateLink, InKernel
<1>2. SchedTypeOK /\ Started /\ FreshPids /\ ListAscends /\ OneSwitch /\ OneRunning
      /\ MaskedUntilEOI /\ Creation
  BY DEF SchedInv
<1>3. c \in Pids /\ t \in Pids /\ m \in Pids \cup {None}
  BY <1>1, <1>2 DEF SchedTypeOK
<1>4. /\ m # None /\ Linked(t) /\ next[t] = None
      /\ \A p \in Pids : Linked(p) => p < m
  BY <1>1, <1>2 DEF Creation
<1>5. m \in Pids /\ t < m /\ m < next_pid
  <2>1. m \in Pids /\ t < m
    BY <1>3, <1>4
  <2>2. m < next_pid
    BY <1>2, <1>3, <2>1, MaxProcsAssumption DEF FreshPids, SchedTypeOK, Pids
  <2>3. QED
    BY <2>1, <2>2
<1>6. next'[t] = m /\ \A p \in Pids \ {t} : next'[p] = next[p]
  BY <1>1, <1>2, <1>3 DEF SchedTypeOK
<1>7. making'[c] = NotMaking /\ \A p \in Pids \ {c} : making'[p] = making[p]
  BY <1>1, <1>2, <1>3 DEF SchedTypeOK
<1>. HIDE DEF c, t, m
<1>8. \A p \in Pids : Linked(p)' <=> Linked(p) \/ p = m
  <2>1. \A p \in Pids : p # None
    BY Naturals0
  <2>2. QED
    BY <1>1, <1>3, <1>4, <1>6, <2>1 DEF Linked
<1>9. SchedTypeOK'
  BY <1>1, <1>2, <1>3, <1>5 DEF SchedTypeOK, NotMaking
<1>10. Started' /\ OneRunning' /\ MaskedUntilEOI'
  BY <1>1, <1>2 DEF Started, OneRunning, MaskedUntilEOI
<1>11. FreshPids'
  <2>. SUFFICES ASSUME NEW p \in Pids, p >= next_pid
                PROVE  /\ state'[p] = "NONE" /\ next'[p] = None /\ ~Linked(p)'
                       /\ \A q \in Pids : making'[q].new # p
    BY <1>1 DEF FreshPids
  <2>1. /\ state[p] = "NONE" /\ next[p] = None /\ ~Linked(p)
        /\ \A q \in Pids : making[q].new # p
    BY <1>2 DEF FreshPids
  <2>2. p # m /\ p # t /\ p # None
    BY <1>2, <1>4, <1>5, <2>1, Naturals0 DEF SchedTypeOK
  <2>3. QED
    BY <1>1, <1>6, <1>7, <1>8, <2>1, <2>2 DEF NotMaking
<1>12. ListAscends'
  <2>1. ASSUME NEW q \in Pids, next'[q] # None PROVE Linked(q)' /\ q < next'[q]
    BY <1>2, <1>4, <1>5, <1>6, <1>8, <2>1 DEF ListAscends
  <2>2. ASSUME NEW p \in Pids, state'[p] # "NONE", \A q \in Pids : making'[q].new # p
        PROVE  Linked(p)'
    <3>1. CASE p = m
      BY <1>8, <3>1
    <3>2. CASE p # m
      <4>1. \A q \in Pids : making[q].new # p
        BY <1>7, <2>2, <3>2 DEF m
      <4>2. QED
        BY <1>1, <1>2, <1>8, <2>2, <4>1 DEF ListAscends
    <3>3. QED
      BY <3>1, <3>2
  <2>3. QED
    BY <2>1, <2>2 DEF ListAscends
<1>13. OneSwitch'
  BY <1>1, <1>2, <1>7 DEF OneSwitch
<1>14. Creation'
  BY <1>1, <1>7 DEF Creation, NotMaking, c
<1>15. QED
  BY <1>9, <1>10, <1>11, <1>12, <1>13, <1>14 DEF SchedInv

(* The only switch there ever is: away from the kernel, to a process that  *)
(* starts at its entry point.                                              *)
LEMMA TimerSwitchesSchedInv == SchedInv /\ TimerSwitches => SchedInv'
<1>. SUFFICES ASSUME SchedInv, TimerSwitches PROVE SchedInv'
  OBVIOUS
<1>. DEFINE c == current_process
            s == Scan
<1>1. /\ IF_flag /\ c # None /\ s # c
      /\ current_process' = s
      /\ state' = Demote
      /\ resume' = [resume EXCEPT ![c] = "tick"]
      /\ UNCHANGED <<process_list, next_pid, next, mode, making>>
  BY DEF TimerSwitches, CanDeliver
<1>2. SchedTypeOK /\ Started /\ FreshPids /\ ListAscends /\ OneSwitch /\ OneRunning
  BY DEF SchedInv
<1>3. c \in Pids /\ s \in Pids
  BY <1>1, <1>2, ScanIsPid DEF SchedTypeOK
<1>4. c = 0 /\ resume[s] = "entry" /\ making[s] = NotMaking
  BY <1>1, <1>2, <1>3 DEF OneSwitch
<1>5. IF_flag' = FALSE /\ in_service' = in_service \cup {TIMER}
  BY <1>4 DEF TimerSwitches
<1>6. /\ state'[s] = "RUNNING" /\ state'[c] \in {"DEAD", "READY"}
      /\ \A p \in Pids \ {s, c} : state'[p] = state[p]
      /\ state' \in [Pids -> {"NONE", "RUNNING", "READY", "DEAD"}]
  BY <1>1, <1>2, <1>3 DEF SchedTypeOK, Demote
<1>. HIDE DEF c, s
<1>7. \A p \in Pids : Linked(p)' <=> Linked(p)
  BY <1>1 DEF Linked
<1>8. SchedTypeOK'
  BY Zenon, <1>1, <1>2, <1>3, <1>5, <1>6 DEF SchedTypeOK
<1>9. Started' /\ OneSwitch' /\ MaskedUntilEOI' /\ Creation'
  <2>1. s # None /\ s # 0
    BY <1>1, <1>3, <1>4, Naturals0
  <2>2. QED
    BY <1>1, <1>2, <1>4, <1>5, <2>1 DEF Started, OneSwitch, MaskedUntilEOI, Creation,
       NotMaking, c
<1>10. OneRunning'
  BY <1>1, <1>2, <1>6 DEF OneRunning, c
<1>11. s < next_pid /\ c < next_pid
  <2>1. c < next_pid
    BY <1>1, <1>2, <1>4 DEF Started, SchedTypeOK, c
  <2>2. s < next_pid
    BY <1>1, <1>2, <1>3, ScanIsPid, MaxProcsAssumption DEF FreshPids, SchedTypeOK, Pids, s, c
  <2>3. QED
    BY <2>1, <2>2
<1>12. FreshPids'
  <2>. SUFFICES ASSUME NEW p \in Pids, p >= next_pid
                PROVE  /\ state'[p] = "NONE" /\ next[p] = None /\ ~Linked(p)
                       /\ \A q \in Pids : making[q].new # p
    BY <1>1, <1>7 DEF FreshPids
  <2>1. p # s /\ p # c
    BY <1>2, <1>3, <1>11, Naturals0 DEF SchedTypeOK
  <2>2. QED
    BY <1>2, <1>6, <2>1 DEF FreshPids
<1>13. ListAscends'
  <2>1. ASSUME NEW p \in Pids, state'[p] # "NONE", \A q \in Pids : making[q].new # p
        PROVE  Linked(p)
    <3>1. CASE p = s
      BY <1>1, <1>2, <3>1, ScanIsPid DEF s, c
    <3>2. CASE p # s
      <4>1. state[p] # "NONE"
        BY <1>1, <1>2, <1>6, <2>1, <3>2 DEF OneRunning, c
      <4>2. QED
        BY <1>2, <2>1, <4>1 DEF ListAscends
    <3>3. QED
      BY <3>1, <3>2
  <2>2. QED
    BY <1>1, <1>2, <1>7, <2>1 DEF ListAscends
<1>14. QED
  BY <1>8, <1>9, <1>10, <1>12, <1>13 DEF SchedInv
(* "run" and process_exit touch neither the list nor its making *)
LEMMA KeyboardRunSchedInv == SchedInv /\ KeyboardRun => SchedInv'
<1>. SUFFICES ASSUME SchedInv, KeyboardRun PROVE SchedInv'
  OBVIOUS
<1>1. /\ UNCHANGED <<current_process, process_list, next_pid, state, next, resume,
                     making, IF_flag>>
      /\ current_process # None
      /\ mode' = [mode EXCEPT ![current_process] = "user"]
      /\ in_service' = in_service \cup {KEYBOARD}
  BY DEF KeyboardRun, InKernel
<1>2. SchedTypeOK'
  BY <1>1 DEF SchedInv, SchedTypeOK
<1>3. MaskedUntilEOI'
  BY <1>1 DEF SchedInv, MaskedUntilEOI, TIMER, KEYBOARD
<1>4. Started' /\ FreshPids' /\ ListAscends' /\ OneSwitch' /\ Creation' /\ OneRunning'
  BY <1>1 DEF SchedInv, Started, FreshPids, ListAscends, OneSwitch, Creation,
     OneRunning, Linked
<1>5. QED
  BY <1>2, <1>3, <1>4 DEF SchedInv

LEMMA ProcessExitSchedInv == SchedInv /\ ProcessExit => SchedInv'
<1>. SUFFICES ASSUME SchedInv, ProcessExit PROVE SchedInv'
  OBVIOUS
<1>. DEFINE c == current_process
<1>1. /\ UNCHANGED <<current_process, process_list, next_pid, next, resume, making,
                     in_service>>
      /\ c # None
      /\ state' = [state EXCEPT ![c] = "DEAD"]
      /\ mode' = [mode EXCEPT ![c] = "halted"]
      /\ IF_flag' \in {FALSE, IF_flag}
  BY DEF ProcessExit
<1>2. SchedTypeOK /\ Started /\ FreshPids /\ ListAscends /\ OneSwitch /\ OneRunning
      /\ MaskedUntilEOI /\ Creation
  BY DEF SchedInv
<1>3. c \in Pids
  BY <1>1, <1>2 DEF SchedTypeOK
<1>4. /\ state[c] # "NONE" /\ state'[c] = "DEAD"
      /\ \A p \in Pids \ {c} : state'[p] = state[p]
  BY <1>1, <1>2, <1>3 DEF SchedTypeOK, OneRunning
<1>5. SchedTypeOK'
  BY Zenon, <1>1, <1>2 DEF SchedTypeOK
<1>6. Started' /\ MaskedUntilEOI' /\ OneSwitch' /\ Creation'
  <2>1. Started' /\ Creation'
    BY <1>1, <1>2 DEF Started, Creation, Linked
  <2>2. IF_flag' => IF_flag
    BY Zenon, <1>1
  <2>3. MaskedUntilEOI' /\ OneSwitch'
    BY <1>1, <1>2, <2>2 DEF MaskedUntilEOI, OneSwitch
  <2>4. QED
    BY <2>1, <2>3
<1>. HIDE DEF c
<1>7. OneRunning'
  BY <1>1, <1>2, <1>4 DEF OneRunning, c
<1>8. FreshPids' /\ ListAscends'
  <2>1. \A p \in Pids : state'[p] = "NONE" <=> state[p] = "NONE"
    BY <1>4
  <2>2. QED
    BY <1>1, <1>2, <2>1 DEF FreshPids, ListAscends, Linked
<1>9. QED
  BY <1>5, <1>6, <1>7, <1>8 DEF SchedInv

LEMMA NextSchedInv == SchedInv /\ [Next]_vars => SchedInv'
<1>. SUFFICES ASSUME SchedInv, [Next]_vars PROVE SchedInv'
  OBVIOUS
<1>1. CASE UNCHANGED vars
  BY <1>1 DEF vars, SchedInv, SchedTypeOK, Started, FreshPids, ListAscends, OneSwitch,
     Creation, OneRunning, MaskedUntilEOI, Linked
<1>2. CASE TimerReturns
  BY <1>1, <1>2 DEF TimerReturns
<1>3. QED
  BY <1>1, <1>2, IdtInitSchedInv, ProcessInitSchedInv, CreateAllocSchedInv,
     CreateFindTailSchedInv, CreateLinkSchedInv, TimerSwitchesSchedInv,
     KeyboardRunSchedInv, ProcessExitSchedInv DEF Next, Creating, Timer

-----------------------------------------------------------------------------
(* The shape of the list, the states of the processes and the interrupt   *)
(* state stay consistent through any creations, ticks, runs and exits.     *)
THEOREM SchedInvariant == Spec => []SchedInv
BY InitSchedInv, NextSchedInv, PTL DEF Spec

(* After any sequence of creations, ticks, "run" commands and exits the    *)
(* current process, and no other, is marked RUNNING (or DEAD).             *)
THEOREM SchedOneRunning == Spec => []OneRunning
<1>1. SchedInv => OneRunning
  BY DEF SchedInv
<1>2. QED
  BY <1>1, SchedInvariant, PTL

(* The processor never accepts interrupts while the timer interrupt waits  *)
(* for its EOI.                                                            *)
THEOREM SchedMaskedUntilEOI == Spec => []MaskedUntilEOI
<1>1. SchedInv => MaskedUntilEOI
  BY DEF SchedInv
<1>2. QED
  BY <1>1, SchedInvariant, PTL

(* The walk from the head of the list meets every process that was created *)
(* however ticks interleave with process_create: of the processes on the   *)
(* list that a closed set lacks, the first would follow one it has.        *)
THEOREM SchedNoneLost == Spec => []NoneLost
<1>1. SchedInv => NoneLost
  <2>. SUFFICES ASSUME SchedInv, NEW S \in SUBSET Pids, Walked(S)
                PROVE  \A p \in Pids : Linked(p) => p \in S
    BY DEF NoneLost, SchedInv, ListAscends
  <2>. DEFINE T == {p \in Pids \ S : Linked(p)}
  <2>. SUFFICES ASSUME T # {} PROVE FALSE
    OBVIOUS
  <2>1. PICK x \in T : \A y \in T : x <= y
    <3>1. T \in SUBSET Nat
      BY Zenon, Naturals0
    <3>. HIDE DEF T
    <3>2. QED
      BY <3>1, LeastElement
  <2>2. x \in Pids /\ x \notin S /\ x # process_list
    BY <2>1 DEF Walked
  <2>3. PICK q \in Pids : next[q] = x
    BY <2>1, <2>2 DEF Linked
  <2>4. Linked(q) /\ q < x
    BY <2>2, <2>3, Naturals0 DEF SchedInv, ListAscends
  <2>5. q \in S
    BY <2>1, <2>2, <2>4, Naturals0
  <2>6. QED
    BY <2>2, <2>3, <2>5, Naturals0 DEF Walked
<1>2. QED
  BY <1>1, SchedInvariant, PTL

(* once another process than the kernel is current, it stays current *)
StaysCurrent == current_process \in Pids \ {0} => UNCHANGED current_process

(* Only the kernel ever stops being the current process: the process it is *)
(* switched to is entered with interrupts off and stays current for ever.  *)
THEOREM SchedOneSwitch == Spec => [][StaysCurrent]_vars
<1>1. SchedInv /\ [Next]_vars => [StaysCurrent]_vars
  BY Zenon, Naturals0 DEF StaysCurrent, SchedInv, OneSwitch, Next, IdtInit, ProcessInit,
     CreateAlloc, Creating, CreateFindTail, CreateLink, Timer, TimerReturns, TimerSwitches,
     KeyboardRun, ProcessExit, CanDeliver, vars
<1>2. QED
  BY <1>1, SchedInvariant, PTL DEF Spec
=============================================================================
