------------------------- MODULE PluginSessionProofs -------------------------
(***************************************************************************)
(* Proofs that the calls which reach the objects of a session reach living *)
(* ones while it is taken down, for every set of other frame streams.      *)
(***************************************************************************)
EXTENDS PluginSessionProperties, SequenceTheorems, TLAPS

-----------------------------------------------------------------------------
(* The inductive invariant: what a thread has yet to do tells what it has  *)
(* done.                                                                   *)

\* In the sequence q an a comes before every b.
Before(q, a, b) == \A i \in 1 .. Len(q) : q[i] = b => \E j \in 1 .. i - 1 : q[j] = a

Once(q, x) == \A i, j \in 1 .. Len(q) : q[i] = x /\ q[j] = x => i = j

\* Whatever comes before a member of T is one.
Leading(q, T) == \A i \in 1 .. Len(q) : q[i] \in T => \A j \in 1 .. i - 1 : q[j] \in T

Gui == agenda["gui"]

\* The steps of a notification whose observers have been copied.
Notifying ==
    {<<"read title">>, <<"publish">>} \cup ({"call"} \X Events) \cup ({"use"} \X Used)

\* A notification is finished before anything else is done.
NotifyInv ==
    \A t \in Callers :
        /\ Leading(agenda[t], Notifying)
        /\ calling[t] # {} => \E e \in Events : <<"call", e>> \in Range(agenda[t])

\* Who holds the mutex of stop() has yet to unlock it.
MutexInv ==
    \A t \in Callers :
        /\ <<"unlock">> \in Range(agenda[t]) <=> stopMutex = t
        /\ Once(agenda[t], <<"unlock">>)

\* The stop worker calls stop() and nothing else.
WorkerInv ==
    LET q == agenda["worker"]
    IN  \/ q = << >> \/ q = << <<"stop">> >>
        \/ q # << >> /\ q[Len(q)] = <<"unlock">> /\ <<"stop">> \notin Range(q)

\* A worker that runs has a handle, or somebody waits for it.
JoinInv ==
    agenda["worker"] # << >> =>
        stopWorker \/ \E t \in {"gui", "pool"} : <<"joining">> \in Range(agenda[t])

\* What the data thread has yet to call lives or has shut its gate.
DataInv ==
    /\ data \in {"none", "done"} => pending = {}
    /\ data = "use" => serving \in leased
    /\ pending \subseteq alive \cup shut
    /\ "controller" \in alive \/ "own" \in shut

\* An observer deregisters before it is destroyed.
RegisteredInv ==
    \A o \in {"title", "controller"} \cup Streams :
        \/ Before(Gui, <<"deregister", o>>, <<"gone", o>>)
        \/ o \notin statusObservers \cup grabCallbacks

\* A stream shuts its gate, then drains it, then is destroyed.
GateInv ==
    \A s \in Streams :
        /\ Before(Gui, <<"shut", s>>, <<"drained", s>>) \/ s \in shut
        /\ Before(Gui, <<"drained", s>>, <<"gone", s>>) \/ (s \in shut /\ s \notin leased)

\* The controller drains its stream and stops the acquisition before it is destroyed.
ControllerInv ==
    /\ \/ Before(Gui, <<"drained", "own">>, <<"gone", "controller">>)
       \/ "own" \in shut /\ "own" \notin leased
    /\ \/ Before(Gui, <<"stop">>, <<"gone", "controller">>)
       \/ ~isGrabbing /\ stopMutex # "worker"

\* The widget's operations end before the controller and the facade are destroyed ...
PoolInv ==
    \A o \in {"controller", "facade"} :
        Before(Gui, <<"wait for pool">>, <<"gone", o>>) \/ agenda["pool"] = << >>

\* ... and nothing is grabbed in between.
GrabInv ==
    \A o \in {"controller", "facade"} :
        <<"gone", o>> \in Range(Gui) => Range(Gui) \cap {<<"grab">>, <<"receive">>} = {}

\* The facade drains the data thread, then joins its worker, then is destroyed.
LastJoin ==
    \/ /\ Len(Gui) >= 2 /\ Gui[Len(Gui)] = <<"gone", "facade">> /\ Gui[Len(Gui) - 1] = <<"join">>
       /\ Once(Gui, <<"gone", "facade">>)
    \/ /\ ~stopWorker
       /\ Gui \in {<< <<"joining">>, <<"gone", "facade">> >>, << <<"gone", "facade">> >>}

FacadeInv ==
    /\ Before(Gui, <<"drain">>, <<"gone", "facade">>) \/ data = "none"
    /\ <<"gone", "facade">> \in Range(Gui) => Others \cap alive = {} /\ LastJoin
    /\ "facade" \notin alive => Gui = << >> /\ Others \cap alive = {}

\* What is going to be called is alive.
UseInv ==
    \A t \in Callers :
        /\ \A o \in Used \ {"host"} : <<"use", o>> \in Range(agenda[t]) => o \in alive
        /\ "controller" \in calling[t] => "controller" \in alive

IInv ==
    /\ TypeOK /\ NotifyInv /\ MutexInv /\ WorkerInv /\ JoinInv /\ DataInv /\ RegisteredInv
    /\ GateInv /\ ControllerInv /\ PoolInv /\ GrabInv /\ FacadeInv /\ UseInv
    /\ CallsReachTheLiving /\ FramesReachTheLiving /\ FacadeOutlivesItsThreads

-----------------------------------------------------------------------------
(* Lemmas about sequences.                                                 *)

\* What is left when the first step of q is replaced by p.
LEMMA PopIs ==
    ASSUME NEW S, NEW q \in Seq(S), q # << >>, NEW p \in Seq(S)
    PROVE  /\ Len(q) \in Nat \ {0} /\ Len(p) \in Nat /\ Head(q) = q[1]
           /\ p \o Tail(q) \in Seq(S) /\ Len(p \o Tail(q)) = Len(p) + Len(q) - 1
           /\ \A k \in 2 .. Len(q) : (p \o Tail(q))[Len(p) + k - 1] = q[k]
           /\ \A i \in 1 .. Len(p \o Tail(q)) :
                \/ i <= Len(p) /\ (p \o Tail(q))[i] = p[i]
                \/ \E k \in 2 .. Len(q) : i = Len(p) + k - 1 /\ (p \o Tail(q))[i] = q[k]
    <1>1. /\ Tail(q) \in Seq(S) /\ Len(Tail(q)) = Len(q) - 1 /\ Len(q) \in Nat \ {0}
          /\ \A i \in 1 .. Len(q) - 1 : Tail(q)[i] = q[i + 1]
      BY HeadTailProperties, EmptySeq
    <1>2. /\ p \o Tail(q) \in Seq(S) /\ Len(p \o Tail(q)) = Len(p) + Len(Tail(q))
          /\ Len(p) \in Nat
          /\ \A i \in 1 .. Len(p) + Len(Tail(q)) :
               (p \o Tail(q))[i] = IF i <= Len(p) THEN p[i] ELSE Tail(q)[i - Len(p)]
      BY <1>1, ConcatProperties, LenProperties
    <1> DEFINE r == p \o Tail(q)
    <1> HIDE DEF r
    <1>3. ASSUME NEW i \in 1 .. Len(r), i > Len(p)
          PROVE  \E k \in 2 .. Len(q) : i = Len(p) + k - 1 /\ r[i] = q[k]
      <2>1. i + 1 - Len(p) \in 2 .. Len(q) /\ i - Len(p) \in 1 .. Len(q) - 1
            /\ i \in 1 .. Len(p) + Len(Tail(q))
        BY <1>1, <1>2, <1>3 DEF r
      <2>2. r[i] = Tail(q)[i - Len(p)]
        BY <1>1, <1>2, <1>3, <2>1 DEF r
      <2>3. Tail(q)[i - Len(p)] = q[i + 1 - Len(p)]
        BY <1>1, <1>2, <2>1
      <2> QED
        BY <1>1, <1>2, <2>1, <2>2, <2>3
    <1>4. ASSUME NEW i \in 1 .. Len(r), i <= Len(p)
          PROVE  r[i] = p[i]
      BY <1>1, <1>2, <1>4 DEF r
    <1>5. \A i \in 1 .. Len(r) :
             \/ i <= Len(p) /\ r[i] = p[i]
             \/ \E k \in 2 .. Len(q) : i = Len(p) + k - 1 /\ r[i] = q[k]
      <2>1. \A i \in 1 .. Len(r) : i <= Len(p) \/ i > Len(p)
        BY <1>1, <1>2 DEF r
      <2> QED
        BY <1>3, <1>4, <2>1
    <1>6. \A k \in 2 .. Len(q) : r[Len(p) + k - 1] = q[k]
      <2>1. ASSUME NEW k \in 2 .. Len(q)
            PROVE  r[Len(p) + k - 1] = q[k]
        <3>1. Len(p) + k - 1 \in 1 .. Len(r) /\ Len(p) + k - 1 > Len(p)
          BY <1>1, <1>2 DEF r
        <3>2. PICK l \in 2 .. Len(q) : Len(p) + k - 1 = Len(p) + l - 1 /\ r[Len(p) + k - 1] = q[l]
          BY <1>3, <3>1
        <3> QED
          BY <1>1, <1>2, <3>2
      <2> QED
        BY <2>1
    <1>7. Head(q) = q[1]
      OBVIOUS
    <1> QED
      BY <1>1, <1>2, <1>5, <1>6, <1>7 DEF r

\* The members of a sequence are its elements.
LEMMA RangeIs ==
    ASSUME NEW S, NEW q \in Seq(S), NEW x
    PROVE  x \in Range(q) <=> \E i \in 1 .. Len(q) : q[i] = x
    BY RangeEquality

\* What is left to do when the first step is replaced by p.
LEMMA RangePop ==
    ASSUME NEW S, NEW q \in Seq(S), q # << >>, NEW p \in Seq(S)
    PROVE  /\ Range(p \o Tail(q)) = Range(p) \cup Range(Tail(q))
           /\ Range(q) = {Head(q)} \cup Range(Tail(q))
    <1>1. Tail(q) \in Seq(S) /\ Len(Tail(q)) = Len(q) - 1 /\ Len(q) \in Nat \ {0}
          /\ \A i \in 1 .. Len(q) - 1 : Tail(q)[i] = q[i + 1]
      BY HeadTailProperties, EmptySeq
    <1>2. Range(q) = {Head(q)} \cup Range(Tail(q))
      <2>1. Range(q) = {q[i] : i \in 1 .. Len(q)}
            /\ Range(Tail(q)) = {Tail(q)[i] : i \in 1 .. Len(q) - 1}
        BY <1>1, RangeEquality
      <2>2. /\ Head(q) = q[1]
            /\ \A i \in 2 .. Len(q) : q[i] = Tail(q)[i - 1] /\ i - 1 \in 1 .. Len(q) - 1
        BY <1>1
      <2>3. \A i \in 1 .. Len(q) - 1 : i + 1 \in 1 .. Len(q)
        BY <1>1
      <2>4. ASSUME NEW x \in Range(q)
            PROVE  x \in {Head(q)} \cup Range(Tail(q))
        <3>1. PICK i \in 1 .. Len(q) : x = q[i]
          BY <2>1
        <3>2. i = 1 \/ i \in 2 .. Len(q)
          BY <1>1
        <3> QED
          BY <2>1, <2>2, <3>1, <3>2
      <2>5. ASSUME NEW x \in {Head(q)} \cup Range(Tail(q))
            PROVE  x \in Range(q)
        <3>1. CASE x = Head(q)
          BY <1>1, <2>1, <2>2, <3>1
        <3>2. CASE x \in Range(Tail(q))
          <4>1. PICK i \in 1 .. Len(q) - 1 : x = Tail(q)[i]
            BY <2>1, <3>2
          <4> QED
            BY <1>1, <2>1, <2>3, <4>1
        <3> QED
          BY <2>5, <3>1, <3>2
      <2> QED
        BY <2>4, <2>5
    <1> QED
      BY <1>1, <1>2, RangeConcatenation

\* Taking a step that is not a keeps a before b, unless the step brings a b.
LEMMA BeforePop ==
    ASSUME NEW S, NEW q \in Seq(S), q # << >>, NEW p \in Seq(S), NEW a, NEW b,
           Before(q, a, b), Head(q) # a, b \notin Range(p)
    PROVE  Before(p \o Tail(q), a, b)
    <1> DEFINE r == p \o Tail(q)
               n == Len(p)
    <1>1. /\ Len(q) \in Nat \ {0} /\ n \in Nat /\ Head(q) = q[1] /\ Len(r) = n + Len(q) - 1
          /\ \A i \in 1 .. Len(r) :
                (i <= n /\ r[i] = p[i]) \/ \E k \in 2 .. Len(q) : i = n + k - 1 /\ r[i] = q[k]
          /\ \A k \in 2 .. Len(q) : r[n + k - 1] = q[k]
      BY PopIs
    <1>2. \A i \in 1 .. n : p[i] # b
      BY RangeIs
    <1> HIDE DEF r, n
    <1>3. ASSUME NEW i \in 1 .. Len(r), r[i] = b
          PROVE  \E j \in 1 .. i - 1 : r[j] = a
      <2>1. PICK k \in 2 .. Len(q) : i = n + k - 1 /\ q[k] = b
        BY <1>1, <1>2, <1>3
      <2>2. k \in 1 .. Len(q) /\ k \in Nat
        BY <1>1
      <2>3. PICK j \in 1 .. k - 1 : q[j] = a
        BY <2>1, <2>2 DEF Before
      <2>4. j # 1 /\ j \in 2 .. Len(q) /\ n + j - 1 \in 1 .. i - 1
        BY <1>1, <2>1, <2>2, <2>3
      <2> QED
        BY <1>1, <2>3, <2>4
    <1> QED
      BY <1>3 DEF Before, r

\* An order of two steps holds when the second is not there, or the first begins it all.
LEMMA BeforeFacts ==
    ASSUME NEW S, NEW q \in Seq(S), NEW a, NEW b
    PROVE  /\ b \notin Range(q) => Before(q, a, b)
           /\ a \notin Range(q) /\ Before(q, a, b) => b \notin Range(q)
           /\ q # << >> /\ Before(q, a, b) => Head(q) # b
    <1>1. Len(q) \in Nat /\ (q # << >> => Len(q) # 0 /\ Head(q) = q[1])
      BY EmptySeq, LenProperties
    <1>2. \A x : x \in Range(q) <=> \E i \in 1 .. Len(q) : q[i] = x
      BY RangeIs
    <1>3. b \notin Range(q) => Before(q, a, b)
      BY <1>2 DEF Before
    <1>4. a \notin Range(q) /\ Before(q, a, b) => b \notin Range(q)
      BY <1>1, <1>2 DEF Before
    <1>5. q # << >> /\ Before(q, a, b) => Head(q) # b
      BY <1>1 DEF Before
    <1> QED
      BY <1>3, <1>4, <1>5

\* What is there once stays so, unless the step taken brings another.
LEMMA OncePop ==
    ASSUME NEW S, NEW q \in Seq(S), q # << >>, NEW p \in Seq(S), NEW x, Once(q, x),
           x \notin Range(p)
    PROVE  /\ Once(p \o Tail(q), x)
           /\ Head(q) = x => x \notin Range(p \o Tail(q))
    <1> DEFINE r == p \o Tail(q)
               n == Len(p)
    <1>1. /\ Len(q) \in Nat \ {0} /\ n \in Nat /\ Head(q) = q[1] /\ Len(r) = n + Len(q) - 1
          /\ \A i \in 1 .. Len(r) :
                (i <= n /\ r[i] = p[i]) \/ \E k \in 2 .. Len(q) : i = n + k - 1 /\ r[i] = q[k]
      BY PopIs
    <1>2. \A i \in 1 .. n : p[i] # x
      BY RangeIs
    <1>3. x \in Range(r) => \E i \in 1 .. Len(r) : r[i] = x
      <2>1. r \in Seq(S)
        BY PopIs
      <2> HIDE DEF r
      <2> QED
        BY <2>1, RangeIs
    <1> HIDE DEF r, n
    <1>4. ASSUME NEW i \in 1 .. Len(r), r[i] = x
          PROVE  \E k \in 2 .. Len(q) : i = n + k - 1 /\ q[k] = x
      BY <1>1, <1>2, <1>4
    <1>5. Once(r, x)
      <2>1. ASSUME NEW i \in 1 .. Len(r), NEW j \in 1 .. Len(r), r[i] = x, r[j] = x
            PROVE  i = j
        <3>1. PICK k \in 2 .. Len(q) : i = n + k - 1 /\ q[k] = x
          BY <1>4, <2>1
        <3>2. PICK l \in 2 .. Len(q) : j = n + l - 1 /\ q[l] = x
          BY <1>4, <2>1
        <3>3. k \in 1 .. Len(q) /\ l \in 1 .. Len(q)
          BY <1>1
        <3>4. k = l
          BY <3>1, <3>2, <3>3 DEF Once
        <3> QED
          BY <3>1, <3>2, <3>4
      <2> QED
        BY <2>1 DEF Once
    <1>6. Head(q) = x => x \notin Range(r)
      <2>1. ASSUME Head(q) = x, x \in Range(r)
            PROVE  FALSE
        <3>1. PICK k \in 2 .. Len(q) : q[k] = x
          BY <1>3, <1>4, <2>1
        <3>2. k \in 1 .. Len(q) /\ 1 \in 1 .. Len(q) /\ q[1] = x /\ k # 1
          BY <1>1, <2>1
        <3> QED
          BY <3>1, <3>2 DEF Once
      <2> QED
        BY <2>1
    <1> QED
      BY <1>5, <1>6 DEF r

\* Members of T stay ahead when a member is replaced by members, or another by others.
LEMMA LeadingPop ==
    ASSUME NEW S, NEW q \in Seq(S), q # << >>, NEW p \in Seq(S), NEW T, Leading(q, T),
           Range(p) \subseteq T \/ (Head(q) \notin T /\ Range(p) \cap T = {})
    PROVE  Leading(p \o Tail(q), T)
    <1> DEFINE r == p \o Tail(q)
               n == Len(p)
    <1>1. /\ Len(q) \in Nat \ {0} /\ n \in Nat /\ Head(q) = q[1] /\ Len(r) = n + Len(q) - 1
          /\ \A i \in 1 .. Len(r) :
                (i <= n /\ r[i] = p[i]) \/ \E k \in 2 .. Len(q) : i = n + k - 1 /\ r[i] = q[k]
      BY PopIs
    <1>2. \A i \in 1 .. n : p[i] \in Range(p)
      BY RangeIs
    <1> HIDE DEF r, n
    <1>3. ASSUME NEW i \in 1 .. Len(r), r[i] \in T, NEW j \in 1 .. i - 1
          PROVE  r[j] \in T
      <2>1. j \in 1 .. Len(r)
        BY <1>1
      <2>2. CASE i <= n
        <3>1. r[i] = p[i] /\ r[j] = p[j] /\ j \in 1 .. n /\ i \in 1 .. n
          BY <1>1, <2>1, <2>2
        <3> QED
          BY <1>2, <1>3, <3>1
      <2>3. CASE i > n
        <3>1. PICK k \in 2 .. Len(q) : i = n + k - 1 /\ r[i] = q[k]
          BY <1>1, <2>3
        <3>2. k \in 1 .. Len(q) /\ 1 \in 1 .. k - 1
          BY <1>1
        <3>3. \A l \in 1 .. k - 1 : q[l] \in T
          BY <1>3, <3>1, <3>2 DEF Leading
        <3>4. Range(p) \subseteq T
          BY <1>1, <3>2, <3>3
        <3>5. CASE j <= n
          BY <1>1, <1>2, <2>1, <3>4, <3>5
        <3>6. CASE j > n
          <4>1. PICK l \in 2 .. Len(q) : j = n + l - 1 /\ r[j] = q[l]
            BY <1>1, <2>1, <3>6
          <4>2. l \in 1 .. k - 1
            BY <1>1, <3>1, <4>1
          <4> QED
            BY <3>3, <4>1, <4>2
        <3> QED
          BY <1>1, <3>5, <3>6
      <2> QED
        BY <1>1, <2>2, <2>3
    <1> QED
      BY <1>3 DEF Leading, r

\* When the first step is not in T, none is.
LEMMA LeadingFirst ==
    ASSUME NEW S, NEW q \in Seq(S), q # << >>, NEW T, Leading(q, T), Head(q) \notin T
    PROVE  Range(q) \cap T = {}
    <1>1. Len(q) \in Nat \ {0} /\ Head(q) = q[1]
      BY EmptySeq
    <1>2. \A x : x \in Range(q) <=> \E i \in 1 .. Len(q) : q[i] = x
      BY RangeIs
    <1>3. ASSUME NEW i \in 1 .. Len(q), q[i] \in T
          PROVE  FALSE
      <2>1. i # 1 /\ 1 \in 1 .. i - 1
        BY <1>1, <1>3
      <2> QED
        BY <1>1, <1>3, <2>1 DEF Leading
    <1> QED
      BY <1>2, <1>3

-----------------------------------------------------------------------------
(* What a step of a thread does.                                           *)

\* Sequences of no, one and two steps.
LEMMA RangeOfLiteral ==
    /\ Range(<< >>) = {}
    /\ \A a : Range(<<a>>) = {a}
    /\ \A a, b : Range(<<a, b>>) = {a, b}
    BY DEF Range

LEMMA OneStep ==
    ASSUME NEW S, NEW a \in S
    PROVE  <<a>> \in Seq(S)
    OBVIOUS

LEMMA TwoStep ==
    ASSUME NEW S, NEW a \in S, NEW b \in S
    PROVE  <<a, b>> \in Seq(S)
    OBVIOUS

\* The members of a concatenation.
LEMMA ConcatIs ==
    ASSUME NEW S, NEW p \in Seq(S), NEW q \in Seq(S)
    PROVE  p \o q \in Seq(S) /\ Range(p \o q) = Range(p) \cup Range(q)
    BY ConcatProperties, RangeConcatenation

\* The steps of close().
LEMMA CloseIs ==
    /\ Close \in Seq(PoolSteps)
    /\ Range(Close) = {<<"join">>, <<"stop">>, <<"disconnect">>, <<"drain">>, <<"closed">>}
    <1>1. /\ <<"join">> \in PoolSteps /\ <<"stop">> \in PoolSteps /\ <<"disconnect">> \in PoolSteps
          /\ <<"drain">> \in PoolSteps /\ <<"closed">> \in PoolSteps
      BY DEF PoolSteps, StopSteps
    <1> DEFINE first == << <<"join">> >>
               end == << <<"disconnect">>, <<"drain">>, <<"closed">> >>
    <1>2. first \in Seq(PoolSteps) /\ Range(first) = {<<"join">>}
      BY <1>1, RangeOfLiteral
    <1>3. Stop \in Seq(PoolSteps) /\ Range(Stop) = {<<"stop">>}
      BY <1>1, RangeOfLiteral DEF Stop
    <1>4. end \in Seq(PoolSteps) /\ Range(end) = {<<"disconnect">>, <<"drain">>, <<"closed">>}
      BY <1>1 DEF Range
    <1>5. Close = (first \o Stop) \o end
      BY DEF Close
    <1> HIDE DEF first, end
    <1> DEFINE two == first \o Stop
    <1>6. two \in Seq(PoolSteps) /\ Range(two) = Range(first) \cup Range(Stop)
      BY <1>2, <1>3, ConcatIs
    <1> HIDE DEF two
    <1>7. two \o end \in Seq(PoolSteps) /\ Range(two \o end) = Range(two) \cup Range(end)
      BY <1>4, <1>6, ConcatIs
    <1> QED
      BY <1>2, <1>3, <1>4, <1>5, <1>6, <1>7 DEF two

\* The steps of stop() once it has its mutex: the last one releases it.
LEMMA StoppingIs ==
    /\ Stopping \in Seq(StopSteps) /\ Len(Stopping) = 5 /\ Stopping[5] = <<"unlock">>
    /\ Range(Stopping) =
           {<<"flag">>, <<"disconnect">>, <<"drain">>, <<"notify", "idle">>, <<"unlock">>}
    /\ Once(Stopping, <<"unlock">>)
    <1>1. /\ <<"flag">> \in StopSteps /\ <<"disconnect">> \in StopSteps
          /\ <<"drain">> \in StopSteps /\ <<"unlock">> \in StopSteps
          /\ <<"notify", "idle">> \in StopSteps
      BY DEF StopSteps, Events
    <1>2. Len(Stopping) = 5 /\ Stopping[5] = <<"unlock">> /\ Once(Stopping, <<"unlock">>)
      BY DEF Stopping, Once
    <1>3. Stopping \in Seq(StopSteps)
      BY <1>1 DEF Stopping
    <1>4. Range(Stopping) =
            {<<"flag">>, <<"disconnect">>, <<"drain">>, <<"notify", "idle">>, <<"unlock">>}
      BY DEF Stopping, Range
    <1> QED
      BY <1>2, <1>3, <1>4

\* The steps s that Perform takes, and the steps more that replace one.
RunSteps == PoolSteps \cup {<<"grab">>, <<"receive">>}

Follows(t, s, more) ==
    /\ more \in Seq(PoolSteps) \/ (s = <<"grab">> /\ more = << <<"receive">> >>)
    /\ s \in {<<"joining">>, <<"unlock">>} \/ s \notin RunSteps => more = << >>
    /\ s \in StopSteps \ {<<"stop">>} => more \in Seq(Notifying)
    /\ s = <<"stop">> => more = IF isGrabbing THEN Stopping ELSE << >>
    /\ s = <<"join">> => more = IF stopWorker THEN << <<"joining">> >> ELSE << >>
    /\ s = <<"joining">> => agenda["worker"] = << >>
    /\ s # <<"stop">> => <<"unlock">> \notin Range(more)
    /\ \/ Range(more) \subseteq Notifying
       \/ s \notin Notifying /\ Range(more) \cap Notifying = {}

Replaces(t, s, more) == s \in RunSteps /\ Follows(t, s, more)

\* What becomes of the facade.
FlagStep(t, s) ==
    /\ isOpened' \in BOOLEAN /\ isGrabbing' \in BOOLEAN /\ stopRequested' \in BOOLEAN
    /\ stopWorker' \in BOOLEAN /\ connected' \in BOOLEAN
    /\ isGrabbing' => isGrabbing \/ s = <<"grab">>
    /\ s = <<"stop">> =>
          /\ stopMutex = "none" /\ ~isGrabbing'
          /\ stopMutex' = IF isGrabbing THEN t ELSE "none"
    /\ s = <<"unlock">> => stopMutex' = "none"
    /\ s \notin {<<"stop">>, <<"unlock">>} => stopMutex' = stopMutex
    /\ stopWorker' = IF s = <<"join">> THEN FALSE ELSE stopWorker
    /\ s = <<"drain">> => data \in {"none", "done"} /\ data' = "none"
    /\ s = <<"receive">> => data' \in {data, "loop"}
    /\ s \notin {<<"drain">>, <<"receive">>} => data' = data

FacadeStep(t, s) ==
    FlagStep(t, s) /\ UNCHANGED <<registries, pending, serving, leased, observers>>

\* What becomes of the notifications.
NotifyStep(t, s, more) ==
    /\ calling' \in [Callers -> SUBSET {"title", "controller", "widget"}]
    /\ \A u \in Callers \ {t} : calling'[u] = calling[u]
    /\ calling'[t] \subseteq calling[t] \cup statusObservers
    /\ calling'[t] # {} =>
          \/ \E e \in Events : <<"call", e>> \in Range(more)
          \/ calling'[t] = calling[t] /\ s \notin {"call"} \X Events
    /\ \A o \in Used \ {"host"} : <<"use", o>> \in Range(more) =>
          \/ o = "controller" /\ o \in calling[t]
          \/ o = "widget" /\ o \in alive

Performed(t, s, more) ==
    /\ Do(t, s, more)
    /\ Replaces(t, s, more) /\ FacadeStep(t, s) /\ NotifyStep(t, s, more)

\* What a notification does not do.
LEMMA PlainNotify ==
    ASSUME TypeOK, NEW t \in Callers, NEW s, NEW more, s \notin {"call"} \X Events,
           Range(more) \cap Notifying = {}, UNCHANGED calling
    PROVE  NotifyStep(t, s, more)
    <1>1. \A o \in Used : <<"use", o>> \in Notifying
      BY DEF Notifying
    <1> QED
      BY <1>1 DEF NotifyStep, TypeOK

\* What a step that nothing replaces does not do.
LEMMA NothingReplaces ==
    ASSUME NEW t, NEW s \in RunSteps, s \notin {<<"stop">>, <<"join">>, <<"joining">>}
    PROVE  Replaces(t, s, << >>)
    <1>1. Range(<< >>) = {}
      BY RangeOfLiteral
    <1>2. << >> \in Seq(PoolSteps) /\ << >> \in Seq(Notifying)
      OBVIOUS
    <1> QED
      BY <1>1, <1>2 DEF Replaces, Follows

\* The types of the facade's flags.
LEMMA Flags ==
    ASSUME TypeOK
    PROVE  /\ isOpened \in BOOLEAN /\ isGrabbing \in BOOLEAN /\ stopRequested \in BOOLEAN
           /\ stopWorker \in BOOLEAN /\ connected \in BOOLEAN
    BY DEF TypeOK

\* The steps of the facade that nothing replaces.
LEMMA ShortSteps ==
    ASSUME TypeOK, NEW t \in Callers
    PROVE  /\ Flag(t) => Performed(t, <<"flag">>, << >>)
           /\ Disconnect(t) => Performed(t, <<"disconnect">>, << >>)
           /\ Drain(t) => Performed(t, <<"drain">>, << >>)
           /\ Unlock(t) => Performed(t, <<"unlock">>, << >>)
    <1>1. ASSUME NEW s \in {<<"flag">>, <<"disconnect">>, <<"drain">>, <<"unlock">>},
                 UNCHANGED calling
          PROVE  Replaces(t, s, << >>) /\ NotifyStep(t, s, << >>)
      <2>1. s \in RunSteps
        BY <1>1 DEF RunSteps, PoolSteps, StopSteps
      <2>3. s \notin {<<"stop">>, <<"join">>, <<"joining">>}
        BY <1>1
      <2>2. s \notin {"call"} \X Events
        OBVIOUS
      <2> QED
        BY <1>1, <2>1, <2>2, <2>3, NothingReplaces, PlainNotify, RangeOfLiteral
    <1>2. ASSUME Flag(t)
          PROVE  Performed(t, <<"flag">>, << >>)
      <2>1. FacadeStep(t, <<"flag">>)
        BY <1>2, Flags DEF Flag, FacadeStep, FlagStep, delivery
      <2> QED
        BY <1>1, <1>2, <2>1 DEF Performed, Flag
    <1>3. ASSUME Disconnect(t)
          PROVE  Performed(t, <<"disconnect">>, << >>)
      <2>1. FacadeStep(t, <<"disconnect">>)
        BY <1>3, Flags DEF Disconnect, FacadeStep, FlagStep, delivery
      <2> QED
        BY <1>1, <1>3, <2>1 DEF Performed, Disconnect
    <1>4. ASSUME Drain(t)
          PROVE  Performed(t, <<"drain">>, << >>)
      <2>1. FacadeStep(t, <<"drain">>)
        BY <1>4, Flags DEF Drain, FacadeStep, FlagStep, facade
      <2> QED
        BY <1>1, <1>4, <2>1 DEF Performed, Drain
    <1>5. ASSUME Unlock(t)
          PROVE  Performed(t, <<"unlock">>, << >>)
      <2>1. FacadeStep(t, <<"unlock">>)
        BY <1>5, Flags DEF Unlock, FacadeStep, FlagStep, delivery
      <2> QED
        BY <1>1, <1>5, <2>1 DEF Performed, Unlock
    <1> QED
      BY <1>2, <1>3, <1>4, <1>5

\* Steps that stop() and the observers do not take, and steps without observers.
LEMMA Apart ==
    /\ \A n \in {"open", "join", "joining", "closed", "grab", "receive"} :
          <<n>> \notin StopSteps /\ <<n>> \notin Notifying
    /\ \A n \in {"stop", "flag", "disconnect", "drain", "unlock"} : <<n>> \notin Notifying
    /\ \A e \in Events : <<"notify", e>> \notin Notifying
    <1>1. ASSUME NEW n \in {"open", "join", "joining", "closed", "grab", "receive"}
          PROVE  <<n>> \notin StopSteps /\ <<n>> \notin Notifying
      <2>1. <<n>> \notin StopSteps
        BY <1>1 DEF StopSteps
      <2>2. <<n>> \notin Notifying
        BY <1>1 DEF Notifying
      <2> QED
        BY <2>1, <2>2
    <1>2. ASSUME NEW n \in {"stop", "flag", "disconnect", "drain", "unlock"}
          PROVE  <<n>> \notin Notifying
      BY <1>2 DEF Notifying
    <1>3. ASSUME NEW e \in Events
          PROVE  <<"notify", e>> \notin Notifying
      BY DEF Notifying
    <1> QED
      BY <1>1, <1>2, <1>3

\* joinStopWorker().
LEMMA JoinSteps ==
    ASSUME TypeOK, NEW t \in Callers
    PROVE  /\ Join(t) => \E more : Performed(t, <<"join">>, more)
           /\ Joined(t) => Performed(t, <<"joining">>, << >>)
    <1>1. <<"join">> \in RunSteps /\ <<"joining">> \in RunSteps /\ <<"joining">> \in PoolSteps
      BY DEF RunSteps, PoolSteps
    <1>2. ASSUME NEW s \in {<<"join">>, <<"joining">>}
          PROVE  s \notin StopSteps /\ s \notin Notifying /\ s \notin {"call"} \X Events
      <2>1. s \notin StopSteps
        BY <1>2, Apart
      <2>2. s \notin Notifying
        BY <1>2, Apart
      <2> QED
        BY <1>2, <2>1, <2>2
    <1>3. ASSUME Join(t)
          PROVE  \E more : Performed(t, <<"join">>, more)
      <2> DEFINE more == IF stopWorker THEN << <<"joining">> >> ELSE << >>
      <2>1. Do(t, <<"join">>, more) /\ UNCHANGED calling
        BY <1>3 DEF Join
      <2>2. FacadeStep(t, <<"join">>)
        BY <1>3, Flags DEF Join, FacadeStep, FlagStep, delivery
      <2>3. more \in Seq(PoolSteps) /\ Range(more) \subseteq {<<"joining">>}
        BY <1>1, RangeOfLiteral
      <2>4. Replaces(t, <<"join">>, more)
        BY <1>1, <1>2, <2>3 DEF Replaces, Follows
      <2>5. Range(more) \cap Notifying = {}
        BY <1>2, <2>3
      <2> HIDE DEF more
      <2>6. NotifyStep(t, <<"join">>, more)
        BY <1>2, <2>1, <2>5, PlainNotify
      <2> QED
        BY <2>1, <2>2, <2>4, <2>6 DEF Performed
    <1>4. ASSUME Joined(t)
          PROVE  Performed(t, <<"joining">>, << >>)
      <2>1. /\ Do(t, <<"joining">>, << >>) /\ agenda["worker"] = << >>
            /\ UNCHANGED <<facade, registries, calling, delivery, observers>>
        BY <1>4 DEF Joined, OnlyAgenda
      <2>2. FacadeStep(t, <<"joining">>)
        BY <2>1, Flags DEF FacadeStep, FlagStep, facade, delivery
      <2>3. Replaces(t, <<"joining">>, << >>)
        <3>1. << >> \in Seq(PoolSteps) /\ Range(<< >>) = {}
          BY RangeOfLiteral
        <3> QED
          BY <1>1, <1>2, <2>1, <3>1 DEF Replaces, Follows
      <2>4. NotifyStep(t, <<"joining">>, << >>)
        BY <1>2, <2>1, PlainNotify, RangeOfLiteral
      <2> QED
        BY <2>1, <2>2, <2>3, <2>4 DEF Performed
    <1> QED
      BY <1>3, <1>4

\* The steps of open(), close() and grab(), which other steps replace.
LEMMA LongSteps ==
    ASSUME TypeOK, NEW t \in Callers
    PROVE  /\ OpenFacade(t) => \E more : Performed(t, <<"open">>, more)
           /\ Closed(t) => \E more : Performed(t, <<"closed">>, more)
           /\ GrabFacade(t) => \E more : Performed(t, <<"grab">>, more)
           /\ Receive(t) => \E more : Performed(t, <<"receive">>, more)
    <1>1. ASSUME NEW s \in {<<"open">>, <<"closed">>, <<"grab">>, <<"receive">>}
          PROVE  /\ s \in RunSteps
                 /\ s \notin StopSteps /\ s \notin Notifying /\ s \notin {"call"} \X Events
      <2>1. s \in RunSteps
        BY <1>1 DEF RunSteps, PoolSteps
      <2>2. s \notin StopSteps
        BY <1>1, Apart
      <2>3. s \notin Notifying
        BY <1>1, Apart
      <2> QED
        BY <1>1, <2>1, <2>2, <2>3
    <1>2. ASSUME NEW s \in {<<"open">>, <<"closed">>, <<"grab">>, <<"receive">>}, NEW more,
                 \/ more \in Seq(PoolSteps)
                 \/ s = <<"grab">> /\ more = << <<"receive">> >>,
                 Range(more) \cap Notifying = {}, <<"unlock">> \notin Range(more),
                 UNCHANGED calling, Do(t, s, more), FacadeStep(t, s)
          PROVE  Performed(t, s, more)
      <2>1. s \notin {<<"stop">>, <<"join">>, <<"joining">>}
        BY <1>2
      <2>2. Replaces(t, s, more)
        BY <1>1, <1>2, <2>1 DEF Replaces, Follows
      <2>3. NotifyStep(t, s, more)
        BY <1>1, <1>2, PlainNotify
      <2> QED
        BY <1>2, <2>2, <2>3 DEF Performed
    <1> DEFINE Plain(more) == /\ more \in Seq(PoolSteps)
                              /\ Range(more) \cap Notifying = {} /\ <<"unlock">> \notin Range(more)
    <1>3. Plain(<< >>) /\ Plain(Close) /\ Plain(Stop)
      <2>1. \A s : Range(<<s>>) = {s}
        BY RangeOfLiteral
      <2>2. Plain(<< >>)
        BY RangeOfLiteral
      <2>3. Plain(Stop)
        <3>1. <<"stop">> \in PoolSteps /\ <<"stop">> \notin Notifying
          BY DEF PoolSteps, StopSteps, Notifying
        <3> QED
          BY <2>1, <3>1 DEF Stop
      <2>4. Plain(Close)
        <3>1. {<<"join">>, <<"stop">>, <<"disconnect">>, <<"drain">>, <<"closed">>}
              \cap Notifying = {}
          BY Apart
        <3> QED
          BY <3>1, CloseIs
      <2> QED
        BY <2>2, <2>3, <2>4
    <1>4. ASSUME NEW e \in Events
          PROVE  Plain(<< <<"notify", e>> >>)
      <2>1. <<"notify", e>> \in PoolSteps
        BY DEF PoolSteps, StopSteps
      <2>2. <<"notify", e>> \notin Notifying
        BY DEF Notifying
      <2>3. Range(<< <<"notify", e>> >>) = {<<"notify", e>>}
        BY RangeOfLiteral
      <2> QED
        BY <2>1, <2>2, <2>3
    <1>5. "live" \in Events /\ "opened" \in Events /\ "closed" \in Events
      BY DEF Events
    <1> HIDE DEF Plain
    <1>6. ASSUME OpenFacade(t)
          PROVE  \E more : Performed(t, <<"open">>, more)
      <2>1. FacadeStep(t, <<"open">>) /\ UNCHANGED calling
        BY <1>6, Flags DEF OpenFacade, FacadeStep, FlagStep, delivery
      <2>2. PICK more : Do(t, <<"open">>, more) /\ Plain(more)
        BY <1>3, <1>4, <1>5, <1>6 DEF OpenFacade
      <2> QED
        BY <1>2, <2>1, <2>2 DEF Plain
    <1>7. ASSUME Closed(t)
          PROVE  \E more : Performed(t, <<"closed">>, more)
      <2>1. FacadeStep(t, <<"closed">>) /\ UNCHANGED calling
        BY <1>7, Flags DEF Closed, FacadeStep, FlagStep, delivery
      <2>2. PICK more : Do(t, <<"closed">>, more) /\ Plain(more)
        BY <1>3, <1>4, <1>5, <1>7 DEF Closed
      <2> QED
        BY <1>2, <2>1, <2>2 DEF Plain
    <1>8. ASSUME GrabFacade(t)
          PROVE  \E more : Performed(t, <<"grab">>, more)
      <2>1. FacadeStep(t, <<"grab">>) /\ UNCHANGED calling
        BY <1>8, Flags DEF GrabFacade, FacadeStep, FlagStep, delivery
      <2>2. \E more : Do(t, <<"grab">>, more) /\ (Plain(more) \/ more = << <<"receive">> >>)
        BY <1>3, <1>8 DEF GrabFacade
      <2>3. PICK more : Do(t, <<"grab">>, more) /\ (Plain(more) \/ more = << <<"receive">> >>)
        BY <2>2
      <2>4. Range(<< <<"receive">> >>) = {<<"receive">>} /\ <<"receive">> \notin Notifying
        BY <1>1, RangeOfLiteral
      <2>5. Range(more) \cap Notifying = {} /\ <<"unlock">> \notin Range(more)
        BY <2>3, <2>4 DEF Plain
      <2> QED
        BY <1>2, <2>1, <2>3, <2>5 DEF Plain
    <1>9. ASSUME Receive(t)
          PROVE  \E more : Performed(t, <<"receive">>, more)
      <2>1. FacadeStep(t, <<"receive">>) /\ UNCHANGED calling
        BY <1>9, Flags DEF Receive, FacadeStep, FlagStep
      <2>2. PICK more : Do(t, <<"receive">>, more) /\ Plain(more)
        BY <1>3, <1>4, <1>5, <1>9 DEF Receive
      <2> QED
        BY <1>2, <2>1, <2>2 DEF Plain
    <1> QED
      BY <1>6, <1>7, <1>8, <1>9

\* stop().
LEMMA StopStep ==
    ASSUME TypeOK, NEW t \in Callers, StopFacade(t)
    PROVE  \E more : Performed(t, <<"stop">>, more)
    <1> DEFINE more == IF isGrabbing THEN Stopping ELSE << >>
    <1>1. Do(t, <<"stop">>, more) /\ UNCHANGED calling
      BY DEF StopFacade
    <1>2. FacadeStep(t, <<"stop">>)
      BY Flags DEF StopFacade, FacadeStep, FlagStep, delivery
    <1>3. /\ <<"stop">> \in RunSteps /\ <<"stop">> \notin Notifying
          /\ <<"stop">> \notin {"call"} \X Events
      BY DEF RunSteps, PoolSteps, StopSteps, Notifying
    <1>4. Stopping \in Seq(PoolSteps)
      <2>1. StopSteps \subseteq PoolSteps
        BY DEF PoolSteps
      <2> QED
        BY <2>1, StoppingIs, SeqMonotonic
    <1>5. Range(Stopping) \cap Notifying = {} /\ Range(<< >>) = {}
      <2>1. {<<"flag">>, <<"disconnect">>, <<"drain">>, <<"notify", "idle">>, <<"unlock">>}
              \cap Notifying = {}
        BY Apart DEF Events
      <2> QED
        BY <2>1, StoppingIs, RangeOfLiteral
    <1>6. more \in Seq(PoolSteps) /\ Range(more) \cap Notifying = {}
      BY <1>4, <1>5
    <1>7. Replaces(t, <<"stop">>, more)
      BY <1>3, <1>6 DEF Replaces, Follows
    <1> HIDE DEF more
    <1>8. NotifyStep(t, <<"stop">>, more)
      BY <1>1, <1>3, <1>6, PlainNotify
    <1> QED
      BY <1>1, <1>2, <1>7, <1>8 DEF Performed

\* The steps of a notification are steps of stop().
LEMMA NotifyingIs ==
    /\ Notifying \subseteq StopSteps /\ StopSteps \subseteq PoolSteps
    /\ PoolSteps \subseteq RunSteps
    /\ {"notify"} \X Events \subseteq StopSteps
    <1>1. Notifying \subseteq StopSteps /\ {"notify"} \X Events \subseteq StopSteps
      BY DEF Notifying, StopSteps
    <1> QED
      BY <1>1 DEF PoolSteps, RunSteps

\* What a notification does to the facade: nothing.
LEMMA Quiet ==
    ASSUME TypeOK, NEW t \in Callers, NEW s \in Notifying \cup {"notify"} \X Events,
           NEW more \in Seq(Notifying),
           UNCHANGED <<facade, registries, delivery, observers>>
    PROVE  Replaces(t, s, more) /\ FacadeStep(t, s)
    <1>1. \A n \in {"stop", "drain", "unlock", "join", "joining", "grab", "receive"} : s # <<n>>
      BY Apart
    <1>2. s \in StopSteps \ {<<"stop">>} /\ s \in RunSteps
      BY <1>1, NotifyingIs
    <1>3. Range(more) \subseteq Notifying /\ <<"unlock">> \notin Range(more)
      BY RangeOfSeq, Apart
    <1>4. more \in Seq(PoolSteps)
      BY NotifyingIs, SeqMonotonic
    <1>5. Replaces(t, s, more)
      BY <1>1, <1>2, <1>3, <1>4 DEF Replaces, Follows
    <1>6. FacadeStep(t, s)
      BY <1>1, Flags DEF FacadeStep, FlagStep, facade, delivery
    <1> QED
      BY <1>5, <1>6

\* A notification begins, with the registered observers, or has called all.
LEMMA NotifySteps ==
    ASSUME TypeOK, NEW t \in Callers, NEW e \in Events
    PROVE  /\ Notify(t, e) => \E s, more : Performed(t, s, more)
           /\ Called(t, e) => \E s, more : Performed(t, s, more)
    <1>1. ASSUME Notify(t, e)
          PROVE  Performed(t, <<"notify", e>>, << <<"call", e>> >>)
      <2> DEFINE s == <<"notify", e>>
                 more == << <<"call", e>> >>
      <2>1. /\ Do(t, s, more) /\ calling' = [calling EXCEPT ![t] = statusObservers]
            /\ UNCHANGED <<facade, registries, delivery, observers>>
        BY <1>1 DEF Notify
      <2>2. s \in {"notify"} \X Events
        OBVIOUS
      <2>3. <<"call", e>> \in Notifying
        BY DEF Notifying
      <2>4. more \in Seq(Notifying) /\ Range(more) = {<<"call", e>>}
        BY <2>3, RangeOfLiteral
      <2>5. \A o : <<"use", o>> # <<"call", e>>
        OBVIOUS
      <2> HIDE DEF s, more
      <2>6. NotifyStep(t, s, more)
        BY <2>1, <2>4, <2>5 DEF NotifyStep, TypeOK
      <2>7. Replaces(t, s, more) /\ FacadeStep(t, s)
        BY <2>1, <2>2, <2>4, Quiet
      <2> QED
        BY <2>1, <2>6, <2>7 DEF Performed, s, more
    <1>2. ASSUME Called(t, e)
          PROVE  Performed(t, <<"call", e>>, << >>)
      <2> DEFINE s == <<"call", e>>
      <2>1. /\ Do(t, s, << >>) /\ calling' = calling /\ calling[t] = {}
            /\ UNCHANGED <<facade, registries, delivery, observers>>
        BY <1>2 DEF Called, OnlyAgenda
      <2>2. s \in Notifying
        BY DEF Notifying
      <2>3. << >> \in Seq(Notifying) /\ Range(<< >>) = {}
        BY RangeOfLiteral
      <2> HIDE DEF s
      <2>4. NotifyStep(t, s, << >>)
        BY <2>1, <2>3 DEF NotifyStep, TypeOK
      <2>5. Replaces(t, s, << >>) /\ FacadeStep(t, s)
        BY <2>1, <2>2, <2>3, Quiet
      <2> QED
        BY <2>1, <2>4, <2>5 DEF Performed, s
    <1> QED
      BY <1>1, <1>2

\* An observer is called.
LEMMA CallStep ==
    ASSUME TypeOK, NEW t \in Callers, NEW e \in Events, NEW o, NEW steps \in Seq(Notifying),
           CallObserver(t, e, o, steps),
           \A p \in Used \ {"host"} : <<"use", p>> \in Range(steps) =>
               \/ p = "controller" /\ p \in calling[t]
               \/ p = "widget" /\ p \in alive
    PROVE  \E s, more : Performed(t, s, more)
    <1> DEFINE s == <<"call", e>>
               last == << s >>
               more == steps \o last
    <1>1. /\ Do(t, s, more) /\ calling' = [calling EXCEPT ![t] = @ \ {o}]
          /\ UNCHANGED <<facade, registries, delivery, observers>>
      BY DEF CallObserver
    <1>2. s \in Notifying
      BY DEF Notifying
    <1>3. \A p : <<"use", p>> # s
      OBVIOUS
    <1> HIDE DEF s
    <1>4. last \in Seq(Notifying) /\ Range(last) = {s}
      BY <1>2, RangeOfLiteral
    <1> HIDE DEF last
    <1>5. more \in Seq(Notifying) /\ Range(more) = Range(steps) \cup {s}
      BY <1>4, ConcatIs
    <1> HIDE DEF more
    <1>6. NotifyStep(t, s, more)
      <2>1. calling' \in [Callers -> SUBSET {"title", "controller", "widget"}]
        BY <1>1 DEF TypeOK
      <2>2. \A u \in Callers \ {t} : calling'[u] = calling[u]
        BY <1>1 DEF TypeOK
      <2>3. calling'[t] \subseteq calling[t]
        BY <1>1 DEF TypeOK
      <2>4. <<"call", e>> \in Range(more)
        BY <1>5 DEF s
      <2>5. \A p \in Used \ {"host"} : <<"use", p>> \in Range(more) =>
               \/ p = "controller" /\ p \in calling[t]
               \/ p = "widget" /\ p \in alive
        BY <1>3, <1>5
      <2> QED
        BY <2>1, <2>2, <2>3, <2>4, <2>5 DEF NotifyStep
    <1>7. Replaces(t, s, more) /\ FacadeStep(t, s)
      BY <1>1, <1>2, <1>5, Quiet
    <1> QED
      BY <1>1, <1>6, <1>7 DEF Performed

\* What an observer does with the call: the controller's, the widget's and the title's.
LEMMA ObserverSteps ==
    ASSUME TypeOK, NEW t \in Callers, NEW e \in Events,
           TellController(t, e) \/ TellWidget(t, e) \/ TellTitle(t, e)
    PROVE  \E s, more : Performed(t, s, more)
    <1>1. /\ << >> \in Seq(Notifying) /\ Range(<< >>) = {}
      BY RangeOfLiteral
    <1>2. ASSUME NEW o \in Used
          PROVE  << <<"use", o>> >> \in Seq(Notifying) /\ Range(<< <<"use", o>> >>) = {<<"use", o>>}
      <2>1. <<"use", o>> \in Notifying
        BY DEF Notifying
      <2> QED
        BY <2>1, RangeOfLiteral
    <1>3. "controller" \in Used /\ "widget" \in Used
      BY DEF Used
    <1>7. << <<"read title">> >> \in Seq(Notifying)
      <2>1. <<"read title">> \in Notifying
        BY DEF Notifying
      <2> QED
        BY <2>1, OneStep
    <1>4. CASE TellController(t, e)
      <2>1. PICK steps : /\ CallObserver(t, e, "controller", steps)
                         /\ steps = << >> \/ steps = << <<"use", "controller">> >>
        BY <1>4 DEF TellController
      <2>2. "controller" \in calling[t]
        BY <2>1 DEF CallObserver
      <2>3. steps \in Seq(Notifying) /\ Range(steps) \subseteq {<<"use", "controller">>}
        BY <1>1, <1>2, <1>3, <2>1
      <2>4. \A p : <<"use", p>> = <<"use", "controller">> => p = "controller"
        OBVIOUS
      <2> QED
        BY <2>1, <2>2, <2>3, <2>4, CallStep
    <1>5. CASE TellWidget(t, e)
      <2>1. PICK steps : /\ CallObserver(t, e, "widget", steps)
                         /\ \/ steps = << >>
                            \/ steps = << <<"use", "widget">> >> /\ "widget" \in alive
        BY <1>5 DEF TellWidget
      <2>2. /\ steps \in Seq(Notifying) /\ Range(steps) \subseteq {<<"use", "widget">>}
            /\ steps = << >> \/ "widget" \in alive
        BY <1>1, <1>2, <1>3, <2>1
      <2>3. \A p : <<"use", p>> = <<"use", "widget">> => p = "widget"
        OBVIOUS
      <2> QED
        BY <1>1, <2>1, <2>2, <2>3, CallStep
    <1>6. CASE TellTitle(t, e)
      <2>1. PICK steps \in {<< >>, << <<"read title">> >>} : CallObserver(t, e, "title", steps)
        BY <1>6 DEF TellTitle
      <2>2. \A p : <<"use", p>> # <<"read title">>
        OBVIOUS
      <2>5. Range(<< <<"read title">> >>) = {<<"read title">>}
        BY RangeOfLiteral
      <2>4. steps \in Seq(Notifying) /\ \A p : <<"use", p>> \notin Range(steps)
        BY <1>1, <1>7, <2>1, <2>2, <2>5
      <2> QED
        BY <2>1, <2>4, CallStep
    <1> QED
      BY <1>4, <1>5, <1>6

\* The observers run.
LEMMA UseSteps ==
    ASSUME TypeOK, NEW t \in Callers,
           ReadTitle(t) \/ Publish(t) \/ \E o \in Used : Use(t, o)
    PROVE  \E s, more : Performed(t, s, more)
    <1>1. /\ <<"read title">> \in Notifying /\ <<"publish">> \in Notifying
          /\ \A o \in Used : <<"use", o>> \in Notifying
      BY DEF Notifying
    <1>2. "host" \in Used
      BY DEF Used
    <1>3. /\ << >> \in Seq(Notifying) /\ << <<"publish">> >> \in Seq(Notifying)
          /\ << <<"use", "host">> >> \in Seq(Notifying)
      <2>1. << <<"publish">> >> \in Seq(Notifying)
        <3>1. <<"publish">> \in Notifying
          BY DEF Notifying
        <3> QED
          BY <3>1
      <2>2. << <<"use", "host">> >> \in Seq(Notifying)
        <3>1. <<"use", "host">> \in Notifying
          BY <1>2 DEF Notifying
        <3> QED
          BY <3>1
      <2> QED
        BY <2>1, <2>2
    <1>8. /\ Range(<< >>) = {} /\ Range(<< <<"publish">> >>) = {<<"publish">>}
          /\ Range(<< <<"use", "host">> >>) = {<<"use", "host">>}
      BY RangeOfLiteral
    <1>4. PICK s \in Notifying, more \in Seq(Notifying) :
             /\ Do(t, s, more)
             /\ s \notin {"call"} \X Events
             /\ \A o \in Used \ {"host"} : <<"use", o>> \notin Range(more)
      <2>1. CASE ReadTitle(t)
        <3>1. PICK more \in {<< >>, << <<"publish">> >>} : Do(t, <<"read title">>, more)
          BY <2>1 DEF ReadTitle
        <3>2. <<"read title">> \notin {"call"} \X Events /\ \A o : <<"use", o>> # <<"publish">>
          OBVIOUS
        <3> QED
          BY <1>1, <1>3, <1>8, <3>1, <3>2
      <2>2. CASE Publish(t)
        <3>1. PICK more \in {<< >>, << <<"use", "host">> >>} : Do(t, <<"publish">>, more)
          BY <2>2 DEF Publish
        <3>2. <<"publish">> \notin {"call"} \X Events
          OBVIOUS
        <3>3. \A o : <<"use", o>> = <<"use", "host">> => o = "host"
          OBVIOUS
        <3> QED
          BY <1>1, <1>3, <1>8, <3>1, <3>2, <3>3
      <2>3. CASE \E o \in Used : Use(t, o)
        <3>1. PICK o \in Used : Do(t, <<"use", o>>, << >>)
          BY <2>3 DEF Use
        <3>2. <<"use", o>> \notin {"call"} \X Events
          OBVIOUS
        <3> QED
          BY <1>1, <1>3, <1>8, <3>1, <3>2
      <2> QED
        BY <2>1, <2>2, <2>3
    <1>5. UNCHANGED <<facade, registries, calling, delivery, observers>>
      BY DEF ReadTitle, Publish, Use, OnlyAgenda
    <1>6. NotifyStep(t, s, more)
      BY <1>4, <1>5 DEF NotifyStep, TypeOK
    <1>7. Replaces(t, s, more) /\ FacadeStep(t, s)
      BY <1>5, Quiet
    <1> QED
      BY <1>4, <1>6, <1>7 DEF Performed

\* What any step of a caller does.
LEMMA Performs ==
    ASSUME TypeOK, NEW t \in Callers, Perform(t)
    PROVE  \E s, more : Performed(t, s, more)
    <1>1. CASE Join(t) \/ Joined(t)
      BY <1>1, JoinSteps
    <1>2. CASE OpenFacade(t) \/ Closed(t) \/ GrabFacade(t) \/ Receive(t)
      BY <1>2, LongSteps
    <1>3. CASE StopFacade(t)
      BY <1>3, StopStep
    <1>4. CASE Flag(t) \/ Disconnect(t) \/ Drain(t) \/ Unlock(t)
      BY <1>4, ShortSteps
    <1>5. CASE \E e \in Events : Notify(t, e) \/ Called(t, e)
      BY <1>5, NotifySteps
    <1>6. CASE \E e \in Events : TellController(t, e) \/ TellWidget(t, e) \/ TellTitle(t, e)
      BY <1>6, ObserverSteps
    <1>7. CASE ReadTitle(t) \/ Publish(t) \/ \E o \in Used : Use(t, o)
      BY <1>7, UseSteps
    <1> QED
      BY <1>1, <1>2, <1>3, <1>4, <1>5, <1>6, <1>7 DEF Perform

\* What becomes of the registries, the gates and the objects.
ObserverStep(s) ==
    /\ statusObservers' \subseteq statusObservers /\ grabCallbacks' \subseteq grabCallbacks
    /\ \A o : s = <<"deregister", o>> => o \notin statusObservers' \cup grabCallbacks'
    /\ shut \subseteq shut' /\ shut' \subseteq Streams
    /\ \A x : s = <<"shut", x>> => x \in shut'
    /\ \A x : s = <<"drained", x>> => x \notin leased
    /\ s = <<"wait for pool">> => agenda["pool"] = << >>
    /\ alive' \subseteq alive
    /\ \A o \in alive \ alive' : s = <<"gone", o>> /\ o # "widget"
    /\ titleActive' \in BOOLEAN
    /\ UNCHANGED <<pending, serving, leased>>

\* A step of a thread: t takes s, which the steps more replace.
Step(t, s, more) ==
    /\ Do(t, s, more)
    /\ Follows(t, s, more) /\ FlagStep(t, s) /\ NotifyStep(t, s, more) /\ ObserverStep(s)

\* The steps of the teardown are not taken by Perform.
LEMMA Later ==
    /\ \A o : <<"gone", o>> \notin RunSteps /\ <<"deregister", o>> \notin RunSteps
    /\ \A o : <<"shut", o>> \notin RunSteps /\ <<"drained", o>> \notin RunSteps
    /\ <<"wait for pool">> \notin RunSteps /\ <<"deactivate">> \notin RunSteps
    /\ <<"grab">> \notin PoolSteps /\ <<"receive">> \notin PoolSteps
    <1>1. ASSUME NEW n \in {"gone", "deregister", "shut", "drained"}, NEW o
          PROVE  <<n, o>> \notin RunSteps
      BY <1>1 DEF RunSteps, PoolSteps, StopSteps
    <1>2. ASSUME NEW n \in {"wait for pool", "deactivate"}
          PROVE  <<n>> \notin RunSteps
      BY <1>2 DEF RunSteps, PoolSteps, StopSteps
    <1>3. ASSUME NEW n \in {"grab", "receive"}
          PROVE  <<n>> \notin PoolSteps
      BY <1>3 DEF PoolSteps, StopSteps
    <1> QED
      BY <1>1, <1>2, <1>3

\* Perform takes such a step.
LEMMA PerformIsStep ==
    ASSUME TypeOK, NEW t \in Callers, Perform(t)
    PROVE  \E s, more : Step(t, s, more)
    <1>1. PICK s, more : Performed(t, s, more)
      BY Performs
    <1>2. s \in RunSteps
      BY <1>1 DEF Performed, Replaces
    <1>3. ObserverStep(s)
      <2>1. /\ UNCHANGED <<registries, pending, serving, leased, observers>>
        BY <1>1 DEF Performed, FacadeStep
      <2>2. s # <<"wait for pool">> /\ \A o : s # <<"deregister", o>> /\ s # <<"shut", o>>
            /\ s # <<"drained", o>>
        BY <1>2, Later
      <2> QED
        BY <2>1, <2>2 DEF ObserverStep, registries, observers, TypeOK
    <1> QED
      BY <1>1, <1>3 DEF Performed, Replaces, FacadeStep, Step

\* The teardown takes such a step.
LEMMA TearDownIsStep ==
    ASSUME TypeOK, TearDown
    PROVE  \E s : Step("gui", s, << >>)
    <1>1. "gui" \in Callers
      BY DEF Callers
    <1>2. ASSUME NEW s, s \notin RunSteps, Do("gui", s, << >>),
                 UNCHANGED <<facade, calling, delivery>>,
                 ObserverStep(s)
          PROVE  Step("gui", s, << >>)
      <2>1. Range(<< >>) = {} /\ << >> \in Seq(PoolSteps) /\ << >> \in Seq(Notifying)
        BY RangeOfLiteral
      <2>2. \A n \in {"stop", "join", "joining", "unlock", "drain", "receive", "grab"} : s # <<n>>
        BY <1>2 DEF RunSteps, PoolSteps, StopSteps
      <2>3. s \notin {"call"} \X Events
        BY <1>2 DEF RunSteps, PoolSteps, StopSteps
      <2>4. Follows("gui", s, << >>)
        BY <1>2, <2>1, <2>2 DEF Follows
      <2>5. FlagStep("gui", s)
        BY <1>2, <2>2, Flags DEF FlagStep, facade, delivery
      <2>6. NotifyStep("gui", s, << >>)
        BY <1>1, <1>2, <2>1, <2>3, PlainNotify
      <2> QED
        BY <1>2, <2>4, <2>5, <2>6 DEF Step
    <1>3. CASE Deactivate
      <2>1. ObserverStep(<<"deactivate">>)
        BY <1>3 DEF Deactivate, ObserverStep, registries, delivery, TypeOK
      <2> QED
        BY <1>2, <1>3, <2>1, Later DEF Deactivate
    <1>4. CASE WaitForPool
      <2>1. ObserverStep(<<"wait for pool">>)
        BY <1>4 DEF WaitForPool, OnlyAgenda, ObserverStep, registries, delivery, observers, TypeOK
      <2> QED
        BY <1>2, <1>4, <2>1, Later DEF WaitForPool, OnlyAgenda
    <1>5. ASSUME NEW o, Deregister(o)
          PROVE  Step("gui", <<"deregister", o>>, << >>)
      <2>1. ObserverStep(<<"deregister", o>>)
        BY <1>5 DEF Deregister, ObserverStep, delivery, observers, TypeOK
      <2> QED
        BY <1>2, <1>5, <2>1, Later DEF Deregister
    <1>6. ASSUME NEW x \in Streams, ShutGate(x)
          PROVE  Step("gui", <<"shut", x>>, << >>)
      <2>1. ObserverStep(<<"shut", x>>)
        BY <1>6 DEF ShutGate, ObserverStep, registries, delivery, TypeOK
      <2> QED
        BY <1>2, <1>6, <2>1, Later DEF ShutGate
    <1>7. ASSUME NEW x, Drained(x)
          PROVE  Step("gui", <<"drained", x>>, << >>)
      <2>1. ObserverStep(<<"drained", x>>)
        BY <1>7 DEF Drained, OnlyAgenda, ObserverStep, registries, delivery, observers, TypeOK
      <2> QED
        BY <1>2, <1>7, <2>1, Later DEF Drained, OnlyAgenda
    <1>8. ASSUME NEW o \in {"title", "controller", "facade"} \cup Streams, Gone(o)
          PROVE  Step("gui", <<"gone", o>>, << >>)
      <2>1. o # "widget"
        BY SessionAssumption DEF Streams
      <2>2. ObserverStep(<<"gone", o>>)
        BY <1>8, <2>1 DEF Gone, ObserverStep, registries, delivery, TypeOK
      <2> QED
        BY <1>2, <1>8, <2>2, Later DEF Gone
    <1> QED
      BY <1>3, <1>4, <1>5, <1>6, <1>7, <1>8 DEF TearDown

-----------------------------------------------------------------------------
(* Such a step keeps the invariant, one part after the other.              *)

\* What a step leaves to do.
LEMMA StepIs ==
    ASSUME TypeOK, NEW t \in Callers, NEW s, NEW more, Step(t, s, more)
    PROVE  /\ more \in Seq(Steps) /\ Range(more) \subseteq RunSteps
           /\ agenda[t] \in Seq(Steps) /\ agenda[t] # << >> /\ Head(agenda[t]) = s
           /\ agenda' \in [Callers -> Seq(Steps)]
           /\ agenda'[t] = more \o Tail(agenda[t])
           /\ \A u \in Callers \ {t} : agenda'[u] = agenda[u]
           /\ Range(agenda'[t]) = Range(more) \cup Range(Tail(agenda[t]))
           /\ Range(agenda[t]) = {s} \cup Range(Tail(agenda[t]))
    <1>1. more \in Seq(Steps) /\ Range(more) \subseteq RunSteps
      <2>1. RunSteps \subseteq Steps /\ PoolSteps \subseteq RunSteps /\ <<"receive">> \in RunSteps
        BY DEF RunSteps, Steps
      <2>2. CASE more \in Seq(PoolSteps)
        BY <2>1, <2>2, SeqMonotonic, RangeOfSeq
      <2>3. CASE more = << <<"receive">> >>
        <3>1. more \in Seq(RunSteps) /\ Range(more) = {<<"receive">>}
          BY <2>1, <2>3, OneStep, RangeOfLiteral
        <3> QED
          BY <2>1, <3>1, SeqMonotonic
      <2> QED
        BY <2>2, <2>3 DEF Step, Follows
    <1>2. agenda[t] \in Seq(Steps) /\ agenda[t] # << >> /\ Head(agenda[t]) = s
      BY DEF TypeOK, Step, Do
    <1>3. /\ agenda' = [agenda EXCEPT ![t] = more \o Tail(agenda[t])]
          /\ agenda \in [Callers -> Seq(Steps)]
      BY DEF TypeOK, Step, Do
    <1>4. more \o Tail(agenda[t]) \in Seq(Steps)
      BY <1>1, <1>2, PopIs
    <1>5. /\ Range(more \o Tail(agenda[t])) = Range(more) \cup Range(Tail(agenda[t]))
          /\ Range(agenda[t]) = {s} \cup Range(Tail(agenda[t]))
      BY <1>1, <1>2, RangePop
    <1> QED
      BY <1>1, <1>2, <1>3, <1>4, <1>5

\* Whose step it is.
LEMMA StepOf ==
    ASSUME TypeOK, NEW t \in Callers, NEW s, NEW more, Step(t, s, more)
    PROVE  /\ t = "pool" => s \in PoolSteps /\ Tail(agenda[t]) \in Seq(PoolSteps)
           /\ t = "worker" => s \in StopSteps /\ Tail(agenda[t]) \in Seq(StopSteps)
           /\ s \notin PoolSteps => t = "gui"
    <1>1. agenda[t] # << >> /\ s = Head(agenda[t])
      BY StepIs
    <1>2. t = "pool" => s \in PoolSteps /\ Tail(agenda[t]) \in Seq(PoolSteps)
      BY <1>1, HeadTailProperties, EmptySeq DEF TypeOK
    <1>3. t = "worker" => s \in StopSteps /\ Tail(agenda[t]) \in Seq(StopSteps)
      BY <1>1, HeadTailProperties, EmptySeq DEF TypeOK
    <1> QED
      BY <1>2, <1>3, NotifyingIs DEF Callers

\* The order of two steps of the teardown is kept until the first is taken.
LEMMA OrderKept ==
    ASSUME TypeOK, NEW t \in Callers, NEW s, NEW more, Step(t, s, more),
           NEW a, NEW b, b \notin RunSteps, Before(Gui, a, b), t # "gui" \/ s # a
    PROVE  Before(Gui, a, b)'
    <1>1. CASE t = "gui"
      <2>1. /\ agenda["gui"] \in Seq(Steps) /\ agenda["gui"] # << >> /\ Head(agenda["gui"]) = s
            /\ more \in Seq(Steps) /\ b \notin Range(more)
            /\ agenda'["gui"] = more \o Tail(agenda["gui"])
        BY <1>1, StepIs
      <2>2. Before(more \o Tail(agenda["gui"]), a, b)
        BY <1>1, <2>1, BeforePop DEF Gui
      <2> QED
        BY <2>1, <2>2 DEF Gui, Before
    <1>2. CASE t # "gui"
      <2>1. agenda'["gui"] = agenda["gui"]
        BY <1>2, StepIs DEF Callers
      <2> QED
        BY <2>1 DEF Gui, Before
    <1> QED
      BY <1>1, <1>2

\* What the GUI thread has yet to do when its next step is s.
LEMMA GuiHead ==
    ASSUME TypeOK, NEW t \in Callers, NEW s, NEW more, Step(t, s, more), s \notin RunSteps
    PROVE  /\ t = "gui" /\ more = << >>
           /\ Gui \in Seq(Steps) /\ Gui # << >> /\ Head(Gui) = s /\ s \in Range(Gui)
           /\ \A a : ~Before(Gui, a, s)
    <1>1. t = "gui" /\ more = << >>
      BY StepOf, NotifyingIs DEF Step, Follows
    <1>2. Gui \in Seq(Steps) /\ Gui # << >> /\ Head(Gui) = s /\ s \in Range(Gui)
      <2>1. /\ agenda["gui"] \in Seq(Steps) /\ agenda["gui"] # << >> /\ Head(agenda["gui"]) = s
            /\ Range(agenda["gui"]) = {s} \cup Range(Tail(agenda["gui"]))
        BY <1>1, StepIs
      <2> QED
        BY <2>1 DEF Gui
    <1>3. \A a : ~Before(Gui, a, s)
      BY <1>2, BeforeFacts
    <1> QED
      BY <1>1, <1>2, <1>3

\* A step keeps the types.
LEMMA TypeKept ==
    ASSUME TypeOK, NEW t \in Callers, NEW s, NEW more, Step(t, s, more)
    PROVE  TypeOK'
    <1>1. /\ isOpened' \in BOOLEAN /\ isGrabbing' \in BOOLEAN /\ stopRequested' \in BOOLEAN
          /\ stopWorker' \in BOOLEAN /\ connected' \in BOOLEAN /\ titleActive' \in BOOLEAN
      BY DEF Step, FlagStep, ObserverStep
    <1>2. stopMutex' \in Callers \cup {"none"}
      BY DEF Step, FlagStep, TypeOK
    <1>3. /\ statusObservers' \subseteq {"title", "controller", "widget"}
          /\ grabCallbacks' \subseteq Streams /\ pending' \subseteq Streams
          /\ shut' \subseteq Streams /\ leased' \subseteq Streams
          /\ serving' \in Streams \cup {"none"} /\ alive' \subseteq Objects
      BY DEF Step, ObserverStep, TypeOK
    <1>4. calling' \in [Callers -> SUBSET {"title", "controller", "widget"}]
      BY DEF Step, NotifyStep
    <1>5. data' \in {"none", "loop", "call", "use", "spawn", "done"}
      BY DEF Step, FlagStep, TypeOK
    <1>6. agenda' \in [Callers -> Seq(Steps)]
      BY StepIs
    <1>7. agenda'["pool"] \in Seq(PoolSteps)
      <2>1. CASE t = "pool"
        <3>1. agenda'["pool"] = more \o Tail(agenda["pool"])
          BY <2>1, StepIs
        <3>2. Tail(agenda["pool"]) \in Seq(PoolSteps) /\ more \in Seq(PoolSteps)
          BY <2>1, StepOf, Later DEF Step, Follows
        <3> QED
          BY <3>1, <3>2, ConcatIs
      <2>2. CASE t # "pool"
        BY <2>2, StepIs DEF TypeOK, Callers
      <2> QED
        BY <2>1, <2>2
    <1>8. agenda'["worker"] \in Seq(StopSteps)
      <2>1. CASE t = "worker"
        <3>1. agenda'["worker"] = more \o Tail(agenda["worker"])
          BY <2>1, StepIs
        <3>2. Tail(agenda["worker"]) \in Seq(StopSteps) /\ s \in StopSteps
          BY <2>1, StepOf
        <3>3. << >> \in Seq(StopSteps) /\ Stopping \in Seq(StopSteps)
          BY StoppingIs
        <3>4. more \in Seq(StopSteps)
          BY <3>2, <3>3, NotifyingIs, SeqMonotonic DEF Step, Follows
        <3> QED
          BY <3>1, <3>2, <3>4, ConcatIs
      <2>2. CASE t # "worker"
        BY <2>2, StepIs DEF TypeOK, Callers
      <2> QED
        BY <2>1, <2>2
    <1> QED
      BY <1>1, <1>2, <1>3, <1>4, <1>5, <1>6, <1>7, <1>8 DEF TypeOK

\* A step keeps NotifyInv: what it brings is a part of a notification, or no part is left.
LEMMA NotifyKept ==
    ASSUME TypeOK, NotifyInv, NEW t \in Callers, NEW s, NEW more, Step(t, s, more)
    PROVE  NotifyInv'
    <1>1. ASSUME NEW u \in Callers, u # t
          PROVE  /\ Leading(agenda'[u], Notifying)
                 /\ calling'[u] # {} => \E e \in Events : <<"call", e>> \in Range(agenda'[u])
      <2>1. agenda'[u] = agenda[u] /\ calling'[u] = calling[u]
        BY <1>1, StepIs DEF Step, NotifyStep
      <2> QED
        BY <2>1 DEF NotifyInv
    <1>2. Leading(agenda'[t], Notifying)
      <2>1. /\ agenda[t] \in Seq(Steps) /\ agenda[t] # << >> /\ Head(agenda[t]) = s
            /\ more \in Seq(Steps) /\ agenda'[t] = more \o Tail(agenda[t])
        BY StepIs
      <2>2. Leading(agenda[t], Notifying)
        BY DEF NotifyInv
      <2>3. \/ Range(more) \subseteq Notifying
            \/ s \notin Notifying /\ Range(more) \cap Notifying = {}
        BY DEF Step, Follows
      <2> QED
        BY <2>1, <2>2, <2>3, LeadingPop
    <1>3. calling'[t] # {} => \E e \in Events : <<"call", e>> \in Range(agenda'[t])
      <2>1. ASSUME calling'[t] # {}
            PROVE  \E e \in Events : <<"call", e>> \in Range(agenda'[t])
        <3>1. /\ Range(agenda'[t]) = Range(more) \cup Range(Tail(agenda[t]))
              /\ Range(agenda[t]) = {s} \cup Range(Tail(agenda[t]))
          BY StepIs
        <3>2. CASE \E e \in Events : <<"call", e>> \in Range(more)
          BY <3>1, <3>2
        <3>3. CASE calling'[t] = calling[t] /\ s \notin {"call"} \X Events
          <4>1. PICK e \in Events : <<"call", e>> \in Range(agenda[t])
            BY <2>1, <3>3 DEF NotifyInv
          <4>2. <<"call", e>> # s
            BY <3>3
          <4> QED
            BY <3>1, <4>1, <4>2
        <3> QED
          BY <2>1, <3>2, <3>3 DEF Step, NotifyStep
      <2> QED
        BY <2>1
    <1> QED
      BY <1>1, <1>2, <1>3 DEF NotifyInv

\* Nothing is there once when it is pushed once and was not there.
LEMMA OncePush ==
    ASSUME NEW S, NEW q \in Seq(S), q # << >>, NEW p \in Seq(S), NEW x, Once(p, x),
           x \notin Range(q)
    PROVE  Once(p \o Tail(q), x)
    <1> DEFINE r == p \o Tail(q)
               n == Len(p)
    <1>1. /\ Len(q) \in Nat \ {0} /\ n \in Nat /\ Len(r) = n + Len(q) - 1
          /\ \A i \in 1 .. Len(r) :
                (i <= n /\ r[i] = p[i]) \/ \E k \in 2 .. Len(q) : i = n + k - 1 /\ r[i] = q[k]
      BY PopIs
    <1>2. \A k \in 1 .. Len(q) : q[k] # x
      BY RangeIs
    <1> HIDE DEF r, n
    <1>3. ASSUME NEW i \in 1 .. Len(r), r[i] = x
          PROVE  i \in 1 .. n /\ p[i] = x
      <2>1. \A k \in 2 .. Len(q) : k \in 1 .. Len(q)
        BY <1>1
      <2>2. i <= n /\ r[i] = p[i]
        BY <1>1, <1>2, <1>3, <2>1
      <2>3. i \in 1 .. n
        BY <1>1, <1>3, <2>2
      <2> QED
        BY <1>3, <2>2, <2>3
    <1> QED
      BY <1>3 DEF Once, r, n

\* A step keeps MutexInv: stop() takes the mutex and brings the one step that releases it.
LEMMA MutexKept ==
    ASSUME TypeOK, MutexInv, NEW t \in Callers, NEW s, NEW more, Step(t, s, more)
    PROVE  MutexInv'
    <1>1. /\ agenda[t] \in Seq(Steps) /\ agenda[t] # << >> /\ Head(agenda[t]) = s
          /\ more \in Seq(Steps) /\ agenda'[t] = more \o Tail(agenda[t])
          /\ Range(agenda'[t]) = Range(more) \cup Range(Tail(agenda[t]))
          /\ Range(agenda[t]) = {s} \cup Range(Tail(agenda[t]))
          /\ \A u \in Callers \ {t} : agenda'[u] = agenda[u]
      BY StepIs
    <1>2. "none" \notin Callers
      BY DEF Callers
    <1>3. CASE s = <<"stop">>
      <2>1. stopMutex = "none" /\ stopMutex' = IF isGrabbing THEN t ELSE "none"
        BY <1>3 DEF Step, FlagStep
      <2>2. \A u \in Callers : <<"unlock">> \notin Range(agenda[u])
        BY <1>2, <2>1 DEF MutexInv
      <2>3. more = IF isGrabbing THEN Stopping ELSE << >>
        BY <1>3 DEF Step, Follows
      <2>4. Once(more, <<"unlock">>)
        <3>1. Once(<< >>, <<"unlock">>)
          BY DEF Once
        <3> QED
          BY <2>3, <3>1, StoppingIs
      <2>5. Once(agenda'[t], <<"unlock">>)
        BY <1>1, <2>2, <2>4, OncePush
      <2>6. <<"unlock">> \in Range(more) <=> isGrabbing
        BY <2>3, StoppingIs, RangeOfLiteral
      <2>7. <<"unlock">> \in Range(agenda'[t]) <=> stopMutex' = t
        BY <1>1, <1>2, <2>1, <2>2, <2>6
      <2>8. ASSUME NEW u \in Callers \ {t}
            PROVE  /\ <<"unlock">> \in Range(agenda'[u]) <=> stopMutex' = u
                   /\ Once(agenda'[u], <<"unlock">>)
        <3>1. agenda'[u] = agenda[u]
          BY <1>1
        <3>2. stopMutex' # u
          BY <1>2, <2>1
        <3> QED
          BY <2>2, <3>1, <3>2 DEF MutexInv
      <2> QED
        BY <2>5, <2>7, <2>8 DEF MutexInv
    <1>4. CASE s # <<"stop">>
      <2>1. <<"unlock">> \notin Range(more)
        BY <1>4 DEF Step, Follows
      <2>2. /\ Once(agenda'[t], <<"unlock">>)
            /\ s = <<"unlock">> => <<"unlock">> \notin Range(agenda'[t])
        BY <1>1, <2>1, OncePop DEF MutexInv
      <2>3. CASE s = <<"unlock">>
        <3>1. stopMutex = t /\ stopMutex' = "none"
          BY <1>1, <2>3 DEF MutexInv, Step, FlagStep
        <3>2. ASSUME NEW u \in Callers \ {t}
              PROVE  <<"unlock">> \notin Range(agenda'[u]) /\ Once(agenda'[u], <<"unlock">>)
          BY <1>1, <3>1 DEF MutexInv
        <3> QED
          BY <1>2, <2>2, <2>3, <3>1, <3>2 DEF MutexInv
      <2>4. CASE s # <<"unlock">>
        <3>1. stopMutex' = stopMutex
          BY <1>4, <2>4 DEF Step, FlagStep
        <3>2. <<"unlock">> \in Range(agenda'[t]) <=> <<"unlock">> \in Range(agenda[t])
          BY <1>1, <2>1, <2>4
        <3> QED
          BY <1>1, <2>2, <3>1, <3>2 DEF MutexInv
      <2> QED
        BY <2>3, <2>4
    <1> QED
      BY <1>3, <1>4

\* A step keeps WorkerInv.
LEMMA WorkerKept ==
    ASSUME TypeOK, WorkerInv, NEW t \in Callers, NEW s, NEW more, Step(t, s, more)
    PROVE  WorkerInv'
    <1>1. CASE t # "worker"
      <2>1. agenda'["worker"] = agenda["worker"]
        BY <1>1, StepIs DEF Callers
      <2> QED
        BY <2>1 DEF WorkerInv
    <1>2. CASE t = "worker"
      <2> DEFINE q == agenda["worker"]
                 r == agenda'["worker"]
      <2>1. /\ q \in Seq(Steps) /\ q # << >> /\ Head(q) = s /\ more \in Seq(Steps)
            /\ r = more \o Tail(q)
            /\ Range(r) = Range(more) \cup Range(Tail(q)) /\ Range(q) = {s} \cup Range(Tail(q))
        BY <1>2, StepIs
      <2>2. s \in StopSteps
        BY <1>2, StepOf
      <2>3. CASE q = << <<"stop">> >>
        <3>1. s = <<"stop">> /\ Tail(q) = << >>
          BY <2>1, <2>3
        <3>2. r = more
          BY <2>1, <3>1, ConcatEmptySeq
        <3>3. more = Stopping \/ more = << >>
          BY <3>1 DEF Step, Follows
        <3>4. /\ <<"stop">> \notin Range(Stopping) /\ Stopping # << >>
              /\ Stopping[Len(Stopping)] = <<"unlock">>
          BY StoppingIs
        <3> QED
          BY <3>2, <3>3, <3>4 DEF WorkerInv
      <2>4. CASE q[Len(q)] = <<"unlock">> /\ <<"stop">> \notin Range(q)
        <3>1. s # <<"stop">>
          BY <2>1, <2>4
        <3>2. more \in Seq(Notifying)
          BY <2>2, <3>1 DEF Step, Follows
        <3>3. <<"stop">> \notin Range(r)
          <4>1. <<"stop">> \notin Range(more)
            BY <3>2, RangeOfSeq, Apart
          <4> QED
            BY <2>1, <2>4, <4>1
        <3>4. /\ Len(q) \in Nat \ {0} /\ Len(more) \in Nat /\ Head(q) = q[1]
              /\ Len(r) = Len(more) + Len(q) - 1
              /\ \A k \in 2 .. Len(q) : r[Len(more) + k - 1] = q[k]
          BY <2>1, PopIs
        <3>5. CASE Len(q) = 1
          <4>1. s = <<"unlock">>
            BY <2>1, <2>4, <3>4, <3>5
          <4>2. more = << >>
            BY <4>1 DEF Step, Follows
          <4>3. Len(more) = 0
            BY <4>2
          <4>4. Len(r) = 0
            BY <3>4, <3>5, <4>3
          <4>5. r = << >>
            BY <1>2, <4>4, StepIs, EmptySeq
          <4> QED
            BY <4>5 DEF WorkerInv
        <3>6. CASE Len(q) # 1
          <4> HIDE DEF q, r
          <4>1. Len(q) \in 2 .. Len(q) /\ Len(r) # 0
            BY <3>4, <3>6
          <4>3. r[Len(more) + Len(q) - 1] = q[Len(q)]
            BY <3>4, <4>1
          <4>2. r[Len(r)] = <<"unlock">> /\ r # << >>
            BY <2>4, <3>4, <4>1, <4>3, EmptySeq
          <4> QED
            BY <3>3, <4>2 DEF WorkerInv, r
        <3> QED
          BY <3>5, <3>6
      <2> QED
        BY <2>1, <2>3, <2>4 DEF WorkerInv
    <1> QED
      BY <1>1, <1>2

\* A step keeps JoinInv: who takes the handle waits for the worker.
LEMMA JoinKept ==
    ASSUME TypeOK, JoinInv, NEW t \in Callers, NEW s, NEW more, Step(t, s, more)
    PROVE  JoinInv'
    <1> SUFFICES ASSUME agenda'["worker"] # << >>
                 PROVE  \/ stopWorker'
                        \/ \E u \in {"gui", "pool"} : <<"joining">> \in Range(agenda'[u])
      BY DEF JoinInv
    <1>1. /\ agenda[t] # << >>
          /\ Range(agenda'[t]) = Range(more) \cup Range(Tail(agenda[t]))
          /\ Range(agenda[t]) = {s} \cup Range(Tail(agenda[t]))
          /\ \A u \in Callers \ {t} : agenda'[u] = agenda[u]
      BY StepIs
    <1>2. agenda["worker"] # << >>
      BY <1>1 DEF Callers
    <1>3. s # <<"joining">>
      BY <1>2 DEF Step, Follows
    <1>4. CASE s = <<"join">> /\ stopWorker
      <2>1. t \in {"gui", "pool"}
        BY <1>4, StepOf, Apart DEF Callers
      <2>2. <<"joining">> \in Range(more)
        BY <1>4, RangeOfLiteral DEF Step, Follows
      <2> QED
        BY <1>1, <2>1, <2>2
    <1>5. CASE stopWorker' = stopWorker
      <2>1. CASE stopWorker
        BY <1>5, <2>1
      <2>2. CASE ~stopWorker
        <3>1. PICK u \in {"gui", "pool"} : <<"joining">> \in Range(agenda[u])
          BY <1>2, <2>2 DEF JoinInv
        <3>2. u \in Callers
          BY DEF Callers
        <3>3. <<"joining">> \in Range(agenda'[u])
          BY <1>1, <1>3, <3>1, <3>2
        <3> QED
          BY <3>3
      <2> QED
        BY <2>1, <2>2
    <1> QED
      BY <1>4, <1>5 DEF Step, FlagStep, TypeOK

\* A step keeps GrabInv: none brings a grab().
LEMMA GrabKept ==
    ASSUME TypeOK, GrabInv, NEW t \in Callers, NEW s, NEW more, Step(t, s, more)
    PROVE  GrabInv'
    <1> SUFFICES ASSUME NEW o \in {"controller", "facade"},
                        <<"gone", o>> \in Range(agenda'["gui"])
                 PROVE  Range(agenda'["gui"]) \cap {<<"grab">>, <<"receive">>} = {}
      BY DEF GrabInv, Gui
    <1>1. CASE t = "gui"
      <2>1. /\ Range(more) \subseteq RunSteps
            /\ Range(agenda'["gui"]) = Range(more) \cup Range(Tail(agenda["gui"]))
            /\ Range(agenda["gui"]) = {s} \cup Range(Tail(agenda["gui"]))
        BY <1>1, StepIs
      <2>2. <<"gone", o>> \in Range(agenda["gui"])
        BY <2>1, Later
      <2>3. Range(agenda["gui"]) \cap {<<"grab">>, <<"receive">>} = {}
        BY <2>2 DEF GrabInv, Gui
      <2>4. s # <<"grab">>
        BY <2>1, <2>3
      <2>5. Range(more) \subseteq PoolSteps
        BY <2>4, RangeOfSeq DEF Step, Follows
      <2>6. Range(more) \cap {<<"grab">>, <<"receive">>} = {}
        BY <2>5, Later
      <2> QED
        BY <2>1, <2>3, <2>6
    <1>2. CASE t # "gui"
      <2>1. agenda'["gui"] = agenda["gui"]
        BY <1>2, StepIs DEF Callers
      <2> QED
        BY <2>1 DEF GrabInv, Gui
    <1> QED
      BY <1>1, <1>2

\* A step keeps RegisteredInv: who takes "deregister" deregisters, and nobody registers.
LEMMA RegisteredKept ==
    ASSUME TypeOK, RegisteredInv, NEW t \in Callers, NEW s, NEW more, Step(t, s, more)
    PROVE  RegisteredInv'
    <1>1. ASSUME NEW o \in {"title", "controller"} \cup Streams
          PROVE  \/ Before(Gui, <<"deregister", o>>, <<"gone", o>>)'
                 \/ o \notin statusObservers' \cup grabCallbacks'
      <2>1. statusObservers' \subseteq statusObservers /\ grabCallbacks' \subseteq grabCallbacks
        BY DEF Step, ObserverStep
      <2>2. CASE s = <<"deregister", o>>
        BY <2>2 DEF Step, ObserverStep
      <2>3. CASE s # <<"deregister", o>>
        <3>1. CASE Before(Gui, <<"deregister", o>>, <<"gone", o>>)
          BY <2>3, <3>1, OrderKept, Later
        <3>2. CASE o \notin statusObservers \cup grabCallbacks
          BY <2>1, <3>2
        <3> QED
          BY <3>1, <3>2 DEF RegisteredInv
      <2> QED
        BY <2>2, <2>3
    <1> QED
      BY <1>1 DEF RegisteredInv, Streams

\* A step keeps GateInv.
LEMMA GateKept ==
    ASSUME TypeOK, GateInv, NEW t \in Callers, NEW s, NEW more, Step(t, s, more)
    PROVE  GateInv'
    <1>1. ASSUME NEW x \in Streams
          PROVE  /\ Before(Gui, <<"shut", x>>, <<"drained", x>>)' \/ x \in shut'
                 /\ \/ Before(Gui, <<"drained", x>>, <<"gone", x>>)'
                    \/ x \in shut' /\ x \notin leased'
      <2>1. shut \subseteq shut' /\ leased' = leased
        BY DEF Step, ObserverStep
      <2>2. Before(Gui, <<"shut", x>>, <<"drained", x>>)' \/ x \in shut'
        <3>1. CASE s = <<"shut", x>>
          BY <3>1 DEF Step, ObserverStep
        <3>2. CASE s # <<"shut", x>> /\ Before(Gui, <<"shut", x>>, <<"drained", x>>)
          BY <3>2, OrderKept, Later
        <3> QED
          BY <2>1, <3>1, <3>2 DEF GateInv
      <2>3. \/ Before(Gui, <<"drained", x>>, <<"gone", x>>)'
            \/ x \in shut' /\ x \notin leased'
        <3>1. CASE s = <<"drained", x>>
          <4>1. ~Before(Gui, <<"shut", x>>, <<"drained", x>>)
            BY <3>1, GuiHead, Later
          <4>2. x \in shut /\ x \notin leased
            BY <3>1, <4>1 DEF GateInv, Step, ObserverStep
          <4> QED
            BY <2>1, <4>2
        <3>2. CASE s # <<"drained", x>> /\ Before(Gui, <<"drained", x>>, <<"gone", x>>)
          BY <3>2, OrderKept, Later
        <3> QED
          BY <2>1, <3>1, <3>2 DEF GateInv
      <2> QED
        BY <2>2, <2>3
    <1> QED
      BY <1>1 DEF GateInv, Streams

\* A step keeps ControllerInv: nothing grabs while the controller is to be destroyed.
LEMMA ControllerKept ==
    ASSUME TypeOK, GateInv, GrabInv, ControllerInv,
           NEW t \in Callers, NEW s, NEW more, Step(t, s, more)
    PROVE  ControllerInv'
    <1>1. \/ Before(Gui, <<"drained", "own">>, <<"gone", "controller">>)'
          \/ "own" \in shut' /\ "own" \notin leased'
      <2>1. shut \subseteq shut' /\ leased' = leased
        BY DEF Step, ObserverStep
      <2>2. CASE s = <<"drained", "own">>
        <3>1. ~Before(Gui, <<"shut", "own">>, <<"drained", "own">>)
          BY <2>2, GuiHead, Later
        <3>2. "own" \in shut /\ "own" \notin leased
          BY <2>2, <3>1 DEF GateInv, Streams, Step, ObserverStep
        <3> QED
          BY <2>1, <3>2
      <2>3. CASE /\ s # <<"drained", "own">>
                 /\ Before(Gui, <<"drained", "own">>, <<"gone", "controller">>)
        BY <2>3, OrderKept, Later
      <2> QED
        BY <2>1, <2>2, <2>3 DEF ControllerInv
    <1>2. \/ Before(Gui, <<"stop">>, <<"gone", "controller">>)'
          \/ ~isGrabbing' /\ stopMutex' # "worker"
      <2>1. CASE s = <<"stop">> /\ t = "gui"
        BY <2>1 DEF Step, FlagStep
      <2>2. CASE /\ s # <<"stop">> \/ t # "gui"
                 /\ Before(Gui, <<"stop">>, <<"gone", "controller">>)
        BY <2>2, OrderKept, Later
      <2>3. CASE ~isGrabbing /\ stopMutex # "worker" /\ s # <<"grab">>
        BY <2>3 DEF Step, FlagStep
      <2>4. CASE s = <<"grab">>
        <3>1. t = "gui"
          BY <2>4, StepOf, Later
        <3>2. <<"grab">> \in Range(Gui)
          <4>1. Range(agenda["gui"]) = {s} \cup Range(Tail(agenda["gui"]))
            BY <3>1, StepIs
          <4> QED
            BY <2>4, <4>1 DEF Gui
        <3>3. <<"gone", "controller">> \notin Range(Gui)
          BY <3>2 DEF GrabInv
        <3>4. Gui \in Seq(Steps)
          BY <3>1, StepIs DEF Gui
        <3>5. Before(Gui, <<"stop">>, <<"gone", "controller">>)
          BY <3>3, <3>4, BeforeFacts
        <3>6. s # <<"stop">>
          BY <2>4
        <3> QED
          BY <3>5, <3>6, OrderKept, Later
      <2> QED
        BY <2>1, <2>2, <2>3, <2>4 DEF ControllerInv
    <1> QED
      BY <1>1, <1>2 DEF ControllerInv

\* A step keeps PoolInv.
LEMMA PoolKept ==
    ASSUME TypeOK, PoolInv, NEW t \in Callers, NEW s, NEW more, Step(t, s, more)
    PROVE  PoolInv'
    <1>1. ASSUME agenda["pool"] = << >>
          PROVE  agenda'["pool"] = << >>
      BY <1>1, StepIs DEF Callers
    <1>2. ASSUME NEW o \in {"controller", "facade"}
          PROVE  Before(Gui, <<"wait for pool">>, <<"gone", o>>)' \/ agenda'["pool"] = << >>
      <2>1. CASE s = <<"wait for pool">>
        BY <1>1, <2>1 DEF Step, ObserverStep
      <2>2. CASE /\ s # <<"wait for pool">>
                 /\ Before(Gui, <<"wait for pool">>, <<"gone", o>>)
        BY <2>2, OrderKept, Later
      <2> QED
        BY <1>1, <2>1, <2>2 DEF PoolInv
    <1> QED
      BY <1>2 DEF PoolInv

\* A step keeps DataInv.
LEMMA DataKept ==
    ASSUME TypeOK, DataInv, GateInv, ControllerInv,
           NEW t \in Callers, NEW s, NEW more, Step(t, s, more)
    PROVE  DataInv'
    <1>1. /\ UNCHANGED <<pending, serving, leased>> /\ shut \subseteq shut'
          /\ \A o \in alive \ alive' : s = <<"gone", o>>
      BY DEF Step, ObserverStep
    <1>2. data' \in {"none", "done"} => pending' = {}
      BY <1>1 DEF DataInv, Step, FlagStep
    <1>3. data' = "use" => serving' \in leased'
      BY <1>1 DEF DataInv, Step, FlagStep
    <1>4. ASSUME NEW o \in pending'
          PROVE  o \in alive' \cup shut'
      <2>1. o \in Streams /\ o \in alive \cup shut
        BY <1>1, <1>4 DEF DataInv, TypeOK
      <2>2. CASE s = <<"gone", o>>
        <3>1. ~Before(Gui, <<"drained", o>>, <<"gone", o>>)
          BY <2>2, GuiHead, Later
        <3> QED
          BY <1>1, <2>1, <3>1 DEF GateInv
      <2> QED
        BY <1>1, <2>1, <2>2
    <1>5. "controller" \in alive' \/ "own" \in shut'
      <2>1. CASE s = <<"gone", "controller">>
        <3>1. ~Before(Gui, <<"drained", "own">>, <<"gone", "controller">>)
          BY <2>1, GuiHead, Later
        <3> QED
          BY <1>1, <3>1 DEF ControllerInv
      <2> QED
        BY <1>1, <2>1 DEF DataInv
    <1> QED
      BY <1>2, <1>3, <1>4, <1>5 DEF DataInv

\* A step keeps FramesReachTheLiving: what is destroyed has drained.
LEMMA FramesKept ==
    ASSUME TypeOK, DataInv, GateInv, ControllerInv, FramesReachTheLiving,
           NEW t \in Callers, NEW s, NEW more, Step(t, s, more)
    PROVE  FramesReachTheLiving'
    <1> SUFFICES ASSUME data' = "use"
                 PROVE  serving' \in alive' /\ (serving' = "own" => "controller" \in alive')
      BY DEF FramesReachTheLiving
    <1>1. /\ serving' = serving
          /\ \A o \in alive \ alive' : s = <<"gone", o>>
      BY DEF Step, ObserverStep
    <1>2. data = "use" /\ serving \in leased /\ serving \in Streams
      <2>1. data = "use"
        BY DEF Step, FlagStep
      <2> QED
        BY <2>1 DEF DataInv, TypeOK
    <1>3. s # <<"gone", serving>>
      <2>1. ASSUME s = <<"gone", serving>>
            PROVE  FALSE
        <3>1. ~Before(Gui, <<"drained", serving>>, <<"gone", serving>>)
          BY <2>1, GuiHead, Later
        <3> QED
          BY <1>2, <3>1 DEF GateInv
      <2> QED
        BY <2>1
    <1>4. ASSUME serving = "own"
          PROVE  s # <<"gone", "controller">>
      <2>1. ASSUME s = <<"gone", "controller">>
            PROVE  FALSE
        <3>1. ~Before(Gui, <<"drained", "own">>, <<"gone", "controller">>)
          BY <2>1, GuiHead, Later
        <3> QED
          BY <1>2, <1>4, <3>1 DEF ControllerInv
      <2> QED
        BY <2>1
    <1> QED
      BY <1>1, <1>2, <1>3, <1>4 DEF FramesReachTheLiving

\* The facade is destroyed by the last step, when its worker was joined.
LEMMA GoneLast ==
    ASSUME TypeOK, FacadeInv, NEW t \in Callers, NEW more, Step(t, <<"gone", "facade">>, more)
    PROVE  Gui = << <<"gone", "facade">> >> /\ ~stopWorker /\ Others \cap alive = {}
    <1>1. /\ Gui \in Seq(Steps) /\ Gui # << >> /\ Head(Gui) = <<"gone", "facade">>
          /\ <<"gone", "facade">> \in Range(Gui)
      BY GuiHead, Later
    <1>2. LastJoin /\ Others \cap alive = {}
      BY <1>1 DEF FacadeInv
    <1>3. Len(Gui) \in Nat \ {0} /\ Head(Gui) = Gui[1]
      BY <1>1, EmptySeq
    <1>4. ~ /\ Len(Gui) >= 2 /\ Gui[Len(Gui)] = <<"gone", "facade">>
            /\ Once(Gui, <<"gone", "facade">>)
      <2>1. ASSUME Len(Gui) >= 2, Gui[Len(Gui)] = <<"gone", "facade">>,
                   Once(Gui, <<"gone", "facade">>)
            PROVE  FALSE
        <3>1. 1 \in 1 .. Len(Gui) /\ Len(Gui) \in 1 .. Len(Gui) /\ Len(Gui) # 1
          BY <1>3, <2>1
        <3>2. Gui[1] = <<"gone", "facade">>
          BY <1>1, <1>3
        <3> QED
          BY <2>1, <3>1, <3>2 DEF Once
      <2> QED
        BY <2>1
    <1>5. Head(<< <<"joining">>, <<"gone", "facade">> >>) # <<"gone", "facade">>
      OBVIOUS
    <1> QED
      BY <1>1, <1>2, <1>4, <1>5 DEF LastJoin

\* Sequences of one and of two steps.
LEMMA SingleStep ==
    ASSUME NEW S, NEW q \in Seq(S), Len(q) = 1
    PROVE  q = << q[1] >>
    <1>1. q \in Seq(S) /\ << q[1] >> \in Seq(S)
      <2>1. q[1] \in S
        BY ElementOfSeq
      <2> QED
        BY <2>1
    <1>2. Len(q) = Len(<< q[1] >>) /\ \A i \in 1 .. Len(q) : q[i] = << q[1] >>[i]
      OBVIOUS
    <1> QED
      BY <1>1, <1>2, SeqEqual

\* Two sequences of one step make one of two.
LEMMA TwoSteps ==
    ASSUME NEW a, NEW b
    PROVE  <<a>> \o <<b>> = <<a, b>>
    <1> DEFINE S == {a, b}
    <1>1. <<a>> \in Seq(S) /\ <<b>> \in Seq(S) /\ <<a, b>> \in Seq(S)
      OBVIOUS
    <1>2. /\ <<a>> \o <<b>> \in Seq(S) /\ Len(<<a>> \o <<b>>) = 2
          /\ (<<a>> \o <<b>>)[1] = a /\ (<<a>> \o <<b>>)[2] = b
      BY <1>1, ConcatProperties
    <1>3. Len(<<a, b>>) = 2 /\ <<a, b>>[1] = a /\ <<a, b>>[2] = b
      OBVIOUS
    <1>4. \A i \in 1 .. 2 : (<<a>> \o <<b>>)[i] = <<a, b>>[i]
      BY <1>2, <1>3
    <1> QED
      BY <1>1, <1>2, <1>3, <1>4, SeqEqual

\* What is left before the facade is destroyed.
LEMMA LastJoinKept ==
    ASSUME TypeOK, FacadeInv, NEW t \in Callers, NEW s, NEW more, Step(t, s, more),
           <<"gone", "facade">> \in Range(agenda'["gui"])
    PROVE  LastJoin'
    <1> DEFINE gone == <<"gone", "facade">>
    <1>1. stopWorker' => stopWorker
      BY DEF Step, FlagStep
    <1>2. CASE t # "gui"
      <2>1. agenda'["gui"] = agenda["gui"]
        BY <1>2, StepIs DEF Callers
      <2>2. LastJoin
        BY <2>1 DEF FacadeInv, Gui
      <2> QED
        BY <1>1, <2>1, <2>2 DEF LastJoin, Gui, Once, TypeOK
    <1>3. CASE t = "gui"
      <2> DEFINE q == agenda["gui"]
                 r == agenda'["gui"]
      <2>1. /\ q \in Seq(Steps) /\ q # << >> /\ Head(q) = s /\ more \in Seq(Steps)
            /\ r \in Seq(Steps) /\ r = more \o Tail(q)
            /\ Range(more) \subseteq RunSteps
            /\ Range(r) = Range(more) \cup Range(Tail(q)) /\ Range(q) = {s} \cup Range(Tail(q))
        BY <1>3, StepIs
      <2>2. gone \in Range(q) /\ gone \notin Range(more)
        BY <2>1, Later
      <2>3. LastJoin
        BY <2>2 DEF FacadeInv, Gui
      <2>4. /\ Len(q) \in Nat \ {0} /\ Len(more) \in Nat /\ Head(q) = q[1]
            /\ Len(r) = Len(more) + Len(q) - 1
            /\ \A k \in 2 .. Len(q) : r[Len(more) + k - 1] = q[k]
        BY <2>1, PopIs
      <2>5. CASE Len(q) >= 2 /\ q[Len(q)] = gone /\ q[Len(q) - 1] = <<"join">> /\ Once(q, gone)
        <3>1. CASE Len(q) = 2
          <4>1. s = <<"join">> /\ Tail(q) = << gone >>
            <5>1. q[1] = <<"join">> /\ q[2] = gone
              BY <2>4, <2>5, <3>1
            <5>2. Tail(q) \in Seq(Steps) /\ Len(Tail(q)) = 1 /\ Tail(q)[1] = q[2]
              BY <2>1, <3>1, HeadTailProperties
            <5>3. Tail(q) = << Tail(q)[1] >>
              BY <5>2, SingleStep
            <5> QED
              BY <2>1, <2>4, <5>1, <5>2, <5>3
          <4>2. ~stopWorker'
            BY <4>1 DEF Step, FlagStep
          <4>3. more = << <<"joining">> >> \/ more = << >>
            BY <4>1 DEF Step, Follows
          <4>4. << <<"joining">> >> \o << gone >> = << <<"joining">>, gone >>
            BY TwoSteps
          <4>6. << >> \o << gone >> = << gone >>
            BY ConcatEmptySeq
          <4> HIDE DEF gone
          <4>5. r = << <<"joining">>, gone >> \/ r = << gone >>
            BY <2>1, <4>1, <4>3, <4>4, <4>6
          <4> QED
            BY <4>2, <4>5 DEF LastJoin, Gui, gone
        <3>2. CASE Len(q) # 2
          <4> HIDE DEF q, r, gone
          <4>5. Len(q) \in Nat
            BY <2>4
          <4>6. Len(q) >= 2
            BY <2>5
          <4>1. Len(q) \in 2 .. Len(q) /\ Len(q) - 1 \in 2 .. Len(q)
            BY <3>2, <4>5, <4>6
          <4>7. Len(r) >= 2
            BY <2>4, <4>1
          <4>2. /\ r[Len(more) + Len(q) - 1] = q[Len(q)]
                /\ r[Len(more) + (Len(q) - 1) - 1] = q[Len(q) - 1]
            BY <2>4, <4>1
          <4>3. r[Len(r)] = gone /\ r[Len(r) - 1] = <<"join">>
            <5>1. /\ Len(r) = Len(more) + Len(q) - 1
                  /\ Len(r) - 1 = Len(more) + (Len(q) - 1) - 1
              BY <2>4
            <5> QED
              BY <2>5, <4>2, <5>1
          <4>4. Once(r, gone)
            BY <2>1, <2>2, <2>5, OncePop
          <4> QED
            BY <4>3, <4>4, <4>7 DEF LastJoin, Gui, q, r, gone, Once
        <3> QED
          BY <3>1, <3>2
      <2>6. CASE ~stopWorker /\ q = << <<"joining">>, gone >>
        <3>1. s = <<"joining">> /\ Tail(q) = << gone >>
          BY <2>1, <2>6
        <3>2. more = << >>
          BY <3>1 DEF Step, Follows
        <3>3. r = << gone >>
          BY <2>1, <3>1, <3>2
        <3> QED
          BY <1>1, <2>6, <3>3 DEF LastJoin, Gui
      <2>7. CASE q = << gone >>
        <3>1. s = gone /\ Tail(q) = << >>
          BY <2>1, <2>7
        <3>2. gone \notin Range(r)
          BY <2>1, <2>2, <3>1, RangeOfLiteral
        <3> QED
          BY <3>2
      <2> QED
        BY <2>3, <2>5, <2>6, <2>7 DEF LastJoin, Gui
    <1> QED
      BY <1>2, <1>3

\* A step keeps FacadeInv.
LEMMA FacadeKept ==
    ASSUME TypeOK, GrabInv, FacadeInv, NEW t \in Callers, NEW s, NEW more, Step(t, s, more)
    PROVE  FacadeInv'
    <1>1. alive' \subseteq alive /\ \A o \in alive \ alive' : s = <<"gone", o>>
      BY DEF Step, ObserverStep
    <1>2. Before(Gui, <<"drain">>, <<"gone", "facade">>)' \/ data' = "none"
      <2>1. CASE s = <<"drain">>
        BY <2>1 DEF Step, FlagStep
      <2>2. CASE s # <<"drain">> /\ Before(Gui, <<"drain">>, <<"gone", "facade">>)
        BY <2>2, OrderKept, Later
      <2>3. CASE s # <<"drain">> /\ s # <<"receive">> /\ data = "none"
        BY <2>3 DEF Step, FlagStep
      <2>4. CASE s = <<"receive">>
        <3>1. t = "gui"
          BY <2>4, StepOf, Later
        <3>2. <<"receive">> \in Range(Gui)
          <4>1. Range(agenda["gui"]) = {s} \cup Range(Tail(agenda["gui"]))
            BY <3>1, StepIs
          <4> QED
            BY <2>4, <4>1 DEF Gui
        <3>3. <<"gone", "facade">> \notin Range(Gui) /\ Gui \in Seq(Steps)
          BY <3>1, <3>2, StepIs DEF GrabInv, Gui
        <3>4. Before(Gui, <<"drain">>, <<"gone", "facade">>)
          BY <3>3, BeforeFacts
        <3>5. s # <<"drain">>
          BY <2>4
        <3> QED
          BY <3>4, <3>5, OrderKept, Later
      <2> QED
        BY <2>1, <2>2, <2>3, <2>4 DEF FacadeInv
    <1>3. <<"gone", "facade">> \in Range(agenda'["gui"]) => Others \cap alive' = {} /\ LastJoin'
      <2>1. ASSUME <<"gone", "facade">> \in Range(agenda'["gui"])
            PROVE  Others \cap alive' = {} /\ LastJoin'
        <3>1. <<"gone", "facade">> \in Range(agenda["gui"])
          <4>1. CASE t = "gui"
            <5>1. /\ Range(more) \subseteq RunSteps
                  /\ Range(agenda'["gui"]) = Range(more) \cup Range(Tail(agenda["gui"]))
                  /\ Range(agenda["gui"]) = {s} \cup Range(Tail(agenda["gui"]))
              BY <4>1, StepIs
            <5> QED
              BY <2>1, <5>1, Later
          <4>2. CASE t # "gui"
            BY <2>1, <4>2, StepIs DEF Callers
          <4> QED
            BY <4>1, <4>2
        <3>2. Others \cap alive' = {}
          BY <1>1, <3>1 DEF FacadeInv, Gui
        <3>3. LastJoin'
          BY <2>1, LastJoinKept
        <3> QED
          BY <3>2, <3>3
      <2> QED
        BY <2>1
    <1>4. "facade" \notin alive' => agenda'["gui"] = << >> /\ Others \cap alive' = {}
      <2>1. CASE "facade" \notin alive
        <3>1. agenda["gui"] = << >> /\ Others \cap alive = {}
          BY <2>1 DEF FacadeInv, Gui
        <3>2. agenda'["gui"] = agenda["gui"]
          BY <3>1, StepIs DEF Callers
        <3> QED
          BY <1>1, <3>1, <3>2
      <2>2. CASE s = <<"gone", "facade">>
        <3>1. agenda["gui"] = << <<"gone", "facade">> >> /\ Others \cap alive = {}
          BY <2>2, GoneLast DEF Gui
        <3>2. agenda'["gui"] = more \o Tail(agenda["gui"]) /\ more = << >>
          <4>1. t = "gui" /\ more = << >>
            BY <2>2, GuiHead, Later
          <4> QED
            BY <4>1, StepIs
        <3>3. Tail(<< <<"gone", "facade">> >>) = << >> /\ << >> \o << >> = << >>
          OBVIOUS
        <3> QED
          BY <1>1, <3>1, <3>2, <3>3
      <2> QED
        BY <1>1, <2>1, <2>2
    <1> QED
      BY <1>2, <1>3, <1>4 DEF FacadeInv, Gui

\* The first step is one of the sequence.
LEMMA HeadIn ==
    ASSUME NEW S, NEW q \in Seq(S), q # << >>
    PROVE  Head(q) \in Range(q)
    <1>1. Range(q) = {Head(q)} \cup Range(Tail(q))
      <2>1. << >> \in Seq(S)
        OBVIOUS
      <2> QED
        BY <2>1, RangePop
    <1> QED
      BY <1>1

\* A worker that does not hold the mutex notifies nobody.
LEMMA WorkerQuiet ==
    ASSUME TypeOK, WorkerInv, MutexInv, stopMutex # "worker"
    PROVE  Range(agenda["worker"]) \cap Notifying = {}
    <1> DEFINE q == agenda["worker"]
    <1>1. q \in Seq(Steps) /\ "worker" \in Callers
      BY DEF TypeOK, Callers
    <1>2. <<"unlock">> \notin Range(q)
      BY <1>1 DEF MutexInv
    <1>3. q # << >> => q[Len(q)] \in Range(q)
      <2>1. ASSUME q # << >>
            PROVE  Len(q) \in 1 .. Len(q)
        BY <1>1, <2>1, EmptySeq
      <2> HIDE DEF q
      <2> QED
        BY <1>1, <2>1, RangeIs
    <1>4. q = << >> \/ q = << <<"stop">> >>
      BY <1>2, <1>3 DEF WorkerInv
    <1> QED
      BY <1>4, RangeOfLiteral, Apart

\* Nothing runs any more when the facade is destroyed.
LEMMA IdleLast ==
    ASSUME TypeOK, MutexInv, JoinInv, PoolInv, FacadeInv,
           NEW t \in Callers, NEW more, Step(t, <<"gone", "facade">>, more)
    PROVE  /\ agenda["pool"] = << >> /\ agenda["worker"] = << >>
           /\ stopMutex = "none" /\ data = "none"
    <1>1. Gui = << <<"gone", "facade">> >> /\ ~stopWorker
      BY GoneLast
    <1>2. \A a : ~Before(Gui, a, <<"gone", "facade">>)
      BY GuiHead, Later
    <1>3. agenda["pool"] = << >> /\ data = "none"
      BY <1>2 DEF PoolInv, FacadeInv
    <1>4. Range(agenda["pool"]) = {} /\ Range(agenda["gui"]) = {<<"gone", "facade">>}
      BY <1>1, <1>3, RangeOfLiteral DEF Gui
    <1>5. agenda["worker"] = << >>
      BY <1>1, <1>4 DEF JoinInv
    <1>6. \A u \in Callers : <<"unlock">> \notin Range(agenda[u])
      <2>1. Range(agenda["worker"]) = {}
        BY <1>5, RangeOfLiteral
      <2> QED
        BY <1>4, <2>1 DEF Callers
    <1>7. stopMutex = "none"
      BY <1>6 DEF MutexInv, TypeOK
    <1> QED
      BY <1>3, <1>5, <1>7

\* No notification is under way when the controller or the facade is destroyed.
LEMMA QuietGone ==
    ASSUME TypeOK, NotifyInv, MutexInv, WorkerInv, JoinInv, ControllerInv, PoolInv, FacadeInv,
           NEW o \in {"controller", "facade"},
           NEW t \in Callers, NEW more, Step(t, <<"gone", o>>, more), NEW u \in Callers
    PROVE  Range(agenda'[u]) \cap Notifying = {}
    <1>1. /\ t = "gui" /\ more = << >> /\ Gui \in Seq(Steps) /\ Gui # << >>
          /\ Head(Gui) = <<"gone", o>>
          /\ \A a : ~Before(Gui, a, <<"gone", o>>)
      BY GuiHead, Later
    <1>2. CASE u = "gui"
      <2>1. Leading(Gui, Notifying) /\ <<"gone", o>> \notin Notifying
        BY <1>2, Later, NotifyingIs DEF NotifyInv, Gui
      <2>2. Range(Gui) \cap Notifying = {}
        BY <1>1, <2>1, LeadingFirst
      <2>3. /\ Range(agenda'["gui"]) = Range(more) \cup Range(Tail(agenda["gui"]))
            /\ Range(agenda["gui"]) = {<<"gone", o>>} \cup Range(Tail(agenda["gui"]))
        BY <1>1, StepIs
      <2> QED
        BY <1>1, <1>2, <2>2, <2>3, RangeOfLiteral DEF Gui
    <1>3. CASE u = "pool"
      <2>1. agenda["pool"] = << >>
        BY <1>1 DEF PoolInv
      <2>2. agenda'["pool"] = << >>
        BY <1>1, <2>1, StepIs DEF Callers
      <2> QED
        BY <1>3, <2>2, RangeOfLiteral
    <1>4. CASE u = "worker"
      <2>1. Range(agenda["worker"]) \cap Notifying = {}
        <3>1. CASE o = "controller"
          <4>1. stopMutex # "worker"
            BY <1>1, <3>1 DEF ControllerInv
          <4> QED
            BY <4>1, WorkerQuiet
        <3>2. CASE o = "facade"
          <4>1. agenda["worker"] = << >>
            BY <3>2, IdleLast
          <4> QED
            BY <4>1, RangeOfLiteral
        <3> QED
          BY <3>1, <3>2
      <2>2. agenda'["worker"] = agenda["worker"]
        BY <1>1, StepIs DEF Callers
      <2> QED
        BY <1>4, <2>1, <2>2
    <1> QED
      BY <1>2, <1>3, <1>4 DEF Callers

\* A step keeps UseInv: what is destroyed nobody is about to use.
LEMMA UseKept ==
    ASSUME TypeOK, NotifyInv, MutexInv, WorkerInv, JoinInv, ControllerInv, PoolInv, FacadeInv,
           UseInv, CallsReachTheLiving, NEW t \in Callers, NEW s, NEW more, Step(t, s, more)
    PROVE  UseInv'
    <1>1. \A o \in alive \ alive' : s = <<"gone", o>> /\ o # "widget"
      BY DEF Step, ObserverStep
    <1>2. /\ Range(agenda'[t]) = Range(more) \cup Range(Tail(agenda[t]))
          /\ Range(agenda[t]) = {s} \cup Range(Tail(agenda[t]))
          /\ \A u \in Callers \ {t} : agenda'[u] = agenda[u]
      BY StepIs
    <1>3. ASSUME NEW u \in Callers, NEW o \in Used \ {"host"}, <<"use", o>> \in Range(agenda'[u])
          PROVE  o \in alive'
      <2>1. o \in alive
        <3>1. CASE u = t /\ <<"use", o>> \in Range(more)
          BY <3>1 DEF Step, NotifyStep, UseInv
        <3>2. CASE <<"use", o>> \in Range(agenda[u])
          BY <3>2 DEF UseInv
        <3> QED
          BY <1>2, <1>3, <3>1, <3>2
      <2>2. o \in {"controller", "facade"} => s # <<"gone", o>>
        <3>1. ASSUME o \in {"controller", "facade"}, s = <<"gone", o>>
              PROVE  FALSE
          <4>1. Range(agenda'[u]) \cap Notifying = {}
            BY <3>1, QuietGone
          <4>2. <<"use", o>> \in Notifying
            BY DEF Notifying
          <4> QED
            BY <1>3, <4>1, <4>2
        <3> QED
          BY <3>1
      <2> QED
        BY <1>1, <2>1, <2>2 DEF Used
    <1>4. ASSUME NEW u \in Callers, "controller" \in calling'[u]
          PROVE  "controller" \in alive'
      <2>1. "controller" \in alive
        <3>1. "controller" \in calling[u] \/ "controller" \in statusObservers
          BY <1>4 DEF Step, NotifyStep
        <3> QED
          BY <3>1 DEF UseInv, CallsReachTheLiving
      <2>2. s # <<"gone", "controller">>
        <3>1. ASSUME s = <<"gone", "controller">>
              PROVE  FALSE
          <4>1. Range(agenda'[u]) \cap Notifying = {}
            BY <3>1, QuietGone
          <4>2. NotifyInv'
            BY NotifyKept
          <4>3. PICK e \in Events : <<"call", e>> \in Range(agenda'[u])
            BY <1>4, <4>2 DEF NotifyInv
          <4>4. <<"call", e>> \in Notifying
            BY DEF Notifying
          <4> QED
            BY <4>1, <4>3, <4>4
        <3> QED
          BY <3>1
      <2> QED
        BY <1>1, <2>1, <2>2
    <1> QED
      BY <1>3, <1>4 DEF UseInv

\* A step keeps CallsReachTheLiving.
LEMMA CallsKept ==
    ASSUME TypeOK, RegisteredInv, CallsReachTheLiving, UseInv',
           NEW t \in Callers, NEW s, NEW more, Step(t, s, more)
    PROVE  CallsReachTheLiving'
    <1>1. ASSUME NEW u \in Callers, agenda'[u] # << >>, NEW o \in Used \ {"host"},
                 Head(agenda'[u]) = <<"use", o>>
          PROVE  o \in alive'
      <2>1. agenda'[u] \in Seq(Steps)
        BY StepIs
      <2>2. <<"use", o>> \in Range(agenda'[u])
        BY <1>1, <2>1, HeadIn
      <2> QED
        BY <2>2 DEF UseInv
    <1>2. ASSUME NEW o \in statusObservers' \cup grabCallbacks'
          PROVE  o \in alive'
      <2>1. /\ o \in statusObservers \cup grabCallbacks
            /\ \A x \in alive \ alive' : s = <<"gone", x>> /\ x # "widget"
        BY <1>2 DEF Step, ObserverStep
      <2>2. o \in {"title", "controller", "widget"} \cup Streams
        BY <2>1 DEF TypeOK
      <2>3. CASE s = <<"gone", o>> /\ o # "widget"
        <3>1. ~Before(Gui, <<"deregister", o>>, <<"gone", o>>)
          BY <2>3, GuiHead, Later
        <3>2. o \in {"title", "controller"} \cup Streams
          BY <2>2, <2>3
        <3> QED
          BY <2>1, <3>1, <3>2 DEF RegisteredInv
      <2> QED
        BY <2>1, <2>3 DEF CallsReachTheLiving
    <1> QED
      BY <1>1, <1>2 DEF CallsReachTheLiving

\* A step keeps FacadeOutlivesItsThreads.
LEMMA OutlivesKept ==
    ASSUME TypeOK, MutexInv, JoinInv, PoolInv, FacadeInv, FacadeOutlivesItsThreads,
           NEW t \in Callers, NEW s, NEW more, Step(t, s, more)
    PROVE  FacadeOutlivesItsThreads'
    <1> SUFFICES ASSUME "facade" \notin alive'
                 PROVE  /\ agenda'["pool"] = << >> /\ agenda'["worker"] = << >>
                        /\ ~stopWorker' /\ stopMutex' = "none" /\ data' = "none"
      BY DEF FacadeOutlivesItsThreads
    <1>1. "facade" \in alive
      <2>1. ASSUME "facade" \notin alive
            PROVE  FALSE
        <3>1. agenda["gui"] = << >> /\ agenda["pool"] = << >> /\ agenda["worker"] = << >>
          BY <2>1 DEF FacadeInv, Gui, FacadeOutlivesItsThreads
        <3> QED
          BY <3>1, StepIs DEF Callers
      <2> QED
        BY <2>1
    <1>2. s = <<"gone", "facade">>
      BY <1>1 DEF Step, ObserverStep
    <1>3. t = "gui"
      BY <1>2, GuiHead, Later
    <1>4. agenda["pool"] = << >> /\ agenda["worker"] = << >> /\ stopMutex = "none" /\ data = "none"
      BY <1>2, IdleLast
    <1>5. ~stopWorker
      BY <1>2, GoneLast
    <1>6. agenda'["pool"] = << >> /\ agenda'["worker"] = << >>
      BY <1>3, <1>4, StepIs DEF Callers
    <1>7. \A n \in {"stop", "join", "unlock", "drain", "receive"} : s # <<n>>
      BY <1>2
    <1> QED
      BY <1>4, <1>5, <1>6, <1>7 DEF Step, FlagStep

\* Every step of a thread keeps the invariant.
LEMMA StepKeeps ==
    ASSUME IInv, NEW t \in Callers, NEW s, NEW more, Step(t, s, more)
    PROVE  IInv'
    <1>1. /\ TypeOK /\ NotifyInv /\ MutexInv /\ WorkerInv /\ JoinInv /\ DataInv /\ RegisteredInv
          /\ GateInv /\ ControllerInv /\ PoolInv /\ GrabInv /\ FacadeInv /\ UseInv
          /\ CallsReachTheLiving /\ FramesReachTheLiving /\ FacadeOutlivesItsThreads
      BY DEF IInv
    <1>2. TypeOK'
      BY <1>1, TypeKept
    <1>3. NotifyInv' /\ MutexInv' /\ WorkerInv' /\ JoinInv'
      BY <1>1, NotifyKept, MutexKept, WorkerKept, JoinKept
    <1>4. DataInv' /\ RegisteredInv' /\ GateInv' /\ ControllerInv'
      BY <1>1, DataKept, RegisteredKept, GateKept, ControllerKept
    <1>5. PoolInv' /\ GrabInv' /\ FacadeInv' /\ UseInv'
      BY <1>1, PoolKept, GrabKept, FacadeKept, UseKept
    <1>6. CallsReachTheLiving' /\ FramesReachTheLiving' /\ FacadeOutlivesItsThreads'
      BY <1>1, <1>5, CallsKept, FramesKept, OutlivesKept
    <1> QED
      BY <1>2, <1>3, <1>4, <1>5, <1>6 DEF IInv

-----------------------------------------------------------------------------
(* What the GUI thread is given to do.                                     *)

\* The steps of a teardown are in order.
Ordered(q) ==
    /\ \A o \in {"title", "controller"} \cup Streams :
          Before(q, <<"deregister", o>>, <<"gone", o>>)
    /\ \A s \in Streams :
          Before(q, <<"shut", s>>, <<"drained", s>>) /\ Before(q, <<"drained", s>>, <<"gone", s>>)
    /\ Before(q, <<"drained", "own">>, <<"gone", "controller">>)
    /\ Before(q, <<"stop">>, <<"gone", "controller">>)
    /\ Before(q, <<"drain">>, <<"gone", "facade">>)
    /\ \A o \in {"controller", "facade"} :
          /\ Before(q, <<"wait for pool">>, <<"gone", o>>)
          /\ <<"gone", o>> \in Range(q) => Range(q) \cap {<<"grab">>, <<"receive">>} = {}

\* The facade is joined, then destroyed, at the end.
Ending(q) ==
    /\ Len(q) >= 2 /\ q[Len(q)] = <<"gone", "facade">> /\ q[Len(q) - 1] = <<"join">>
    /\ Once(q, <<"gone", "facade">>)

\* An order that holds in p and is not broken in q holds in p followed by q.
LEMMA BeforeConcat ==
    ASSUME NEW S, NEW p \in Seq(S), NEW q \in Seq(S), NEW a, NEW b, Before(p, a, b),
           a \in Range(p) \/ Before(q, a, b)
    PROVE  Before(p \o q, a, b)
    <1> DEFINE r == p \o q
               n == Len(p)
    <1>1. /\ n \in Nat /\ Len(q) \in Nat /\ Len(r) = n + Len(q)
          /\ \A i \in 1 .. n + Len(q) : r[i] = IF i <= n THEN p[i] ELSE q[i - n]
      BY ConcatProperties, LenProperties
    <1>2. a \in Range(p) => \E j \in 1 .. n : p[j] = a
      BY RangeIs
    <1> HIDE DEF r, n
    <1>3. ASSUME NEW i \in 1 .. Len(r), r[i] = b
          PROVE  \E j \in 1 .. i - 1 : r[j] = a
      <2>1. i \in 1 .. n + Len(q) /\ i \in Nat
        BY <1>1
      <2>2. CASE i <= n
        <3>1. i \in 1 .. Len(p) /\ p[i] = b
          BY <1>1, <1>3, <2>1, <2>2 DEF n
        <3>2. PICK j \in 1 .. i - 1 : p[j] = a
          BY <3>1 DEF Before
        <3>3. j \in 1 .. n + Len(q) /\ j <= n
          BY <1>1, <2>1, <2>2, <3>2
        <3> QED
          BY <1>1, <3>2, <3>3
      <2>3. CASE i > n
        <3>1. CASE a \in Range(p)
          <4>1. PICK j \in 1 .. n : p[j] = a
            BY <1>2, <3>1
          <4>2. j \in 1 .. n + Len(q) /\ j <= n /\ j \in 1 .. i - 1
            BY <1>1, <2>1, <2>3, <4>1
          <4> QED
            BY <1>1, <4>1, <4>2
        <3>2. CASE Before(q, a, b)
          <4>1. PICK k \in 1 .. Len(q) : k = i - n /\ r[i] = q[k]
            BY <1>1, <2>1, <2>3
          <4>2. PICK l \in 1 .. k - 1 : q[l] = a
            BY <1>3, <3>2, <4>1 DEF Before
          <4>3. PICK j \in 1 .. i - 1 : j = n + l
            BY <1>1, <2>1, <2>3, <4>1, <4>2
          <4>4. j \in 1 .. n + Len(q) /\ ~(j <= n) /\ j - n = l
            BY <1>1, <2>1, <2>3, <4>1, <4>2, <4>3
          <4>5. r[j] = a
            BY <1>1, <4>2, <4>4
          <4> QED
            BY <4>5
        <3> QED
          BY <3>1, <3>2
      <2> QED
        BY <1>1, <2>1, <2>2, <2>3
    <1> QED
      BY <1>3 DEF Before, r

\* The last two steps of a sequence that ends in a and b.
LEMMA LastTwo ==
    ASSUME NEW S, NEW p \in Seq(S), NEW a \in S, NEW b \in S, b \notin Range(p), a # b
    PROVE  LET r == p \o <<a, b>>
           IN  Len(r) >= 2 /\ r[Len(r)] = b /\ r[Len(r) - 1] = a /\ Once(r, b)
    <1> DEFINE q == <<a, b>>
               r == p \o q
               n == Len(p)
    <1>1. q \in Seq(S) /\ Len(q) = 2 /\ q[1] = a /\ q[2] = b
      OBVIOUS
    <1>2. \A i \in 1 .. n : p[i] # b
      BY RangeIs
    <1> HIDE DEF q
    <1>3. /\ n \in Nat /\ Len(r) = n + 2
          /\ \A i \in 1 .. n + 2 : r[i] = IF i <= n THEN p[i] ELSE q[i - n]
      <2>1. /\ n \in Nat /\ Len(r) = n + Len(q)
            /\ \A i \in 1 .. n + Len(q) : r[i] = IF i <= n THEN p[i] ELSE q[i - n]
        BY <1>1, ConcatProperties, LenProperties
      <2> HIDE DEF r, n
      <2> QED
        BY <1>1, <2>1
    <1> HIDE DEF r, n
    <1>4. r[n + 2] = q[2] /\ r[n + 1] = q[1]
      <2>1. n + 2 \in 1 .. n + 2 /\ n + 1 \in 1 .. n + 2 /\ ~(n + 2 <= n) /\ ~(n + 1 <= n)
            /\ n + 2 - n = 2 /\ n + 1 - n = 1
        BY <1>3
      <2> QED
        BY <1>3, <2>1
    <1>5. ASSUME NEW i \in 1 .. Len(r), r[i] = b
          PROVE  i = n + 2
      <2>1. i \in 1 .. n \/ i = n + 1 \/ i = n + 2
        BY <1>3
      <2>2. i \in 1 .. n => r[i] = p[i]
        BY <1>3
      <2> QED
        BY <1>1, <1>2, <1>4, <1>5, <2>1, <2>2
    <1>6. Once(r, b)
      BY <1>5 DEF Once
    <1>7. Len(r) >= 2 /\ Len(r) - 1 = n + 1
      BY <1>3
    <1>8. r[Len(r)] = b /\ r[Len(r) - 1] = a
      BY <1>1, <1>3, <1>4, <1>7
    <1> QED
      BY <1>6, <1>7, <1>8 DEF q, r

\* Nothing is taken down by what does not destroy and does not drain.
LEMMA PlainOrdered ==
    ASSUME NEW q \in Seq(Steps), Range(q) \subseteq RunSteps
    PROVE  Ordered(q) /\ <<"gone", "facade">> \notin Range(q)
    <1>1. \A o : <<"gone", o>> \notin Range(q) /\ <<"drained", o>> \notin Range(q)
      BY Later
    <1> QED
      BY <1>1, BeforeFacts DEF Ordered

\* The end of a stream.
LEMMA StreamOrdered ==
    ASSUME NEW x \in Streams
    PROVE  /\ EndStream(x) \in Seq(Steps)
           /\ Range(EndStream(x)) =
                {<<"shut", x>>, <<"deregister", x>>, <<"drained", x>>, <<"gone", x>>}
           /\ Before(EndStream(x), <<"deregister", x>>, <<"gone", x>>)
           /\ Before(EndStream(x), <<"shut", x>>, <<"drained", x>>)
           /\ Before(EndStream(x), <<"drained", x>>, <<"gone", x>>)
           /\ x \notin {"title", "controller", "facade", "widget"}
    <1> DEFINE q == EndStream(x)
    <1>1. /\ <<"shut", x>> \in Steps /\ <<"deregister", x>> \in Steps
          /\ <<"drained", x>> \in Steps /\ <<"gone", x>> \in Steps
      BY DEF Steps, Objects
    <1>2. q \in Seq(Steps)
      BY <1>1 DEF EndStream
    <1>3. Range(q) = {<<"shut", x>>, <<"deregister", x>>, <<"drained", x>>, <<"gone", x>>}
      BY DEF EndStream, Range
    <1>4. /\ Len(q) = 4 /\ q[1] = <<"shut", x>> /\ q[2] = <<"deregister", x>>
          /\ q[3] = <<"drained", x>> /\ q[4] = <<"gone", x>>
      BY DEF EndStream
    <1> HIDE DEF q
    <1>5. \A i \in 1 .. Len(q) : /\ q[i] = <<"gone", x>> => i = 4
                                 /\ q[i] = <<"drained", x>> => i = 3
      <2>1. \A i \in 1 .. Len(q) : i \in {1, 2, 3, 4}
        BY <1>4
      <2> QED
        BY <1>4, <2>1
    <1>6. 1 \in 1 .. 3 - 1 /\ 2 \in 1 .. 4 - 1 /\ 3 \in 1 .. 4 - 1
      OBVIOUS
    <1>7. /\ Before(q, <<"deregister", x>>, <<"gone", x>>)
          /\ Before(q, <<"shut", x>>, <<"drained", x>>)
          /\ Before(q, <<"drained", x>>, <<"gone", x>>)
      BY <1>4, <1>5, <1>6 DEF Before
    <1>8. x \notin {"title", "controller", "facade", "widget"}
      BY SessionAssumption DEF Streams
    <1> QED
      BY <1>2, <1>3, <1>7, <1>8 DEF q

\* The end of the controller, with its stream.
LEMMA ControllerOrdered ==
    /\ EndController \in Seq(Steps)
    /\ Range(EndController) =
         {<<"stop">>, <<"shut", "own">>, <<"deregister", "own">>, <<"drained", "own">>,
          <<"gone", "own">>, <<"deregister", "controller">>, <<"gone", "controller">>}
    /\ Before(EndController, <<"deregister", "controller">>, <<"gone", "controller">>)
    /\ Before(EndController, <<"deregister", "own">>, <<"gone", "own">>)
    /\ Before(EndController, <<"shut", "own">>, <<"drained", "own">>)
    /\ Before(EndController, <<"drained", "own">>, <<"gone", "own">>)
    /\ Before(EndController, <<"drained", "own">>, <<"gone", "controller">>)
    /\ Before(EndController, <<"stop">>, <<"gone", "controller">>)
    <1> DEFINE stream == EndStream("own")
               end == << <<"deregister", "controller">>, <<"gone", "controller">> >>
               first == Stop \o stream
    <1>1. Stop \in Seq(Steps) /\ Range(Stop) = {<<"stop">>}
      <2>1. <<"stop">> \in Steps
        BY DEF Steps, PoolSteps, StopSteps
      <2> QED
        BY <2>1, OneStep, RangeOfLiteral DEF Stop
    <1>2. /\ stream \in Seq(Steps)
          /\ Range(stream) = {<<"shut", "own">>, <<"deregister", "own">>, <<"drained", "own">>,
                              <<"gone", "own">>}
          /\ Before(stream, <<"deregister", "own">>, <<"gone", "own">>)
          /\ Before(stream, <<"shut", "own">>, <<"drained", "own">>)
          /\ Before(stream, <<"drained", "own">>, <<"gone", "own">>)
      BY StreamOrdered DEF Streams
    <1>3. end \in Seq(Steps)
      <2>1. <<"deregister", "controller">> \in Steps /\ <<"gone", "controller">> \in Steps
        BY DEF Steps, Objects
      <2> QED
        BY <2>1
    <1>4. Range(end) = {<<"deregister", "controller">>, <<"gone", "controller">>}
      BY RangeOfLiteral
    <1>5. Before(end, <<"deregister", "controller">>, <<"gone", "controller">>)
      <2>1. /\ Len(end) = 2 /\ end[1] = <<"deregister", "controller">>
            /\ end[2] = <<"gone", "controller">> /\ 1 \in 1 .. 2 - 1
        OBVIOUS
      <2> HIDE DEF end
      <2>2. \A i \in 1 .. Len(end) : i = 1 \/ i = 2
        BY <2>1
      <2> QED
        BY <2>1, <2>2 DEF Before
    <1>6. EndController = first \o end
      BY DEF EndController
    <1> HIDE DEF stream, end
    <1>7. first \in Seq(Steps) /\ Range(first) = Range(Stop) \cup Range(stream)
      BY <1>1, <1>2, ConcatIs
    <1>8. \A a, b : Before(Stop, a, b) /\ Before(stream, a, b) => Before(first, a, b)
      BY <1>1, <1>2, BeforeConcat
    <1>9. \A a, b : b \notin Range(Stop) => Before(Stop, a, b)
      BY <1>1, BeforeFacts
    <1>10. /\ Before(first, <<"deregister", "own">>, <<"gone", "own">>)
           /\ Before(first, <<"shut", "own">>, <<"drained", "own">>)
           /\ Before(first, <<"drained", "own">>, <<"gone", "own">>)
      BY <1>1, <1>2, <1>8, <1>9
    <1> HIDE DEF first
    <1>11. first \o end \in Seq(Steps) /\ Range(first \o end) = Range(first) \cup Range(end)
      BY <1>3, <1>7, ConcatIs
    <1>12. \A a, b : Before(first, a, b) /\ (a \in Range(first) \/ Before(end, a, b))
                       => Before(first \o end, a, b)
      BY <1>3, <1>7, BeforeConcat
    <1>13. \A a, b : b \notin Range(first) => Before(first, a, b)
      BY <1>7, BeforeFacts
    <1>14. Range(first) = {<<"stop">>, <<"shut", "own">>, <<"deregister", "own">>,
                           <<"drained", "own">>, <<"gone", "own">>}
      BY <1>1, <1>2, <1>7
    <1>15. /\ Before(first \o end, <<"deregister", "own">>, <<"gone", "own">>)
           /\ Before(first \o end, <<"shut", "own">>, <<"drained", "own">>)
           /\ Before(first \o end, <<"drained", "own">>, <<"gone", "own">>)
      BY <1>10, <1>12, <1>14
    <1>16. /\ Before(first, <<"deregister", "controller">>, <<"gone", "controller">>)
           /\ Before(first, <<"drained", "own">>, <<"gone", "controller">>)
           /\ Before(first, <<"stop">>, <<"gone", "controller">>)
      BY <1>13, <1>14
    <1>17. /\ Before(first \o end, <<"deregister", "controller">>, <<"gone", "controller">>)
           /\ Before(first \o end, <<"drained", "own">>, <<"gone", "controller">>)
           /\ Before(first \o end, <<"stop">>, <<"gone", "controller">>)
      BY <1>5, <1>12, <1>14, <1>16
    <1>18. Range(first \o end) =
             {<<"stop">>, <<"shut", "own">>, <<"deregister", "own">>, <<"drained", "own">>,
              <<"gone", "own">>, <<"deregister", "controller">>, <<"gone", "controller">>}
      BY <1>4, <1>11, <1>14
    <1> QED
      BY <1>6, <1>11, <1>15, <1>17, <1>18

\* ~GocatorPluginSession: the order that the teardown of a session keeps.
SessionOrder(q) ==
    /\ Before(q, <<"deregister", "title">>, <<"gone", "title">>)
    /\ Before(q, <<"wait for pool">>, <<"gone", "controller">>)
    /\ Before(q, <<"wait for pool">>, <<"gone", "facade">>)
    /\ Before(q, <<"drain">>, <<"gone", "facade">>)
    /\ Before(q, <<"deregister", "controller">>, <<"gone", "controller">>)
    /\ Before(q, <<"deregister", "own">>, <<"gone", "own">>)
    /\ Before(q, <<"shut", "own">>, <<"drained", "own">>)
    /\ Before(q, <<"drained", "own">>, <<"gone", "own">>)
    /\ Before(q, <<"drained", "own">>, <<"gone", "controller">>)
    /\ Before(q, <<"stop">>, <<"gone", "controller">>)

\* It is kept by what destroys nothing.
LEMMA OrderConcat ==
    ASSUME NEW p \in Seq(Steps), NEW q \in Seq(Steps), SessionOrder(p),
           <<"drained", "own">> \notin Range(q),
           \A o \in {"title", "own", "controller", "facade"} : <<"gone", o>> \notin Range(q)
    PROVE  SessionOrder(p \o q)
    <1>1. \A a, b : Before(p, a, b) /\ b \notin Range(q) => Before(p \o q, a, b)
      BY BeforeConcat, BeforeFacts
    <1> QED
      BY <1>1 DEF SessionOrder

SessionSteps ==
    {<<"deactivate">>, <<"wait for pool">>, <<"join">>, <<"stop">>, <<"disconnect">>,
     <<"drain">>, <<"closed">>, <<"shut", "own">>, <<"drained", "own">>,
     <<"deregister", "title">>, <<"deregister", "widget">>, <<"deregister", "own">>,
     <<"deregister", "controller">>, <<"gone", "title">>, <<"gone", "own">>,
     <<"gone", "controller">>, <<"gone", "facade">>}

\* The end of a session has the order that the invariant asks for.
LEMMA SessionOrders ==
    /\ EndSession \in Seq(Steps)
    /\ SessionOrder(EndSession)
    /\ Range(EndSession) = SessionSteps
    /\ Ending(EndSession)
    <1> DEFINE one == << <<"deactivate">>, <<"deregister", "title">> >>
               two == PrepareForShutdown
               three == EndController
               five == << <<"gone", "title">> >>
               eight == << <<"join">>, <<"gone", "facade">> >>
               closing == {<<"join">>, <<"stop">>, <<"disconnect">>, <<"drain">>, <<"closed">>}
    <1>1. /\ <<"deactivate">> \in Steps /\ <<"wait for pool">> \in Steps
          /\ <<"join">> \in Steps
          /\ <<"deregister", "title">> \in Steps /\ <<"deregister", "widget">> \in Steps
          /\ <<"gone", "title">> \in Steps /\ <<"gone", "facade">> \in Steps
      <2>1. "title" \in Objects /\ "widget" \in Objects /\ "facade" \in Objects
        BY DEF Objects
      <2>2. <<"join">> \in Steps
        BY DEF Steps, PoolSteps
      <2> QED
        BY <2>1, <2>2 DEF Steps
    <1>2. one \in Seq(Steps) /\ Range(one) = {<<"deactivate">>, <<"deregister", "title">>}
      BY <1>1, TwoStep, RangeOfLiteral
    <1>3. two \in Seq(Steps) /\ Range(two) = {<<"wait for pool">>, <<"deregister", "widget">>}
      BY <1>1, TwoStep, RangeOfLiteral DEF PrepareForShutdown
    <1>4. five \in Seq(Steps) /\ Range(five) = {<<"gone", "title">>}
      BY <1>1, OneStep, RangeOfLiteral
    <1>5. eight \in Seq(Steps) /\ Range(eight) = {<<"join">>, <<"gone", "facade">>}
      BY <1>1, TwoStep, RangeOfLiteral
    <1>6. Close \in Seq(Steps) /\ Range(Close) = closing
      <2>1. PoolSteps \subseteq Steps
        BY DEF Steps
      <2> QED
        BY <2>1, CloseIs, SeqMonotonic
    <1>7. three \in Seq(Steps)
      BY ControllerOrdered
    <1>10. one \in Seq(Steps) /\ two \in Seq(Steps) /\ five \in Seq(Steps) /\ eight \in Seq(Steps)
      BY <1>2, <1>3, <1>4, <1>5
    <1>11. Close \in Seq(Steps)
      BY <1>6
    <1> DEFINE to2 == one \o two
               to3 == to2 \o three
               to4 == to3 \o Close
               to5 == to4 \o five
               to6 == to5 \o Close
               to7 == to6 \o Close
               to8 == to7 \o eight
    <1>8. EndSession = to8
      BY DEF EndSession
    <1>9. Ending(to8)
      <2> DEFINE a == <<"join">>
                 b == <<"gone", "facade">>
      <2>1. to7 \in Seq(Steps) /\ b \notin Range(to7) /\ a \in Steps /\ b \in Steps /\ a # b
        <3> HIDE DEF one, two, three, five, eight
        <3>1. to2 \in Seq(Steps) /\ Range(to2) = Range(one) \cup Range(two)
          BY <1>10, ConcatIs
        <3> HIDE DEF to2
        <3>2. to3 \in Seq(Steps) /\ Range(to3) = Range(to2) \cup Range(three)
          BY <1>7, <3>1, ConcatIs
        <3> HIDE DEF to3
        <3>3. to4 \in Seq(Steps) /\ Range(to4) = Range(to3) \cup Range(Close)
          BY <1>11, <3>2, ConcatIs
        <3> HIDE DEF to4
        <3>4. to5 \in Seq(Steps) /\ Range(to5) = Range(to4) \cup Range(five)
          BY <1>10, <3>3, ConcatIs
        <3> HIDE DEF to5
        <3>5. to6 \in Seq(Steps) /\ Range(to6) = Range(to5) \cup Range(Close)
          BY <1>11, <3>4, ConcatIs
        <3> HIDE DEF to6
        <3>6. to7 \in Seq(Steps) /\ Range(to7) = Range(to6) \cup Range(Close)
          BY <1>11, <3>5, ConcatIs
        <3> HIDE DEF to7
        <3>7. /\ b \notin Range(one) /\ b \notin Range(two) /\ b \notin Range(five)
              /\ b \notin Range(Close)
          BY <1>2, <1>3, <1>4, <1>6
        <3>8. b \notin Range(three)
          BY ControllerOrdered DEF three
        <3>9. a # b
          OBVIOUS
        <3> QED
          BY <1>1, <3>1, <3>2, <3>3, <3>4, <3>5, <3>6, <3>7, <3>8, <3>9
      <2> HIDE DEF a, b, to7
      <2>2. LET r == to7 \o <<a, b>>
            IN  Len(r) >= 2 /\ r[Len(r)] = b /\ r[Len(r) - 1] = a /\ Once(r, b)
        BY <2>1, LastTwo
      <2>3. to8 = to7 \o <<a, b>>
        BY DEF a, b
      <2> QED
        BY <2>2, <2>3 DEF Ending, a, b
    <1> QED
      <2> HIDE DEF one, two, three, five, eight
      <2>1. SessionOrder(one)
        <3>1. \A a, b : b \notin Range(one) => Before(one, a, b)
          BY <1>10, BeforeFacts
        <3> QED
          BY <1>2, <3>1 DEF SessionOrder
      <2>2. to2 \in Seq(Steps) /\ Range(to2) = Range(one) \cup Range(two)
        BY <1>10, ConcatIs
      <2>3. SessionOrder(to2)
        <3>1. /\ <<"drained", "own">> \notin Range(two)
              /\ \A o \in {"title", "own", "controller", "facade"} : <<"gone", o>> \notin Range(two)
          BY <1>3
        <3> QED
          BY <1>10, <2>1, <3>1, OrderConcat
      <2> HIDE DEF to2
      <2>4. to3 \in Seq(Steps) /\ Range(to3) = Range(to2) \cup Range(three)
        BY <1>7, <2>2, ConcatIs
      <2>5. SessionOrder(to3)
        <3>1. \A a, b : Before(to2, a, b) /\ (a \in Range(to2) \/ Before(three, a, b))
                          => Before(to3, a, b)
          BY <1>7, <2>2, BeforeConcat
        <3>2. <<"deregister", "title">> \in Range(to2) /\ <<"wait for pool">> \in Range(to2)
          BY <1>2, <1>3, <2>2
        <3>3. Before(three, <<"drain">>, <<"gone", "facade">>)
          <4>1. <<"gone", "facade">> \notin Range(three)
            BY ControllerOrdered DEF three
          <4> QED
            BY <1>7, <4>1, BeforeFacts
        <3>4. /\ Before(three, <<"deregister", "controller">>, <<"gone", "controller">>)
              /\ Before(three, <<"deregister", "own">>, <<"gone", "own">>)
              /\ Before(three, <<"shut", "own">>, <<"drained", "own">>)
              /\ Before(three, <<"drained", "own">>, <<"gone", "own">>)
              /\ Before(three, <<"drained", "own">>, <<"gone", "controller">>)
              /\ Before(three, <<"stop">>, <<"gone", "controller">>)
          BY ControllerOrdered DEF three
        <3> HIDE DEF to3
        <3> QED
          BY <2>3, <3>1, <3>2, <3>3, <3>4 DEF SessionOrder
      <2> HIDE DEF to3
      <2>6. /\ <<"drained", "own">> \notin Range(Close)
            /\ \A o \in {"title", "own", "controller", "facade"} : <<"gone", o>> \notin Range(Close)
        BY <1>6
      <2>7. to4 \in Seq(Steps) /\ Range(to4) = Range(to3) \cup Range(Close)
        BY <1>11, <2>4, ConcatIs
      <2>8. SessionOrder(to4)
        BY <1>11, <2>4, <2>5, <2>6, OrderConcat
      <2> HIDE DEF to4
      <2>9. to5 \in Seq(Steps) /\ Range(to5) = Range(to4) \cup Range(five)
        BY <1>10, <2>7, ConcatIs
      <2>10. SessionOrder(to5)
        <3>1. <<"deregister", "title">> \in Range(to4)
          BY <1>2, <2>2, <2>4, <2>7
        <3>2. \A a, b : Before(to4, a, b) /\ (a \in Range(to4) \/ b \notin Range(five))
                          => Before(to5, a, b)
          BY <1>10, <2>7, BeforeConcat, BeforeFacts
        <3> HIDE DEF to5
        <3> QED
          BY <1>4, <2>8, <3>1, <3>2 DEF SessionOrder
      <2> HIDE DEF to5
      <2>11. to6 \in Seq(Steps) /\ Range(to6) = Range(to5) \cup Range(Close)
        BY <1>11, <2>9, ConcatIs
      <2>12. SessionOrder(to6)
        BY <1>11, <2>6, <2>9, <2>10, OrderConcat
      <2> HIDE DEF to6
      <2>13. to7 \in Seq(Steps) /\ Range(to7) = Range(to6) \cup Range(Close)
        BY <1>11, <2>11, ConcatIs
      <2>14. SessionOrder(to7)
        BY <1>11, <2>6, <2>11, <2>12, OrderConcat
      <2> HIDE DEF to7
      <2>15. to8 \in Seq(Steps) /\ Range(to8) = Range(to7) \cup Range(eight)
        BY <1>10, <2>13, ConcatIs
      <2>16. SessionOrder(to8)
        <3>1. <<"wait for pool">> \in Range(to7) /\ <<"drain">> \in Range(to7)
          <4>1. <<"wait for pool">> \in Range(two) /\ <<"drain">> \in Range(Close)
            BY <1>3, <1>6
          <4> QED
            BY <2>2, <2>4, <2>7, <2>9, <2>11, <2>13, <4>1
        <3>2. \A a, b : Before(to7, a, b) /\ (a \in Range(to7) \/ b \notin Range(eight))
                          => Before(to8, a, b)
          BY <1>10, <2>13, BeforeConcat, BeforeFacts
        <3> HIDE DEF to8
        <3> QED
          BY <1>5, <2>14, <3>1, <3>2 DEF SessionOrder
      <2> HIDE DEF to8
      <2>17. Range(to8) = Range(one) \cup Range(two) \cup Range(three) \cup Range(Close)
                            \cup Range(five) \cup Range(eight)
        <3>1. Range(to7) = Range(one) \cup Range(two) \cup Range(three) \cup Range(Close)
                             \cup Range(five)
          BY <2>2, <2>4, <2>7, <2>9, <2>11, <2>13
        <3> QED
          BY <2>15, <3>1
      <2>18. Range(to8) = SessionSteps
        <3>1. Range(three) =
                {<<"stop">>, <<"shut", "own">>, <<"deregister", "own">>, <<"drained", "own">>,
                 <<"gone", "own">>, <<"deregister", "controller">>, <<"gone", "controller">>}
          BY ControllerOrdered DEF three
        <3> QED
          BY <1>2, <1>3, <1>4, <1>5, <1>6, <2>17, <3>1 DEF SessionSteps
      <2> QED
        BY <1>8, <1>9, <2>15, <2>16, <2>18

-----------------------------------------------------------------------------
(* The calls, the data thread and the link keep the invariant.             *)

\* The GUI thread or the pool begins something.
LEMMA BeginKeeps ==
    ASSUME IInv, NEW t \in {"gui", "pool"}, NEW steps \in Seq(Steps),
           Begin(t, steps), OnlyAgenda, "facade" \in alive,
           Leading(steps, Notifying), <<"unlock">> \notin Range(steps),
           \A o \in Used \ {"host"} : <<"use", o>> \in Range(steps) => o \in alive,
           t = "gui" => Ordered(steps),
           t = "gui" /\ <<"gone", "facade">> \in Range(steps) =>
               Ending(steps) /\ Others \cap alive = {},
           t = "pool" => steps \in Seq(PoolSteps) /\ agenda["gui"] = << >>
    PROVE  IInv'
    <1>1. /\ TypeOK /\ NotifyInv /\ MutexInv /\ WorkerInv /\ JoinInv /\ DataInv /\ RegisteredInv
          /\ GateInv /\ ControllerInv /\ PoolInv /\ GrabInv /\ FacadeInv /\ UseInv
          /\ CallsReachTheLiving /\ FramesReachTheLiving /\ FacadeOutlivesItsThreads
      BY DEF IInv
    <1>2. t \in Callers /\ t # "worker"
      BY DEF Callers
    <1>3. /\ agenda[t] = << >> /\ agenda' \in [Callers -> Seq(Steps)] /\ agenda'[t] = steps
          /\ \A u \in Callers \ {t} : agenda'[u] = agenda[u]
      BY <1>1, <1>2 DEF Begin, TypeOK
    <1>4. UNCHANGED <<facade, registries, calling, delivery, observers>>
      BY DEF OnlyAgenda
    <1> DEFINE same == UNCHANGED <<isOpened, isGrabbing, stopRequested, stopWorker, stopMutex,
                                   connected, statusObservers, grabCallbacks, calling, data,
                                   pending, serving, leased, shut, titleActive, alive>>
    <1>5. same
      BY <1>4 DEF facade, registries, delivery, observers
    <1>6. Range(agenda[t]) = {}
      BY <1>3, RangeOfLiteral
    <1>7. agenda'["worker"] = agenda["worker"]
      BY <1>2, <1>3 DEF Callers
    <1>8. TypeOK'
      <2>1. agenda'["pool"] \in Seq(PoolSteps)
        BY <1>1, <1>3 DEF TypeOK, Callers
      <2>2. agenda'["worker"] \in Seq(StopSteps)
        BY <1>1, <1>7 DEF TypeOK
      <2> QED
        BY <1>1, <1>3, <1>5, <2>1, <2>2 DEF TypeOK
    <1>9. NotifyInv'
      <2>1. ASSUME NEW u \in Callers
            PROVE  /\ Leading(agenda'[u], Notifying)
                   /\ calling'[u] # {} => \E e \in Events : <<"call", e>> \in Range(agenda'[u])
        <3>1. CASE u = t
          <4>1. calling'[u] = {}
            BY <1>1, <1>2, <1>5, <1>6, <3>1 DEF NotifyInv
          <4> QED
            BY <1>3, <3>1, <4>1
        <3>2. CASE u # t
          BY <1>1, <1>3, <1>5, <3>2 DEF NotifyInv
        <3> QED
          BY <3>1, <3>2
      <2> QED
        BY <2>1 DEF NotifyInv
    <1>10. MutexInv'
      <2>1. ASSUME NEW u \in Callers
            PROVE  /\ <<"unlock">> \in Range(agenda'[u]) <=> stopMutex' = u
                   /\ Once(agenda'[u], <<"unlock">>)
        <3>1. CASE u = t
          <4>1. stopMutex' # t
            BY <1>1, <1>2, <1>5, <1>6 DEF MutexInv
          <4>2. Once(steps, <<"unlock">>)
            BY RangeIs DEF Once
          <4> QED
            BY <1>3, <3>1, <4>1, <4>2
        <3>2. CASE u # t
          BY <1>1, <1>3, <1>5, <3>2 DEF MutexInv
        <3> QED
          BY <3>1, <3>2
      <2> QED
        BY <2>1 DEF MutexInv
    <1>11. WorkerInv'
      BY <1>1, <1>7 DEF WorkerInv
    <1>12. JoinInv'
      <2>1. ASSUME NEW u \in {"gui", "pool"}, <<"joining">> \in Range(agenda[u])
            PROVE  <<"joining">> \in Range(agenda'[u])
        BY <1>3, <1>6, <2>1 DEF Callers
      <2> QED
        BY <1>1, <1>5, <1>7, <2>1 DEF JoinInv
    <1>13. DataInv' /\ FramesReachTheLiving'
      BY <1>1, <1>5 DEF DataInv, FramesReachTheLiving
    <1>14. RegisteredInv' /\ GateInv' /\ ControllerInv' /\ PoolInv' /\ GrabInv'
      <2>1. CASE t = "gui"
        <3>1. Gui' = steps /\ Ordered(steps) /\ agenda'["pool"] = agenda["pool"]
          BY <1>3, <2>1 DEF Gui, Callers
        <3>2. RegisteredInv' /\ GateInv'
          BY <3>1 DEF RegisteredInv, GateInv, Gui, Ordered, Streams
        <3>3. ControllerInv' /\ PoolInv' /\ GrabInv'
          BY <3>1 DEF ControllerInv, PoolInv, GrabInv, Gui, Ordered
        <3> QED
          BY <3>2, <3>3
      <2>2. CASE t = "pool"
        <3>1. Gui' = << >>
          BY <1>3, <2>2 DEF Gui, Callers
        <3>2. << >> \in Seq(Steps) /\ Range(<< >>) \subseteq RunSteps
          BY RangeOfLiteral
        <3>3. Gui' = << >> /\ Ordered(<< >>)
          BY <3>1, <3>2, PlainOrdered
        <3>4. RegisteredInv' /\ GateInv'
          BY <3>3 DEF RegisteredInv, GateInv, Gui, Ordered, Streams
        <3>5. ControllerInv' /\ PoolInv' /\ GrabInv'
          BY <3>3 DEF ControllerInv, PoolInv, GrabInv, Gui, Ordered
        <3> QED
          BY <3>4, <3>5
      <2> QED
        BY <2>1, <2>2
    <1>15. FacadeInv'
      <2>1. "facade" \in alive'
        BY <1>5
      <2>2. CASE t = "gui"
        <3>1. agenda'["gui"] = steps /\ Ordered(steps)
          BY <1>3, <2>2
        <3>2. Before(Gui, <<"drain">>, <<"gone", "facade">>)'
          BY <3>1 DEF Gui, Ordered
        <3>3. <<"gone", "facade">> \in Range(steps) => LastJoin' /\ Others \cap alive' = {}
          BY <1>5, <2>2, <3>1 DEF LastJoin, Gui, Ending
        <3> QED
          BY <2>1, <3>1, <3>2, <3>3 DEF FacadeInv, Gui
      <2>3. CASE t = "pool"
        <3>1. agenda'["gui"] = agenda["gui"] /\ agenda["gui"] = << >>
          BY <1>3, <2>3 DEF Callers
        <3>2. Range(agenda'["gui"]) = {}
          BY <3>1, RangeOfLiteral
        <3>3. Before(Gui, <<"drain">>, <<"gone", "facade">>)'
          <4>1. << >> \in Seq(Steps) /\ <<"gone", "facade">> \notin Range(<< >>)
            BY RangeOfLiteral
          <4>2. Before(<< >>, <<"drain">>, <<"gone", "facade">>)
            BY <4>1, BeforeFacts
          <4> QED
            BY <3>1, <4>2 DEF Gui
        <3> QED
          BY <2>1, <3>2, <3>3 DEF FacadeInv, Gui
      <2> QED
        BY <2>2, <2>3
    <1>16. UseInv'
      <2>1. ASSUME NEW u \in Callers
            PROVE  /\ \A o \in Used \ {"host"} : <<"use", o>> \in Range(agenda'[u]) => o \in alive'
                   /\ "controller" \in calling'[u] => "controller" \in alive'
        BY <1>1, <1>3, <1>5 DEF UseInv
      <2> QED
        BY <2>1 DEF UseInv
    <1>17. CallsReachTheLiving'
      <2>1. ASSUME NEW u \in Callers, agenda'[u] # << >>, NEW o \in Used \ {"host"},
                   Head(agenda'[u]) = <<"use", o>>
            PROVE  o \in alive'
        <3>1. <<"use", o>> \in Range(agenda'[u])
          BY <1>3, <2>1, HeadIn
        <3> QED
          BY <1>16, <3>1 DEF UseInv
      <2> QED
        BY <1>1, <1>5, <2>1 DEF CallsReachTheLiving
    <1>18. FacadeOutlivesItsThreads'
      BY <1>5 DEF FacadeOutlivesItsThreads
    <1> QED
      BY <1>8, <1>9, <1>10, <1>11, <1>12, <1>13, <1>14, <1>15, <1>16, <1>17, <1>18 DEF IInv

\* What is begun, but for the operations that use the facade, notifies nobody at first.
LEMMA NoNotifying ==
    ASSUME NEW q \in Seq(Steps), Range(q) \cap Notifying = {}
    PROVE  Leading(q, Notifying) /\ \A o \in Used : <<"use", o>> \notin Range(q)
    <1>1. \A i \in 1 .. Len(q) : q[i] \notin Notifying
      BY RangeIs
    <1>2. \A o \in Used : <<"use", o>> \in Notifying
      BY DEF Notifying
    <1> QED
      BY <1>1, <1>2 DEF Leading

\* The host grabs or stops.
LEMMA GrabCallKeeps ==
    ASSUME IInv, CallGrab \/ CallStop
    PROVE  IInv'
    <1> DEFINE Both == {<<"join">>, <<"grab">>, <<"stop">>}
    <1>1. Both \subseteq RunSteps /\ Both \cap Notifying = {} /\ <<"unlock">> \notin Both
      <2>1. Both \subseteq RunSteps
        BY DEF RunSteps, PoolSteps, StopSteps
      <2>2. Both \cap Notifying = {}
        BY Apart
      <2>3. <<"unlock">> \notin Both
        OBVIOUS
      <2> QED
        BY <2>1, <2>2, <2>3
    <1>2. RunSteps \subseteq Steps
      BY DEF RunSteps, Steps
    <1> DEFINE grabs == << <<"join">>, <<"grab">> >>
               stops == << <<"stop">> >>
    <1>3. grabs \in Seq(Steps) /\ Range(grabs) \subseteq Both
      BY <1>1, <1>2, TwoStep, RangeOfLiteral
    <1>4. stops \in Seq(Steps) /\ Range(stops) \subseteq Both
      BY <1>1, <1>2, OneStep, RangeOfLiteral
    <1>5. PICK steps \in Seq(Steps) :
             /\ Range(steps) \subseteq Both
             /\ Begin("gui", steps) /\ OnlyAgenda /\ "facade" \in alive
      BY <1>3, <1>4 DEF CallGrab, CallStop, Grab, Stop
    <1> HIDE DEF Both
    <1>6. Range(steps) \subseteq RunSteps /\ Range(steps) \cap Notifying = {}
          /\ <<"unlock">> \notin Range(steps)
      BY <1>1, <1>5
    <1>7. Ordered(steps) /\ <<"gone", "facade">> \notin Range(steps)
      BY <1>6, PlainOrdered
    <1>8. Leading(steps, Notifying) /\ \A o \in Used : <<"use", o>> \notin Range(steps)
      BY <1>6, NoNotifying
    <1> QED
      BY <1>5, <1>6, <1>7, <1>8, BeginKeeps

\* The widget has the pool open or close the facade, or ask it something.
LEMMA PoolCallKeeps ==
    ASSUME IInv, ConnectToggled \/ AskFacade
    PROVE  IInv'
    <1> DEFINE asks == << <<"use", "facade">> >>
    <1>1. PoolSteps \subseteq Steps
      BY DEF Steps
    <1>2. Open \in Seq(PoolSteps) /\ Range(Open) = {<<"open">>}
      <2>1. <<"open">> \in PoolSteps
        BY DEF PoolSteps
      <2> QED
        BY <2>1, OneStep, RangeOfLiteral DEF Open
    <1>3. asks \in Seq(PoolSteps) /\ Range(asks) = {<<"use", "facade">>}
      <2>1. "facade" \in Used
        BY DEF Used
      <2>2. <<"use", "facade">> \in PoolSteps
        BY <2>1 DEF PoolSteps, StopSteps
      <2> QED
        BY <2>2, OneStep, RangeOfLiteral
    <1>4. {<<"open">>, <<"join">>, <<"stop">>, <<"disconnect">>, <<"drain">>, <<"closed">>}
            \cap (Notifying \cup {<<"unlock">>}) = {}
      BY Apart
    <1>5. \/ InPool(Open) \/ InPool(Close) \/ InPool(asks)
      BY DEF ConnectToggled, AskFacade
    <1>6. ASSUME NEW steps \in Seq(PoolSteps), InPool(steps), Leading(steps, Notifying),
                 <<"unlock">> \notin Range(steps),
                 \A o \in Used \ {"host"} : <<"use", o>> \in Range(steps) => o \in alive
          PROVE  IInv'
      <2>1. steps \in Seq(Steps)
        BY <1>1, SeqMonotonic
      <2>2. /\ Begin("pool", steps) /\ OnlyAgenda /\ "facade" \in alive /\ agenda["gui"] = << >>
        BY <1>6 DEF InPool
      <2>3. "pool" # "gui"
        OBVIOUS
      <2> QED
        BY <1>6, <2>1, <2>2, <2>3, BeginKeeps
    <1>7. ASSUME NEW steps \in Seq(PoolSteps), InPool(steps),
                 Range(steps) \cap (Notifying \cup {<<"unlock">>}) = {}
          PROVE  IInv'
      <2>1. steps \in Seq(Steps)
        BY <1>1, SeqMonotonic
      <2>2. Leading(steps, Notifying) /\ \A o \in Used : <<"use", o>> \notin Range(steps)
        BY <1>7, <2>1, NoNotifying
      <2> QED
        BY <1>6, <1>7, <2>2
    <1>8. CASE InPool(Open)
      BY <1>2, <1>4, <1>7, <1>8
    <1>9. CASE InPool(Close)
      <2>1. Range(Close) \cap (Notifying \cup {<<"unlock">>}) = {}
        BY <1>4, CloseIs
      <2> QED
        BY <1>7, <1>9, <2>1, CloseIs
    <1>10. CASE InPool(asks)
      <2>1. Leading(asks, Notifying)
        <3>1. Len(asks) = 1
          OBVIOUS
        <3>2. \A i \in 1 .. Len(asks) : 1 .. i - 1 = {}
          BY <3>1
        <3> QED
          BY <3>2 DEF Leading
      <2>2. "facade" \in alive
        BY <1>10 DEF InPool
      <2>3. /\ \A o : <<"use", o>> = <<"use", "facade">> => o = "facade"
            /\ <<"unlock">> # <<"use", "facade">>
        OBVIOUS
      <2> HIDE DEF asks
      <2> QED
        BY <1>3, <1>6, <1>10, <2>1, <2>2, <2>3
    <1> QED
      BY <1>5, <1>8, <1>9, <1>10

\* The host ends a stream of its own.
LEMMA DropKeeps ==
    ASSUME IInv, NEW x \in Others, DropStream(x)
    PROVE  IInv'
    <1> DEFINE q == EndStream(x)
    <1>1. x \in Streams /\ x # "own" /\ x \in alive
      BY SessionAssumption DEF Streams, DropStream
    <1>2. "facade" \in alive
      BY <1>1 DEF IInv, FacadeInv
    <1>3. /\ q \in Seq(Steps)
          /\ Range(q) = {<<"shut", x>>, <<"deregister", x>>, <<"drained", x>>, <<"gone", x>>}
          /\ Before(q, <<"deregister", x>>, <<"gone", x>>)
          /\ Before(q, <<"shut", x>>, <<"drained", x>>)
          /\ Before(q, <<"drained", x>>, <<"gone", x>>)
          /\ x \notin {"title", "controller", "facade", "widget"}
      BY <1>1, StreamOrdered
    <1>4. Begin("gui", q) /\ OnlyAgenda
      BY DEF DropStream
    <1> HIDE DEF q
    <1>5. \A a, b : b \notin Range(q) => Before(q, a, b)
      BY <1>3, BeforeFacts
    <1>6. \A o : o # x => <<"gone", o>> \notin Range(q) /\ <<"drained", o>> \notin Range(q)
      BY <1>3
    <1>7. "facade" # x /\ "controller" # x /\ "own" # x
      BY <1>1, <1>3
    <1>8. Ordered(q)
      <2>1. \A o : Before(q, <<"deregister", o>>, <<"gone", o>>)
        BY <1>3, <1>5, <1>6
      <2>2. \A o : Before(q, <<"shut", o>>, <<"drained", o>>)
        BY <1>3, <1>5, <1>6
      <2>3. \A o : Before(q, <<"drained", o>>, <<"gone", o>>)
        BY <1>3, <1>5, <1>6
      <2>4. \A a : Before(q, a, <<"gone", "controller">>) /\ Before(q, a, <<"gone", "facade">>)
        BY <1>5, <1>6, <1>7
      <2> QED
        BY <1>6, <1>7, <2>1, <2>2, <2>3, <2>4 DEF Ordered
    <1>9. <<"gone", "facade">> \notin Range(q) /\ <<"unlock">> \notin Range(q)
      BY <1>3, <1>6, <1>7
    <1>10. Range(q) \cap Notifying = {}
      BY <1>3, Later, NotifyingIs
    <1>11. Leading(q, Notifying) /\ \A o \in Used : <<"use", o>> \notin Range(q)
      BY <1>3, <1>10, NoNotifying
    <1> QED
      BY <1>2, <1>3, <1>4, <1>8, <1>9, <1>11, BeginKeeps

\* The host destroys the session.
LEMMA DestroyKeeps ==
    ASSUME IInv, DestroySession
    PROVE  IInv'
    <1> DEFINE q == EndSession
    <1>1. /\ q \in Seq(Steps) /\ SessionOrder(q) /\ Range(q) = SessionSteps /\ Ending(q)
      BY SessionOrders
    <1>2. Begin("gui", q) /\ OnlyAgenda /\ "facade" \in alive /\ Others \cap alive = {}
      BY DEF DestroySession
    <1> HIDE DEF q
    <1>3. \A a, b : b \notin Range(q) => Before(q, a, b)
      BY <1>1, BeforeFacts
    <1>4. ASSUME NEW x \in Others
          PROVE  <<"gone", x>> \notin Range(q) /\ <<"drained", x>> \notin Range(q)
      <2>1. x \notin {"own", "title", "controller", "facade"}
        BY SessionAssumption
      <2>2. <<"gone", x>> \notin Range(q)
        BY <1>1, <2>1 DEF SessionSteps
      <2>3. <<"drained", x>> \notin Range(q)
        BY <1>1, <2>1 DEF SessionSteps
      <2> QED
        BY <2>2, <2>3
    <1>5. Range(q) \cap {<<"grab">>, <<"receive">>} = {} /\ <<"unlock">> \notin Range(q)
      <2>1. <<"grab">> \notin Range(q)
        BY <1>1 DEF SessionSteps
      <2>2. <<"receive">> \notin Range(q)
        BY <1>1 DEF SessionSteps
      <2>3. <<"unlock">> \notin Range(q)
        BY <1>1 DEF SessionSteps
      <2> QED
        BY <2>1, <2>2, <2>3
    <1>6. Range(q) \cap Notifying = {}
      <2>1. {<<"join">>, <<"stop">>, <<"disconnect">>, <<"drain">>, <<"closed">>}
            \cap Notifying = {}
        BY Apart
      <2>2. {<<"deactivate">>, <<"wait for pool">>} \cap Notifying = {}
        BY Later, NotifyingIs
      <2>3. {<<"shut", "own">>, <<"drained", "own">>} \cap Notifying = {}
        BY Later, NotifyingIs
      <2>4. {<<"deregister", "title">>, <<"deregister", "widget">>, <<"deregister", "own">>,
             <<"deregister", "controller">>} \cap Notifying = {}
        BY Later, NotifyingIs
      <2>5. {<<"gone", "title">>, <<"gone", "own">>, <<"gone", "controller">>,
             <<"gone", "facade">>} \cap Notifying = {}
        BY Later, NotifyingIs
      <2> QED
        BY <1>1, <2>1, <2>2, <2>3, <2>4, <2>5 DEF SessionSteps
    <1>7. Ordered(q)
      <2>1. ASSUME NEW o \in {"title", "controller"} \cup Streams
            PROVE  Before(q, <<"deregister", o>>, <<"gone", o>>)
        BY <1>1, <1>3, <1>4 DEF SessionOrder, Streams
      <2>2. ASSUME NEW x \in Streams
            PROVE  /\ Before(q, <<"shut", x>>, <<"drained", x>>)
                   /\ Before(q, <<"drained", x>>, <<"gone", x>>)
        BY <1>1, <1>3, <1>4 DEF SessionOrder, Streams
      <2> QED
        BY <1>1, <1>5, <2>1, <2>2 DEF Ordered, SessionOrder
    <1>8. Leading(q, Notifying) /\ \A o \in Used : <<"use", o>> \notin Range(q)
      BY <1>1, <1>6, NoNotifying
    <1> QED
      BY <1>1, <1>2, <1>5, <1>7, <1>8, BeginKeeps

\* While the GUI thread has nothing to do there is nothing to order.
LEMMA GuiIdleKeeps ==
    ASSUME agenda["gui"] = << >>, agenda' = agenda, "facade" \in alive'
    PROVE  RegisteredInv' /\ GateInv' /\ ControllerInv' /\ PoolInv' /\ GrabInv' /\ FacadeInv'
    <1>1. << >> \in Seq(Steps) /\ Range(<< >>) \subseteq RunSteps
      BY RangeOfLiteral
    <1>2. Gui' = << >> /\ Ordered(<< >>) /\ <<"gone", "facade">> \notin Range(<< >>)
      BY <1>1, PlainOrdered DEF Gui
    <1>3. RegisteredInv' /\ GateInv'
      BY <1>2 DEF RegisteredInv, GateInv, Gui, Ordered, Streams
    <1>4. ControllerInv' /\ PoolInv' /\ GrabInv'
      BY <1>2 DEF ControllerInv, PoolInv, GrabInv, Gui, Ordered
    <1>5. FacadeInv'
      BY <1>2 DEF FacadeInv, Gui, Ordered
    <1> QED
      BY <1>3, <1>4, <1>5

\* The host makes the dock widgets or a stream.
LEMMA MakeKeeps ==
    ASSUME IInv, CreateDockWidgets \/ \E x \in Others : MakeStream(x)
    PROVE  IInv'
    <1>1. /\ TypeOK /\ NotifyInv /\ MutexInv /\ WorkerInv /\ JoinInv /\ DataInv /\ UseInv
          /\ CallsReachTheLiving /\ FramesReachTheLiving /\ FacadeOutlivesItsThreads
      BY DEF IInv
    <1>2. /\ agenda["gui"] = << >> /\ "facade" \in alive
          /\ UNCHANGED <<facade, threads, delivery, titleActive>>
      BY DEF CreateDockWidgets, MakeStream
    <1>3. /\ UNCHANGED <<isOpened, isGrabbing, stopRequested, stopWorker, stopMutex, connected>>
          /\ UNCHANGED <<agenda, calling, data, pending, serving, leased, titleActive>>
      BY <1>2 DEF facade, threads, delivery
    <1>4. /\ alive \subseteq alive' /\ alive' \subseteq Objects
          /\ statusObservers' \subseteq {"title", "controller", "widget"}
          /\ grabCallbacks' \subseteq Streams /\ shut' \subseteq Streams
          /\ statusObservers' \cup grabCallbacks' \subseteq alive'
          /\ alive \cup shut \subseteq alive' \cup shut'
          /\ "own" \in shut => "own" \in shut'
      <2>1. /\ statusObservers \subseteq {"title", "controller", "widget"}
            /\ grabCallbacks \subseteq Streams /\ shut \subseteq Streams /\ alive \subseteq Objects
            /\ statusObservers \cup grabCallbacks \subseteq alive
        BY <1>1 DEF TypeOK, CallsReachTheLiving
      <2>2. CASE CreateDockWidgets
        BY <2>1, <2>2 DEF CreateDockWidgets, Objects
      <2>3. ASSUME NEW x \in Others, MakeStream(x)
            PROVE  /\ alive \subseteq alive' /\ alive' \subseteq Objects
                   /\ statusObservers' \subseteq {"title", "controller", "widget"}
                   /\ grabCallbacks' \subseteq Streams /\ shut' \subseteq Streams
                   /\ statusObservers' \cup grabCallbacks' \subseteq alive'
                   /\ alive \cup shut \subseteq alive' \cup shut'
                   /\ "own" \in shut => "own" \in shut'
        <3>1. x # "own" /\ x \in Streams /\ x \in Objects
          BY SessionAssumption DEF Streams, Objects
        <3> QED
          BY <2>1, <2>3, <3>1 DEF MakeStream
      <2> QED
        BY <2>2, <2>3
    <1>5. TypeOK'
      BY <1>1, <1>3, <1>4 DEF TypeOK
    <1>6. NotifyInv' /\ MutexInv' /\ WorkerInv' /\ JoinInv'
      BY <1>1, <1>3 DEF NotifyInv, MutexInv, WorkerInv, JoinInv
    <1>7. DataInv' /\ FramesReachTheLiving'
      BY <1>1, <1>3, <1>4 DEF DataInv, FramesReachTheLiving
    <1>8. UseInv' /\ CallsReachTheLiving' /\ FacadeOutlivesItsThreads'
      BY <1>1, <1>2, <1>3, <1>4 DEF UseInv, CallsReachTheLiving, FacadeOutlivesItsThreads
    <1>9. RegisteredInv' /\ GateInv' /\ ControllerInv' /\ PoolInv' /\ GrabInv' /\ FacadeInv'
      BY <1>2, <1>3, <1>4, GuiIdleKeeps
    <1> QED
      BY <1>5, <1>6, <1>7, <1>8, <1>9 DEF IInv

\* The host creates a session.
LEMMA CreateKeeps ==
    ASSUME IInv, CreateSession
    PROVE  IInv'
    <1>1. TypeOK /\ NotifyInv /\ MutexInv /\ DataInv /\ FacadeOutlivesItsThreads
      BY DEF IInv
    <1>2. /\ agenda["gui"] = << >> /\ agenda["pool"] = << >> /\ agenda["worker"] = << >>
          /\ data = "none" /\ pending = {}
      BY <1>1 DEF CreateSession, FacadeOutlivesItsThreads, DataInv
    <1>3. \A u \in Callers : agenda[u] = << >> /\ Range(agenda[u]) = {}
      <2>1. \A u \in Callers : agenda[u] = << >>
        BY <1>2 DEF Callers
      <2> QED
        BY <2>1, RangeOfLiteral
    <1>4. \A u \in Callers : calling[u] = {}
      BY <1>1, <1>3 DEF NotifyInv
    <1>5. /\ isOpened' = FALSE /\ isGrabbing' = FALSE /\ stopRequested' = FALSE
          /\ stopWorker' = FALSE /\ stopMutex' = "none" /\ connected' = FALSE
          /\ statusObservers' = {"controller", "title"} /\ grabCallbacks' = {"own"}
          /\ shut' = {} /\ titleActive' = TRUE
          /\ alive' = {"facade", "title", "controller", "own"}
          /\ UNCHANGED <<agenda, calling, data, pending, serving, leased>>
      BY DEF CreateSession, threads, delivery
    <1>6. TypeOK'
      BY <1>1, <1>5 DEF TypeOK, Objects, Streams
    <1>7. NotifyInv' /\ MutexInv'
      <2>1. "none" \notin Callers
        BY DEF Callers
      <2>2. NotifyInv'
        BY <1>1, <1>5 DEF NotifyInv
      <2>3. \A u \in Callers : Once(agenda[u], <<"unlock">>)
        BY <1>1 DEF MutexInv
      <2> QED
        BY <1>3, <1>5, <2>1, <2>2, <2>3 DEF MutexInv
    <1>8. WorkerInv' /\ JoinInv'
      BY <1>2, <1>5 DEF WorkerInv, JoinInv
    <1>9. DataInv' /\ FramesReachTheLiving' /\ FacadeOutlivesItsThreads'
      BY <1>2, <1>5 DEF DataInv, FramesReachTheLiving, FacadeOutlivesItsThreads
    <1>10. UseInv' /\ CallsReachTheLiving'
      BY <1>3, <1>4, <1>5 DEF UseInv, CallsReachTheLiving
    <1>11. RegisteredInv' /\ GateInv' /\ ControllerInv' /\ PoolInv' /\ GrabInv' /\ FacadeInv'
      BY <1>2, <1>5, GuiIdleKeeps
    <1> QED
      BY <1>6, <1>7, <1>8, <1>9, <1>10, <1>11 DEF IInv

\* The data thread, but for its call of the stop worker.
LEMMA DataKeeps ==
    ASSUME IInv, DataTake \/ (\E x \in Streams : DataCall(x)) \/ DataUse \/ DataCount
    PROVE  IInv'
    <1>1. /\ TypeOK /\ NotifyInv /\ MutexInv /\ WorkerInv /\ JoinInv /\ DataInv /\ RegisteredInv
          /\ GateInv /\ ControllerInv /\ PoolInv /\ GrabInv /\ FacadeInv /\ UseInv
          /\ CallsReachTheLiving /\ FramesReachTheLiving /\ FacadeOutlivesItsThreads
      BY DEF IInv
    <1>2. /\ UNCHANGED <<isOpened, isGrabbing, stopWorker, stopMutex, connected>>
          /\ UNCHANGED <<statusObservers, grabCallbacks, agenda, calling, shut, titleActive, alive>>
      BY DEF DataTake, DataCall, DataUse, DataCount, facade, registries, threads, observers
    <1>3. data # "none" /\ stopRequested' \in BOOLEAN
      BY <1>1 DEF DataTake, DataCall, DataUse, DataCount, facade, TypeOK
    <1>4. /\ data' \in {"loop", "call", "use", "spawn", "done"}
          /\ pending' \subseteq Streams /\ pending' \subseteq alive \cup shut
          /\ data' \in {"none", "done"} => pending' = {}
          /\ serving' \in Streams \cup {"none"} /\ leased' \subseteq Streams
          /\ \A x \in leased' \ leased : x \notin shut
          /\ data' = "use" => /\ serving' \in leased' /\ serving' \in alive
                              /\ serving' = "own" => "controller" \in alive
      <2>1. /\ pending \subseteq Streams /\ serving \in Streams \cup {"none"}
            /\ leased \subseteq Streams
            /\ grabCallbacks \subseteq Streams /\ grabCallbacks \subseteq alive
            /\ pending \subseteq alive \cup shut
            /\ "controller" \in alive \/ "own" \in shut
        BY <1>1 DEF TypeOK, CallsReachTheLiving, DataInv
      <2>2. CASE DataTake
        BY <2>1, <2>2 DEF DataTake
      <2>3. ASSUME NEW x \in Streams, DataCall(x), x \in shut
            PROVE  data' = "call" /\ pending' \subseteq pending /\ UNCHANGED <<serving, leased>>
        BY <2>3 DEF DataCall
      <2>4. ASSUME NEW x \in Streams, DataCall(x), x \notin shut
            PROVE  /\ data' = "use" /\ pending' \subseteq pending
                   /\ serving' = x /\ leased' = leased \cup {x} /\ x \in pending
        BY <2>4 DEF DataCall
      <2>5. CASE \E x \in Streams : DataCall(x)
        <3>1. PICK x \in Streams : DataCall(x)
          BY <2>5
        <3>2. CASE x \in shut
          <4>1. data' = "call" /\ pending' \subseteq pending /\ UNCHANGED <<serving, leased>>
            BY <2>3, <3>1, <3>2
          <4> QED
            BY <2>1, <4>1
        <3>3. CASE x \notin shut
          <4>1. /\ data' = "use" /\ pending' \subseteq pending
                /\ serving' = x /\ leased' = leased \cup {x} /\ x \in pending
            BY <2>4, <3>1, <3>3
          <4>2. x \in alive /\ (x = "own" => "controller" \in alive)
            BY <2>1, <3>3, <4>1
          <4> QED
            BY <2>1, <3>3, <4>1, <4>2
        <3> QED
          BY <3>2, <3>3
      <2>6. CASE DataUse
        BY <2>1, <2>6 DEF DataUse
      <2>7. CASE DataCount
        BY <2>1, <2>7 DEF DataCount
      <2> QED
        BY <2>2, <2>5, <2>6, <2>7
    <1>5. TypeOK'
      BY <1>1, <1>2, <1>3, <1>4 DEF TypeOK
    <1>6. NotifyInv' /\ MutexInv' /\ WorkerInv' /\ JoinInv'
      BY <1>1, <1>2 DEF NotifyInv, MutexInv, WorkerInv, JoinInv
    <1>7. DataInv' /\ FramesReachTheLiving'
      BY <1>1, <1>2, <1>4 DEF DataInv, FramesReachTheLiving
    <1>8. RegisteredInv' /\ PoolInv' /\ GrabInv'
      BY <1>1, <1>2 DEF RegisteredInv, PoolInv, GrabInv, Before, Gui
    <1>9. GateInv'
      <2>1. ASSUME NEW x \in Streams
            PROVE  /\ Before(Gui, <<"shut", x>>, <<"drained", x>>)' \/ x \in shut'
                   /\ \/ Before(Gui, <<"drained", x>>, <<"gone", x>>)'
                      \/ x \in shut' /\ x \notin leased'
        <3>1. /\ Before(Gui, <<"shut", x>>, <<"drained", x>>) \/ x \in shut
              /\ \/ Before(Gui, <<"drained", x>>, <<"gone", x>>)
                 \/ x \in shut /\ x \notin leased
          BY <1>1 DEF GateInv
        <3>2. Gui' = Gui
          BY <1>2 DEF Gui
        <3> QED
          BY <1>2, <1>4, <3>1, <3>2 DEF Before
      <2> QED
        BY <2>1 DEF GateInv, Streams
    <1>10. ControllerInv'
      <2>1. Gui' = Gui
        BY <1>2 DEF Gui
      <2> QED
        BY <1>1, <1>2, <1>4, <2>1 DEF ControllerInv, Before
    <1>11. FacadeInv'
      <2>1. Gui' = Gui
        BY <1>2 DEF Gui
      <2>2. Before(Gui, <<"drain">>, <<"gone", "facade">>)'
        BY <1>1, <1>3, <2>1 DEF FacadeInv, Before
      <2>3. LastJoin => LastJoin'
        BY <1>2, <2>1 DEF LastJoin, Once
      <2> QED
        BY <1>1, <1>2, <2>1, <2>2, <2>3 DEF FacadeInv
    <1>12. UseInv' /\ CallsReachTheLiving'
      BY <1>1, <1>2 DEF UseInv, CallsReachTheLiving
    <1>13. FacadeOutlivesItsThreads'
      BY <1>1, <1>2, <1>3 DEF FacadeOutlivesItsThreads
    <1> QED
      BY <1>5, <1>6, <1>7, <1>8, <1>9, <1>10, <1>11, <1>12, <1>13 DEF IInv

\* The data thread has the worker stop.
LEMMA SpawnKeeps ==
    ASSUME IInv, DataSpawn
    PROVE  IInv'
    <1>1. /\ TypeOK /\ NotifyInv /\ MutexInv /\ WorkerInv /\ JoinInv /\ DataInv /\ RegisteredInv
          /\ GateInv /\ ControllerInv /\ PoolInv /\ GrabInv /\ FacadeInv /\ UseInv
          /\ CallsReachTheLiving /\ FramesReachTheLiving /\ FacadeOutlivesItsThreads
      BY DEF IInv
    <1>2. /\ data = "spawn" /\ data' = "loop" /\ stopWorker' = TRUE
          /\ \/ agenda' = agenda
             \/ agenda["worker"] = << >> /\ agenda' = [agenda EXCEPT !["worker"] = Stop]
          /\ UNCHANGED <<isOpened, isGrabbing, stopRequested, stopMutex, connected>>
          /\ UNCHANGED <<statusObservers, grabCallbacks, calling, pending, serving, leased>>
          /\ UNCHANGED <<shut, titleActive, alive>>
      BY DEF DataSpawn, Begin, registries, observers
    <1>3. "gui" \in Callers /\ "pool" \in Callers /\ "worker" \in Callers
      BY DEF Callers
    <1>4. /\ agenda'["gui"] = agenda["gui"] /\ agenda'["pool"] = agenda["pool"]
          /\ \/ agenda'["worker"] = agenda["worker"]
             \/ agenda["worker"] = << >> /\ agenda'["worker"] = Stop
      BY <1>1, <1>2, <1>3 DEF TypeOK
    <1>5. /\ Stop \in Seq(StopSteps) /\ Range(Stop) = {<<"stop">>} /\ Head(Stop) = <<"stop">>
          /\ Len(Stop) = 1
      <2>1. <<"stop">> \in StopSteps
        BY DEF StopSteps
      <2>2. Head(Stop) = <<"stop">> /\ Len(Stop) = 1
        BY DEF Stop
      <2> QED
        BY <2>1, <2>2, OneStep, RangeOfLiteral DEF Stop
    <1>6. Range(<< >>) = {}
      BY RangeOfLiteral
    <1>7. Gui' = Gui
      BY <1>4 DEF Gui
    <1>8. TypeOK'
      <2>1. StopSteps \subseteq Steps
        BY NotifyingIs DEF Steps
      <2>2. Stop \in Seq(Steps)
        BY <1>5, <2>1, SeqMonotonic
      <2>3. agenda' \in [Callers -> Seq(Steps)]
        BY <1>1, <1>2, <2>2 DEF TypeOK
      <2>4. agenda'["pool"] \in Seq(PoolSteps) /\ agenda'["worker"] \in Seq(StopSteps)
        BY <1>1, <1>4, <1>5 DEF TypeOK
      <2> QED
        BY <1>1, <1>2, <2>3, <2>4 DEF TypeOK
    <1>9. NotifyInv'
      <2>1. Leading(Stop, Notifying)
        <3>1. \A i \in 1 .. Len(Stop) : 1 .. i - 1 = {}
          BY <1>5
        <3> QED
          BY <3>1 DEF Leading
      <2>2. ASSUME NEW u \in Callers
            PROVE  /\ Leading(agenda'[u], Notifying)
                   /\ calling'[u] # {} => \E e \in Events : <<"call", e>> \in Range(agenda'[u])
        <3>1. CASE agenda'[u] = agenda[u]
          BY <1>1, <1>2, <3>1 DEF NotifyInv
        <3>2. CASE u = "worker" /\ agenda["worker"] = << >> /\ agenda'["worker"] = Stop
          BY <1>1, <1>2, <1>3, <1>6, <2>1, <3>2 DEF NotifyInv
        <3> QED
          BY <1>4, <3>1, <3>2 DEF Callers
      <2> QED
        BY <2>2 DEF NotifyInv
    <1>10. MutexInv'
      <2>1. <<"unlock">> \notin Range(Stop) /\ Once(Stop, <<"unlock">>)
        <3>1. <<"unlock">> # <<"stop">>
          OBVIOUS
        <3>2. \A i, j \in 1 .. Len(Stop) : i = j
          BY <1>5
        <3> QED
          BY <1>5, <3>1, <3>2 DEF Once
      <2>2. ASSUME NEW u \in Callers
            PROVE  /\ <<"unlock">> \in Range(agenda'[u]) <=> stopMutex' = u
                   /\ Once(agenda'[u], <<"unlock">>)
        <3>1. CASE agenda'[u] = agenda[u]
          BY <1>1, <1>2, <3>1 DEF MutexInv
        <3>2. CASE u = "worker" /\ agenda["worker"] = << >> /\ agenda'["worker"] = Stop
          <4>1. stopMutex # "worker"
            BY <1>1, <1>3, <1>6, <3>2 DEF MutexInv
          <4> QED
            BY <1>2, <2>1, <3>2, <4>1
        <3> QED
          BY <1>4, <3>1, <3>2 DEF Callers
      <2> QED
        BY <2>2 DEF MutexInv
    <1>11. WorkerInv' /\ JoinInv'
      BY <1>1, <1>2, <1>4 DEF WorkerInv, JoinInv, Stop
    <1>12. DataInv' /\ FramesReachTheLiving'
      BY <1>1, <1>2 DEF DataInv, FramesReachTheLiving
    <1>13. RegisteredInv' /\ GateInv' /\ ControllerInv' /\ PoolInv' /\ GrabInv'
      <2>1. RegisteredInv' /\ GateInv'
        BY <1>1, <1>2, <1>7 DEF RegisteredInv, GateInv, Before, Streams
      <2>2. ControllerInv'
        BY <1>1, <1>2, <1>7 DEF ControllerInv, Before
      <2>3. PoolInv' /\ GrabInv'
        BY <1>1, <1>2, <1>4, <1>7 DEF PoolInv, GrabInv, Before
      <2> QED
        BY <2>1, <2>2, <2>3
    <1>14. FacadeInv'
      <2>1. Before(Gui, <<"drain">>, <<"gone", "facade">>)
        BY <1>1, <1>2 DEF FacadeInv
      <2>2. ASSUME <<"gone", "facade">> \in Range(Gui)
            PROVE  LastJoin'
        <3>1. Gui \in Seq(Steps)
          BY <1>1, <1>3 DEF Gui, TypeOK
        <3>2. <<"drain">> \in Range(Gui)
          BY <2>1, <2>2, <3>1, BeforeFacts
        <3>3. ASSUME Gui \in {<< <<"joining">>, <<"gone", "facade">> >>, << <<"gone", "facade">> >>}
              PROVE  FALSE
          <4>1. <<"drain">> \notin {<<"joining">>, <<"gone", "facade">>}
            OBVIOUS
          <4>2. /\ Range(<< <<"joining">>, <<"gone", "facade">> >>) =
                       {<<"joining">>, <<"gone", "facade">>}
                /\ Range(<< <<"gone", "facade">> >>) = {<<"gone", "facade">>}
            BY RangeOfLiteral
          <4>3. CASE Gui = << <<"joining">>, <<"gone", "facade">> >>
            BY <3>2, <4>1, <4>2, <4>3
          <4>4. CASE Gui = << <<"gone", "facade">> >>
            BY <3>2, <4>1, <4>2, <4>4
          <4> QED
            BY <3>3, <4>3, <4>4
        <3>4. LastJoin
          BY <1>1, <2>2 DEF FacadeInv
        <3> QED
          BY <1>7, <3>3, <3>4 DEF LastJoin, Once
      <2> QED
        BY <1>1, <1>2, <1>7, <2>1, <2>2 DEF FacadeInv, Before
    <1>15. UseInv'
      <2>1. ASSUME NEW u \in Callers, NEW o \in Used \ {"host"}, <<"use", o>> \in Range(agenda'[u])
            PROVE  o \in alive'
        <3>1. <<"use", o>> # <<"stop">>
          OBVIOUS
        <3>2. <<"use", o>> \in Range(agenda[u])
          BY <1>4, <1>5, <2>1, <3>1 DEF Callers
        <3> QED
          BY <1>1, <1>2, <3>2 DEF UseInv
      <2> QED
        BY <1>1, <1>2, <2>1 DEF UseInv
    <1>16. CallsReachTheLiving'
      <2>1. ASSUME NEW u \in Callers, agenda'[u] # << >>, NEW o \in Used \ {"host"},
                   Head(agenda'[u]) = <<"use", o>>
            PROVE  o \in alive'
        <3>1. agenda'[u] \in Seq(Steps)
          BY <1>8 DEF TypeOK
        <3>2. <<"use", o>> \in Range(agenda'[u])
          BY <2>1, <3>1, HeadIn
        <3> QED
          BY <1>15, <3>2 DEF UseInv
      <2> QED
        BY <1>1, <1>2, <2>1 DEF CallsReachTheLiving
    <1>17. FacadeOutlivesItsThreads'
      BY <1>1, <1>2 DEF FacadeOutlivesItsThreads
    <1> QED
      BY <1>8, <1>9, <1>10, <1>11, <1>12, <1>13, <1>14, <1>15, <1>16, <1>17 DEF IInv

\* The link breaks, or nothing happens.
LEMMA LinkKeeps ==
    ASSUME IInv, LinkDrop \/ UNCHANGED vars
    PROVE  IInv'
    <1>1. /\ connected' \in BOOLEAN
          /\ UNCHANGED <<isOpened, isGrabbing, stopRequested, stopWorker, stopMutex>>
          /\ UNCHANGED <<statusObservers, grabCallbacks, agenda, calling, data, pending>>
          /\ UNCHANGED <<serving, leased, shut, titleActive, alive>>
      BY DEF LinkDrop, vars, facade, registries, threads, delivery, observers, IInv, TypeOK
    <1>2. Gui' = Gui
      BY <1>1 DEF Gui
    <1>3. TypeOK'
      BY <1>1 DEF IInv, TypeOK
    <1>4. NotifyInv' /\ MutexInv' /\ WorkerInv' /\ JoinInv'
      BY <1>1 DEF IInv, NotifyInv, MutexInv, WorkerInv, JoinInv
    <1>5. DataInv' /\ FramesReachTheLiving' /\ UseInv'
      BY <1>1 DEF IInv, DataInv, FramesReachTheLiving, UseInv
    <1>6. RegisteredInv' /\ GateInv'
      BY <1>1, <1>2 DEF IInv, RegisteredInv, GateInv, Before, Streams
    <1>7. ControllerInv' /\ PoolInv' /\ GrabInv'
      BY <1>1, <1>2 DEF IInv, ControllerInv, PoolInv, GrabInv, Before
    <1>8. FacadeInv'
      <2>1. LastJoin => LastJoin'
        BY <1>1, <1>2 DEF LastJoin, Once
      <2> QED
        BY <1>1, <1>2, <2>1 DEF IInv, FacadeInv, Before
    <1>9. CallsReachTheLiving' /\ FacadeOutlivesItsThreads'
      BY <1>1 DEF IInv, CallsReachTheLiving, FacadeOutlivesItsThreads
    <1> QED
      BY <1>3, <1>4, <1>5, <1>6, <1>7, <1>8, <1>9 DEF IInv

-----------------------------------------------------------------------------
(* The invariant.                                                          *)

\* Initially the invariant holds.
LEMMA Initial ==
    ASSUME Init
    PROVE  IInv
    <1>1. /\ agenda["gui"] = << >> /\ agenda["pool"] = << >> /\ agenda["worker"] = << >>
          /\ agenda \in [Callers -> Seq(Steps)]
          /\ \A u \in Callers : agenda[u] = << >>
      BY DEF Init, Callers
    <1>2. << >> \in Seq(Steps) /\ Range(<< >>) = {} /\ Len(<< >>) = 0
      BY RangeOfLiteral
    <1>3. TypeOK
      <2>1. agenda["pool"] \in Seq(PoolSteps) /\ agenda["worker"] \in Seq(StopSteps)
        BY <1>1
      <2>2. calling \in [Callers -> SUBSET {"title", "controller", "widget"}]
        BY DEF Init
      <2> QED
        BY <1>1, <2>1, <2>2 DEF Init, TypeOK, Objects, Streams
    <1>4. NotifyInv /\ MutexInv /\ WorkerInv /\ JoinInv
      <2>1. Leading(<< >>, Notifying) /\ Once(<< >>, <<"unlock">>)
        BY <1>2 DEF Leading, Once
      <2>2. \A u \in Callers : calling[u] = {} /\ Range(agenda[u]) = {} /\ u # "none"
        BY <1>1, <1>2 DEF Init, Callers
      <2>3. NotifyInv
        BY <1>1, <2>1, <2>2 DEF NotifyInv
      <2>4. MutexInv
        BY <1>1, <2>1, <2>2 DEF MutexInv, Init
      <2> QED
        BY <1>1, <2>3, <2>4 DEF WorkerInv, JoinInv
    <1>5. DataInv /\ FramesReachTheLiving /\ FacadeOutlivesItsThreads
      BY DEF Init, DataInv, FramesReachTheLiving, FacadeOutlivesItsThreads
    <1>6. UseInv /\ CallsReachTheLiving
      <2>1. \A u \in Callers : calling[u] = {} /\ Range(agenda[u]) = {}
        BY <1>1, <1>2 DEF Init
      <2> QED
        BY <1>1, <2>1 DEF Init, UseInv, CallsReachTheLiving
    <1>7. Ordered(<< >>) /\ Gui = << >> /\ "facade" \in alive
      <2>1. Range(<< >>) \subseteq RunSteps
        BY <1>2
      <2> QED
        BY <1>1, <1>2, <2>1, PlainOrdered DEF Gui, Init
    <1>8. RegisteredInv /\ GateInv
      BY <1>7 DEF RegisteredInv, GateInv, Ordered, Streams
    <1>9. ControllerInv /\ PoolInv /\ GrabInv
      BY <1>7 DEF ControllerInv, PoolInv, GrabInv, Ordered
    <1>10. FacadeInv
      BY <1>2, <1>7 DEF FacadeInv, Ordered
    <1> QED
      BY <1>3, <1>4, <1>5, <1>6, <1>8, <1>9, <1>10 DEF IInv

\* Every step of the system keeps the invariant.
LEMMA NextKeeps ==
    ASSUME IInv, [Next]_vars
    PROVE  IInv'
    <1>1. TypeOK
      BY DEF IInv
    <1>2. CASE Call
      <2>1. CASE CallGrab \/ CallStop
        BY <2>1, GrabCallKeeps
      <2>2. CASE ConnectToggled \/ AskFacade
        BY <2>2, PoolCallKeeps
      <2>3. CASE CreateDockWidgets \/ \E x \in Others : MakeStream(x)
        BY <2>3, MakeKeeps
      <2>4. CASE \E x \in Others : DropStream(x)
        BY <2>4, DropKeeps
      <2>5. CASE DestroySession
        BY <2>5, DestroyKeeps
      <2>6. CASE CreateSession
        BY <2>6, CreateKeeps
      <2> QED
        BY <1>2, <2>1, <2>2, <2>3, <2>4, <2>5, <2>6 DEF Call
    <1>3. CASE TearDown
      <2>1. PICK s : Step("gui", s, << >>)
        BY <1>1, <1>3, TearDownIsStep
      <2>2. "gui" \in Callers
        BY DEF Callers
      <2> QED
        BY <2>1, <2>2, StepKeeps
    <1>4. CASE \E t \in Callers : Perform(t)
      <2>1. PICK t \in Callers : Perform(t)
        BY <1>4
      <2>2. PICK s, more : Step(t, s, more)
        BY <1>1, <2>1, PerformIsStep
      <2> QED
        BY <2>2, StepKeeps
    <1>5. CASE DataThread
      <2>1. CASE DataSpawn
        BY <2>1, SpawnKeeps
      <2>2. CASE DataTake \/ (\E x \in Streams : DataCall(x)) \/ DataUse \/ DataCount
        BY <2>2, DataKeeps
      <2> QED
        BY <1>5, <2>1, <2>2 DEF DataThread
    <1>6. CASE LinkDrop \/ UNCHANGED vars
      BY <1>6, LinkKeeps
    <1> QED
      BY <1>2, <1>3, <1>4, <1>5, <1>6 DEF Next

\* The invariant always holds.
LEMMA Invariance == Spec => []IInv
    BY Initial, NextKeeps, PTL DEF Spec

\* TypeOK always holds: a thread only ever has the steps to do that are its own, the
\* worker of Gocator.cpp:433 those of stop() and the widget's pool those of open(),
\* close() and the operations.
THEOREM TypeCorrect == Spec => []TypeOK
    <1>1. IInv => TypeOK
      BY DEF IInv
    <1> QED
      BY <1>1, Invariance, PTL

\* A notification of Gocator.cpp:179 that is under way calls only living observers, and
\* no registration of a destroyed one is left, for any number of other streams.
THEOREM CallsReachTheLivingHolds == Spec => []CallsReachTheLiving
    <1>1. IInv => CallsReachTheLiving
      BY DEF IInv
    <1> QED
      BY <1>1, Invariance, PTL

\* The gate of GocatorGraphicsFrameStream.cpp:83 lets no data set reach a stream that is
\* destroyed, nor the stream's frames a controller that is.
THEOREM FramesReachTheLivingHolds == Spec => []FramesReachTheLiving
    <1>1. IInv => FramesReachTheLiving
      BY DEF IInv
    <1> QED
      BY <1>1, Invariance, PTL

\* ~Gocator leaves no stop worker, no data thread and no operation of the widget behind.
THEOREM FacadeOutlivesItsThreadsHolds == Spec => []FacadeOutlivesItsThreads
    <1>1. IInv => FacadeOutlivesItsThreads
      BY DEF IInv
    <1> QED
      BY <1>1, Invariance, PTL

=============================================================================
