------------------------- MODULE ControlWidgetProofs -------------------------
(***************************************************************************)
(* For every pool and every number of waiting events: once things have     *)
(* settled no control is locked and the label is right; the controls of    *)
(* the connection and of an acquisition show what the facade does, but for *)
(* the cases that the properties name; and no connection is reset under an *)
(* acquisition that did not begin inside close().                          *)
(***************************************************************************)
EXTENDS ControlWidgetProperties, SequenceTheorems, TLAPS

-----------------------------------------------------------------------------
(* What the functions of the controls do. *)

Status(u) == IF ~isOpened THEN "Idle" ELSE IF u.grabbing THEN "Live" ELSE "Connected"

\* No other part of what the handlers keep, or of what Live and Connect show, is different.
Keeps(u, v) ==
    /\ v.connectChecked = u.connectChecked /\ v.grabbing = u.grabbing
    /\ v.liveChecked = u.liveChecked /\ v.parameterUpdateActive = u.parameterUpdateActive

\* updateStatusLabel() changes the label alone.
LEMMA LabelIs ==
    ASSUME NEW u \in Controls, isOpened \in BOOLEAN
    PROVE  LET v == UpdateStatusLabel(u)
           IN  /\ v \in Controls /\ Keeps(u, v) /\ v.label = Status(v)
               /\ v.connectOn = u.connectOn /\ v.refreshOn = u.refreshOn
               /\ v.oneOn = u.oneOn /\ v.liveOn = u.liveOn /\ v.editors = u.editors
  BY DEF UpdateStatusLabel, Controls, Status, Keeps

\* setConnectionOperationActive() settles Connect and Refresh, and the label.
LEMMA ActiveIs ==
    ASSUME NEW u \in Controls, NEW a \in BOOLEAN, isOpened \in BOOLEAN
    PROVE  LET v == SetConnectionOperationActive(u, a)
           IN  /\ v \in Controls /\ Keeps(u, v) /\ v.label = Status(v)
               /\ v.connectOn = ~a /\ v.refreshOn = (~a /\ ~isOpened)
               /\ v.oneOn = u.oneOn /\ v.liveOn = u.liveOn /\ v.editors = u.editors
  <1> DEFINE w == [u EXCEPT !.refreshOn = ~a /\ ~isOpened, !.connectOn = ~a]
  <1>1. /\ w \in Controls /\ Keeps(u, w)
        /\ w.connectOn = ~a /\ w.refreshOn = (~a /\ ~isOpened)
        /\ w.oneOn = u.oneOn /\ w.liveOn = u.liveOn /\ w.editors = u.editors
    BY DEF Controls, Keeps
  <1>2. SetConnectionOperationActive(u, a) = UpdateStatusLabel(w)
    BY DEF SetConnectionOperationActive
  <1> HIDE DEF w
  <1> QED
    BY <1>1, <1>2, LabelIs DEF Keeps

\* setFeatureEditorsEnabled() changes the editors alone.
LEMMA EditorsIs ==
    ASSUME NEW u \in Controls, NEW a \in BOOLEAN
    PROVE  LET v == EditorsEnabled(u, a)
           IN  /\ v \in Controls /\ Keeps(u, v) /\ v.label = u.label
               /\ v.connectOn = u.connectOn /\ v.refreshOn = u.refreshOn
               /\ v.oneOn = u.oneOn /\ v.liveOn = u.liveOn
               /\ IF a THEN v.editors # "off" ELSE v.editors # "on"
  BY DEF EditorsEnabled, Controls, Keeps

\* setRunningState() settles GrabOne, Live and the editors.
LEMMA RunningIs ==
    ASSUME NEW u \in Controls, NEW on \in BOOLEAN, isOpened \in BOOLEAN
    PROVE  LET v == SetRunningState(u, on)
           IN  /\ v \in Controls /\ Keeps(u, v) /\ v.label = u.label
               /\ v.connectOn = u.connectOn /\ v.refreshOn = u.refreshOn
               /\ v.oneOn = (isOpened /\ ~on) /\ v.liveOn = isOpened
               /\ IF on \/ u.parameterUpdateActive THEN v.editors # "on" ELSE v.editors # "off"
  <1> DEFINE w == [u EXCEPT !.oneOn = isOpened /\ ~on, !.liveOn = isOpened]
             enabled == ~on /\ ~u.parameterUpdateActive
  <1>1. /\ w \in Controls /\ Keeps(u, w) /\ w.label = u.label
        /\ w.connectOn = u.connectOn /\ w.refreshOn = u.refreshOn
        /\ w.oneOn = (isOpened /\ ~on) /\ w.liveOn = isOpened
    BY DEF Controls, Keeps
  <1>2. enabled \in BOOLEAN /\ (enabled <=> ~(on \/ u.parameterUpdateActive))
    BY DEF Controls
  <1>3. SetRunningState(u, on) = EditorsEnabled(w, enabled)
    BY DEF SetRunningState
  <1> HIDE DEF w, enabled
  <1> QED
    BY <1>1, <1>2, <1>3, EditorsIs DEF Keeps

\* A parameter call leaves nothing enabled.
LEMMA BusyIs ==
    ASSUME NEW u \in Controls, isOpened \in BOOLEAN
    PROVE  LET v == Busy(u)
           IN  /\ v \in Controls /\ Keeps(u, v) /\ v.label = Status(v)
               /\ ~v.connectOn /\ ~v.refreshOn /\ ~v.oneOn /\ ~v.liveOn /\ v.editors # "on"
  <1> DEFINE s == SetConnectionOperationActive(u, TRUE)
             w == [s EXCEPT !.oneOn = FALSE, !.liveOn = FALSE]
  <1>1. /\ s \in Controls /\ Keeps(u, s) /\ s.label = Status(s)
        /\ ~s.connectOn /\ ~s.refreshOn
    BY ActiveIs
  <1>2. Busy(u) = EditorsEnabled(w, FALSE)
    BY DEF Busy
  <1> HIDE DEF s
  <1>3. /\ w \in Controls /\ Keeps(u, w) /\ w.label = s.label /\ w.grabbing = s.grabbing
        /\ ~w.connectOn /\ ~w.refreshOn /\ ~w.oneOn /\ ~w.liveOn
    BY <1>1 DEF Controls, Keeps
  <1> HIDE DEF w
  <1> DEFINE v == EditorsEnabled(w, FALSE)
  <1>4. FALSE \in BOOLEAN
    OBVIOUS
  <1>5. /\ v \in Controls /\ Keeps(w, v) /\ v.label = w.label
        /\ v.connectOn = w.connectOn /\ v.refreshOn = w.refreshOn
        /\ v.oneOn = w.oneOn /\ v.liveOn = w.liveOn /\ v.editors # "on"
    BY <1>3, <1>4, EditorsIs
  <1> HIDE DEF v
  <1>6. Busy(u) = v
    BY <1>2 DEF v
  <1>7. Keeps(u, v) /\ v.label = Status(v)
    BY <1>1, <1>3, <1>5 DEF Keeps, Status
  <1> QED
    BY <1>3, <1>5, <1>6, <1>7

\* applyConnectionState(false) settles every control but Connect's check.
LEMMA DisconnectedIs ==
    ASSUME NEW u \in Controls, isOpened \in BOOLEAN
    PROVE  LET v == Disconnected(u)
           IN  /\ v \in Controls /\ v.label = Status(v)
               /\ v.connectChecked = u.connectChecked
               /\ v.parameterUpdateActive = u.parameterUpdateActive
               /\ ~v.grabbing /\ ~v.liveChecked /\ v.connectOn /\ v.refreshOn
               /\ v.oneOn = isOpened /\ v.liveOn = isOpened /\ v.editors = "none"
  <1> DEFINE w == [u EXCEPT !.refreshOn = TRUE, !.connectOn = TRUE,
                            !.liveChecked = FALSE, !.grabbing = FALSE]
             l == UpdateStatusLabel(w)
             s == SetRunningState(l, FALSE)
  <1>1. /\ w \in Controls /\ w.refreshOn /\ w.connectOn /\ ~w.liveChecked /\ ~w.grabbing
        /\ w.connectChecked = u.connectChecked
        /\ w.parameterUpdateActive = u.parameterUpdateActive
    BY DEF Controls
  <1>2. Disconnected(u) = [s EXCEPT !.editors = "none", !.current = TRUE]
    BY DEF Disconnected
  <1> HIDE DEF w
  <1>3. l \in Controls /\ Keeps(w, l) /\ l.label = Status(l) /\ l.refreshOn /\ l.connectOn
    BY <1>1, LabelIs
  <1> HIDE DEF l
  <1>4. /\ s \in Controls /\ Keeps(l, s) /\ s.label = l.label /\ s.refreshOn /\ s.connectOn
        /\ s.oneOn = isOpened /\ s.liveOn = isOpened
    BY <1>3, RunningIs
  <1>5. /\ s \in Controls /\ s.label = Status(s)
        /\ s.connectChecked = u.connectChecked
        /\ s.parameterUpdateActive = u.parameterUpdateActive
        /\ ~s.grabbing /\ ~s.liveChecked /\ s.connectOn /\ s.refreshOn
        /\ s.oneOn = isOpened /\ s.liveOn = isOpened
    BY <1>1, <1>3, <1>4 DEF Keeps, Status
  <1> HIDE DEF s
  <1> QED
    BY <1>2, <1>5 DEF Controls, Status

\* applyConnectionState(true) leaves what the widget keeps alone.
LEMMA ConnectedIs ==
    ASSUME NEW u \in Controls, isOpened \in BOOLEAN, NEW v \in Connected(u)
    PROVE  /\ v \in Controls /\ Keeps(u, v) /\ v.label = Status(v)
           /\ v.connectOn /\ ~v.refreshOn
           /\ v.oneOn = isOpened /\ v.liveOn = isOpened
           /\ isOpened => v.editors # "off"
  <1> DEFINE w == [u EXCEPT !.refreshOn = FALSE, !.connectOn = TRUE]
             l == UpdateStatusLabel(w)
             s == SetRunningState(l, FALSE)
  <1>1. w \in Controls /\ Keeps(u, w) /\ ~w.refreshOn /\ w.connectOn
    BY DEF Controls, Keeps
  <1>2. IF isOpened THEN \E e \in {"none", "on"} : v = [s EXCEPT !.editors = e, !.current = TRUE]
                    ELSE v = s
    BY DEF Connected
  <1> HIDE DEF w
  <1>3. l \in Controls /\ Keeps(w, l) /\ l.label = Status(l) /\ ~l.refreshOn /\ l.connectOn
    BY <1>1, LabelIs
  <1> HIDE DEF l
  <1>4. /\ s \in Controls /\ Keeps(l, s) /\ s.label = l.label /\ ~s.refreshOn /\ s.connectOn
        /\ s.oneOn = isOpened /\ s.liveOn = isOpened
    BY <1>3, RunningIs
  <1>5. s.label = Status(s) /\ Keeps(u, s)
    BY <1>1, <1>3, <1>4 DEF Keeps, Status
  <1> HIDE DEF s
  <1>6. CASE isOpened
    <2>1. PICK e \in {"none", "on"} : v = [s EXCEPT !.editors = e, !.current = TRUE]
      BY <1>2, <1>6
    <2> QED
      BY <1>4, <1>5, <1>6, <2>1 DEF Controls, Keeps, Status
  <1> QED
    BY <1>2, <1>4, <1>5, <1>6

-----------------------------------------------------------------------------
(* Events that wait. *)

Of(kinds, values) == [of : kinds, on : values]

\* An event of S waits.
Waits(q, S) == \E i \in DOMAIN q : q[i] \in S

\* After every event of W waits one of R, which is handled later.
Redressed(q, W, R) == \A i \in DOMAIN q : q[i] \in W => \E j \in DOMAIN q : j > i /\ q[j] \in R

\* The first event is taken.
LEMMA TailWaits ==
    ASSUME NEW E, NEW q \in Seq(E), q # << >>, NEW W, NEW R
    PROVE  /\ Tail(q) \in Seq(E) /\ Head(q) \in E
           /\ Waits(q, R) <=> Head(q) \in R \/ Waits(Tail(q), R)
           /\ Redressed(q, W, R) => Redressed(Tail(q), W, R)
           /\ Redressed(q, W, R) /\ Head(q) \in W => Waits(Tail(q), R)
  <1>1. /\ Tail(q) \in Seq(E) /\ Len(q) \in Nat /\ Len(q) >= 1 /\ Len(Tail(q)) = Len(q) - 1
        /\ DOMAIN q = 1 .. Len(q) /\ DOMAIN Tail(q) = 1 .. Len(q) - 1
        /\ Head(q) = q[1] /\ Head(q) \in E
    OBVIOUS
  <1>2. \A i \in 1 .. Len(q) - 1 : Tail(q)[i] = q[i + 1] /\ i + 1 \in 1 .. Len(q)
    BY <1>1
  <1>3. \A i \in 1 .. Len(q) : i = 1 \/ (i - 1 \in 1 .. Len(q) - 1 /\ Tail(q)[i - 1] = q[i])
    BY <1>1, <1>2
  <1>4. Waits(q, R) <=> Head(q) \in R \/ Waits(Tail(q), R)
    <2>1. Waits(Tail(q), R) => Waits(q, R)
      BY <1>1, <1>2 DEF Waits
    <2>2. Head(q) \in R => Waits(q, R)
      <3>1. 1 \in 1 .. Len(q)
        BY <1>1
      <3> QED
        BY <1>1, <3>1 DEF Waits
    <2>3. Waits(q, R) => Head(q) \in R \/ Waits(Tail(q), R)
      BY <1>1, <1>3 DEF Waits
    <2> QED
      BY <2>1, <2>2, <2>3
  <1>5. ASSUME Redressed(q, W, R), NEW i \in 1 .. Len(q), q[i] \in W
        PROVE  \E k \in 1 .. Len(q) - 1 : k > i - 1 /\ Tail(q)[k] \in R
    <2>1. PICK j \in 1 .. Len(q) : j > i /\ q[j] \in R
      BY <1>1, <1>5 DEF Redressed
    <2>2. j - 1 \in 1 .. Len(q) - 1 /\ Tail(q)[j - 1] = q[j] /\ j - 1 > i - 1
      BY <1>1, <1>3, <2>1
    <2> QED
      BY <2>1, <2>2
  <1>6. ASSUME Redressed(q, W, R) PROVE Redressed(Tail(q), W, R)
    <2> SUFFICES ASSUME NEW i \in 1 .. Len(q) - 1, Tail(q)[i] \in W
                 PROVE  \E k \in 1 .. Len(q) - 1 : k > i /\ Tail(q)[k] \in R
      BY <1>1 DEF Redressed
    <2>1. i + 1 \in 1 .. Len(q) /\ q[i + 1] \in W /\ (i + 1) - 1 = i
      BY <1>1, <1>2
    <2> QED
      BY <1>5, <1>6, <2>1
  <1>7. ASSUME Redressed(q, W, R), Head(q) \in W PROVE Waits(Tail(q), R)
    <2>1. 1 \in 1 .. Len(q) /\ q[1] \in W
      BY <1>1, <1>7
    <2> QED
      BY <1>1, <1>5, <1>7, <2>1 DEF Waits
  <1> QED
    BY <1>1, <1>4, <1>6, <1>7

\* An event is added to the end.
LEMMA AppendWaits ==
    ASSUME NEW E, NEW q \in Seq(E), NEW e \in E, NEW W, NEW R
    PROVE  /\ Append(q, e) \in Seq(E)
           /\ Waits(Append(q, e), R) <=> Waits(q, R) \/ e \in R
           /\ Redressed(q, W, R) \/ e \in R => e \in W \/ Redressed(Append(q, e), W, R)
  <1> DEFINE p == Append(q, e)
             n == Len(q)
  <1>1. /\ p \in Seq(E) /\ n \in Nat /\ DOMAIN q = 1 .. n /\ DOMAIN p = 1 .. n + 1
        /\ p[n + 1] = e /\ \A i \in 1 .. n : p[i] = q[i]
    OBVIOUS
  <1>2. n + 1 \in 1 .. n + 1 /\ \A i \in 1 .. n : i \in 1 .. n + 1 /\ n + 1 > i
    BY <1>1
  <1>3. \A i \in 1 .. n + 1 : i \in 1 .. n \/ i = n + 1
    BY <1>1
  <1> HIDE DEF p, n
  <1>4. Waits(p, R) <=> Waits(q, R) \/ e \in R
    BY <1>1, <1>2, <1>3 DEF Waits
  <1>5. ASSUME Redressed(q, W, R) \/ e \in R, e \notin W PROVE Redressed(p, W, R)
    <2>1. ASSUME NEW i \in 1 .. n, p[i] \in W PROVE \E j \in 1 .. n + 1 : j > i /\ p[j] \in R
      BY <1>1, <1>2, <1>5, <2>1 DEF Redressed
    <2> QED
      BY <1>1, <1>3, <1>5, <2>1 DEF Redressed
  <1> QED
    BY <1>1, <1>4, <1>5 DEF p

\* Of a kind that has one event at most Forgotten takes that one out.
LEMMA ForgottenIs ==
    ASSUME NEW E, NEW q \in Seq(E), NEW what, Single(q, what)
    PROVE  /\ Forgotten(q, what) \in Seq(E)
           /\ \/ Forgotten(q, what) = q /\ \A i \in DOMAIN q : q[i].of # what
              \/ \E i \in DOMAIN q :
                    /\ q[i].of = what
                    /\ DOMAIN Forgotten(q, what) = 1 .. Len(q) - 1
                    /\ \A j \in 1 .. Len(q) - 1 :
                          Forgotten(q, what)[j] = IF j < i THEN q[j] ELSE q[j + 1]
  <1> DEFINE I == {i \in 1 .. Len(q) : q[i].of = what}
  <1>1. Len(q) \in Nat /\ DOMAIN q = 1 .. Len(q)
    OBVIOUS
  <1>2. CASE I = {}
    BY <1>1, <1>2 DEF Forgotten, RemoveFirstMatch
  <1>3. CASE I # {}
    <2> DEFINE m == Min(I)
    <2>1. m \in I
      <3>1. PICK k \in I : I = {k}
        BY <1>1, <1>3 DEF Single
      <3>2. k \in Nat
        BY <3>1
      <3> HIDE DEF I
      <3> QED
        BY <3>1, <3>2 DEF Min
    <2>2. Forgotten(q, what) = RemoveAt(q, m)
      BY <1>3 DEF Forgotten, RemoveFirstMatch, SelectInSeq
    <2> HIDE DEF m
    <2>3. m \in 1 .. Len(q) /\ q[m].of = what
      BY <2>1
    <2> DEFINE a == SubSeq(q, 1, m - 1)
               b == SubSeq(q, m + 1, Len(q))
    <2>4. /\ a \in Seq(E) /\ Len(a) = m - 1 /\ \A j \in 1 .. m - 1 : a[j] = q[j]
      BY <1>1, <2>3
    <2>5. /\ b \in Seq(E) /\ Len(b) = Len(q) - m /\ \A j \in 1 .. Len(q) - m : b[j] = q[m + j]
      <3>1. /\ m + 1 \in Int /\ Len(q) \in Int
            /\ \A i \in m + 1 .. Len(q) : q[i] \in E
        BY <1>1, <2>3
      <3>2. /\ b \in Seq(E) /\ Len(b) = IF m + 1 <= Len(q) THEN Len(q) - (m + 1) + 1 ELSE 0
            /\ \A j \in 1 .. Len(q) - (m + 1) + 1 : b[j] = q[m + 1 + j - 1]
        BY <3>1, SubSeqProperties
      <3> HIDE DEF b
      <3>3. \A j \in Int : m + 1 + j - 1 = m + j
        BY <2>3
      <3>4. Len(q) - (m + 1) + 1 = Len(q) - m
        BY <1>1, <2>3
      <3>5. Len(b) = Len(q) - m
        <4>1. CASE m + 1 <= Len(q)
          BY <3>2, <3>4, <4>1
        <4>2. CASE ~(m + 1 <= Len(q))
          <5>a. m \in Int /\ Len(q) \in Int /\ m <= Len(q)
            BY <1>1, <2>3
          <5>1. Len(q) - m = 0
            BY <5>a, <4>2
          <5> QED
            BY <3>2, <4>2, <5>1
        <4> QED
          BY <4>1, <4>2
      <3>6. \A j \in 1 .. Len(q) - m : j \in Int /\ b[j] = q[m + 1 + j - 1]
        BY <3>2, <3>4
      <3>7. \A j \in 1 .. Len(q) - m : b[j] = q[m + j]
        BY <3>3, <3>6
      <3> QED
        BY <3>2, <3>5, <3>7
    <2>6. Forgotten(q, what) = a \o b
      BY <2>2 DEF RemoveAt
    <2> HIDE DEF a, b
    <2>c. /\ a \o b \in Seq(E) /\ Len(a \o b) = Len(a) + Len(b)
          /\ \A j \in 1 .. Len(a) + Len(b) :
                (a \o b)[j] = IF j <= Len(a) THEN a[j] ELSE b[j - Len(a)]
      BY <2>4, <2>5, ConcatProperties
    <2>d. Len(a) + Len(b) = Len(q) - 1 /\ Len(a) = m - 1
      BY <1>1, <2>3, <2>4, <2>5
    <2>7. a \o b \in Seq(E) /\ DOMAIN (a \o b) = 1 .. Len(q) - 1
      BY <2>c, <2>d
    <2>8. ASSUME NEW j \in 1 .. Len(q) - 1
          PROVE  (a \o b)[j] = IF j < m THEN q[j] ELSE q[j + 1]
      <3>1. CASE j < m
        <4>1. j <= m - 1 /\ j \in 1 .. m - 1
          BY <1>1, <2>3, <3>1
        <4> QED
          BY <2>4, <2>c, <2>d, <3>1, <4>1
      <3>2. CASE j >= m
        <4>1. j - (m - 1) \in 1 .. Len(q) - m /\ m + (j - (m - 1)) = j + 1
          BY <1>1, <2>3, <3>2
        <4>2. (a \o b)[j] = b[j - (m - 1)]
          <5>1. ~(j <= m - 1)
            BY <1>1, <2>3, <3>2
          <5> QED
            BY <2>c, <2>d, <5>1
        <4>3. ~(j < m)
          BY <1>1, <2>3, <3>2
        <4> QED
          BY <2>5, <4>1, <4>2, <4>3
      <3>3. j < m \/ j >= m
        BY <1>1, <2>3
      <3> QED
        BY <3>1, <3>2, <3>3
    <2> QED
      BY <1>1, <2>3, <2>6, <2>7, <2>8
  <1> QED
    BY <1>2, <1>3

\* A forgotten event neither keeps others from waiting nor reorders them.
LEMMA ForgottenWaits ==
    ASSUME NEW E, NEW q \in Seq(E), NEW what, NEW W, NEW R,
           Single(q, what), \A e \in R : e.of # what
    PROVE  /\ Waits(Forgotten(q, what), R) <=> Waits(q, R)
           /\ Redressed(q, W, R) => Redressed(Forgotten(q, what), W, R)
  <1> DEFINE p == Forgotten(q, what)
             n == Len(q)
  <1>1. CASE p = q
    BY <1>1
  <1>2. CASE p # q
    <2>1. PICK m \in DOMAIN q :
              /\ q[m].of = what /\ DOMAIN p = 1 .. n - 1
              /\ \A j \in 1 .. n - 1 : p[j] = IF j < m THEN q[j] ELSE q[j + 1]
      BY <1>2, ForgottenIs
    <2>2. n \in Nat /\ DOMAIN q = 1 .. n /\ m \in 1 .. n /\ q[m] \notin R
      BY <2>1
    <2> HIDE DEF p, n
    <2>3. ASSUME NEW k \in 1 .. n, q[k] \in R
          PROVE  \E j \in 1 .. n - 1 : p[j] = q[k] /\ j >= k - 1 /\ (k < m => j = k)
      <3>1. k # m
        BY <2>2, <2>3
      <3>2. CASE k < m
        BY <2>1, <2>2, <3>2
      <3>3. CASE k > m
        <4>1. k - 1 \in 1 .. n - 1 /\ ~(k - 1 < m) /\ (k - 1) + 1 = k
          BY <2>2, <3>3
        <4> QED
          BY <2>1, <3>3, <4>1
      <3> QED
        BY <2>2, <3>1, <3>2, <3>3
    <2>4. ASSUME NEW j \in 1 .. n - 1
          PROVE  \E k \in 1 .. n : /\ p[j] = q[k] /\ k >= j
                                   /\ (j >= m => k = j + 1) /\ (j < m => k = j)
      BY <2>1, <2>2
    <2>5. Waits(p, R) <=> Waits(q, R)
      BY <2>1, <2>2, <2>3, <2>4 DEF Waits
    <2>6. ASSUME Redressed(q, W, R) PROVE Redressed(p, W, R)
      <3> SUFFICES ASSUME NEW j \in 1 .. n - 1, p[j] \in W
                   PROVE  \E i \in 1 .. n - 1 : i > j /\ p[i] \in R
        BY <2>1 DEF Redressed
      <3>1. PICK k \in 1 .. n : p[j] = q[k] /\ (j >= m => k = j + 1) /\ (j < m => k = j)
        BY <2>4
      <3>2. PICK l \in 1 .. n : l > k /\ q[l] \in R
        BY <2>2, <2>6, <3>1 DEF Redressed
      <3>3. PICK i \in 1 .. n - 1 : p[i] = q[l] /\ i >= l - 1 /\ (l < m => i = l)
        BY <2>3, <3>2
      <3>4. l # m
        BY <2>2, <3>2
      <3>5. i > j
        BY <2>2, <3>1, <3>2, <3>3, <3>4
      <3> QED
        BY <3>2, <3>3, <3>5
    <2> QED
      BY <2>5, <2>6 DEF p
  <1> QED
    BY <1>1, <1>2

-----------------------------------------------------------------------------
(* What a handler does. *)

\* The events that end open() and close(), and the operations whose ends settle Live.
Ends == {"connect", "connection"}
Reads == {"param", "features"}

\* What the handler of event e has shown when nothing is begun.
Shows(e) ==
    /\ e.of # "grabbing" => ui'.connectOn
    /\ e.of = "grabbing" => ui'.connectOn = ui.connectOn /\ ui'.refreshOn = ui.refreshOn
    /\ e.of \in Operations \/ (e.of \in Ends /\ ~e.on) => isOpened \/ ui'.refreshOn
    /\ IF e.of = "discover"
          THEN ui'.liveOn = ui.liveOn /\ ui'.oneOn = ui.oneOn /\ ui'.editors = ui.editors
          ELSE ui'.liveOn = isOpened
    /\ e.of \in Ends => ui'.oneOn = isOpened /\ (isOpened => ui'.editors # "off")
    /\ e.of \in Reads \cup {"grabbing"} =>
          /\ ui'.oneOn = (isOpened /\ ~ui'.grabbing)
          /\ IF ui'.grabbing \/ ui'.parameterUpdateActive THEN ui'.editors # "on"
                                                         ELSE ui'.editors # "off"

\* It has begun to read the values.
Begins ==
    /\ isOpened /\ "features" \notin running
    /\ running' = running \cup {"features"}
    /\ events' = Forgotten(Tail(events), "features")
    /\ ~ui'.oneOn /\ ui'.editors # "on"

\* What the handler of event e does.
Answers(e) ==
    /\ ui' \in Controls /\ ui'.label = Status(ui')
    /\ UNCHANGED <<facade, connecting, watching>>
    /\ reading' \in {reading, "none"}
    /\ ui'.connectChecked = IF e.of = "connection" \/ (e.of = "connect" /\ ~e.on)
                              THEN e.on ELSE ui.connectChecked
    /\ IF e.of = "grabbing" \/ (e.of \in Ends /\ ~e.on)
          THEN ui'.grabbing = e.on /\ ui'.liveChecked = e.on
          ELSE ui'.grabbing = ui.grabbing /\ ui'.liveChecked = ui.liveChecked
    /\ ui'.parameterUpdateActive = (e.of # "param" /\ ui.parameterUpdateActive)
    /\ \/ Begins
       \/ events' = Tail(events) /\ running' = running /\ Shows(e)

\* updateFeatureValues() begins a reading or leaves the controls as they are.
LEMMA UpdateIs ==
    ASSUME NEW u \in Controls, isOpened \in BOOLEAN, UpdateFeatureValues(u), u.label = Status(u)
    PROVE  /\ ui' \in Controls /\ Keeps(u, ui') /\ ui'.label = Status(ui')
           /\ reading' \in {reading, "none"}
           /\ \/ Begins
              \/ events' = Tail(events) /\ running' = running /\ ui' = u
  <1>1. CASE isOpened /\ "features" \notin running
    <2>1. ui' = Busy(u) /\ reading' = "none" /\ running' = running \cup {"features"}
          /\ events' = Forgotten(Tail(events), "features")
      BY <1>1 DEF UpdateFeatureValues
    <2> QED
      BY <1>1, <2>1, BusyIs DEF Begins
  <1>2. CASE ~(isOpened /\ "features" \notin running)
    <2>1. /\ ui' = u /\ events' = Tail(events) /\ UNCHANGED <<running, reading>>
      BY <1>2 DEF UpdateFeatureValues
    <2> QED
      BY <2>1 DEF Keeps
  <1> QED
    BY <1>1, <1>2

\* The handlers of _connectWatcher,
LEMMA ConnectAnswers ==
    ASSUME ui \in Controls, isOpened \in BOOLEAN, ConnectFinished, Head(events).on \in BOOLEAN
    PROVE  Answers(Head(events))
  <1> DEFINE u == SetConnectionOperationActive(ui, FALSE)
             e == Head(events)
  <1>1. /\ e.of = "connect" /\ events' = Tail(events)
        /\ UNCHANGED <<facade, connecting, watching, running, reading>>
    BY DEF ConnectFinished, First, Handled, pool
  <1>2. u \in Controls /\ Keeps(ui, u)
    BY ActiveIs
  <1>3. CASE e.on
    <2>1. ui' \in Connected(u)
      BY <1>3 DEF ConnectFinished
    <2> HIDE DEF u, e
    <2>2. /\ ui' \in Controls /\ Keeps(u, ui') /\ ui'.label = Status(ui')
          /\ ui'.connectOn /\ ~ui'.refreshOn
          /\ ui'.oneOn = isOpened /\ ui'.liveOn = isOpened
          /\ isOpened => ui'.editors # "off"
      BY <1>2, <2>1, ConnectedIs
    <2>3. Shows(e)
      BY <1>1, <1>3, <2>2 DEF Shows, Operations, Ends, Reads
    <2> QED
      BY <1>1, <1>2, <1>3, <2>2, <2>3 DEF Answers, Keeps, Ends, Controls, e
  <1>4. CASE ~e.on
    <2> DEFINE w == [u EXCEPT !.connectChecked = FALSE]
    <2>1. ui' = Disconnected(w)
      BY <1>4 DEF ConnectFinished
    <2> HIDE DEF u, e
    <2>2. /\ w \in Controls /\ ~w.connectChecked
          /\ w.parameterUpdateActive = ui.parameterUpdateActive
      BY <1>2 DEF Controls, Keeps
    <2> HIDE DEF w
    <2>3. /\ ui' \in Controls /\ ui'.label = Status(ui')
          /\ ui'.connectChecked = w.connectChecked
          /\ ui'.parameterUpdateActive = w.parameterUpdateActive
          /\ ~ui'.grabbing /\ ~ui'.liveChecked /\ ui'.connectOn /\ ui'.refreshOn
          /\ ui'.oneOn = isOpened /\ ui'.liveOn = isOpened /\ ui'.editors = "none"
      BY <2>1, <2>2, DisconnectedIs
    <2>4. Shows(e)
      BY <1>1, <1>4, <2>3 DEF Shows, Operations, Ends, Reads
    <2>5. /\ e.on = FALSE /\ ui'.grabbing = FALSE /\ ui'.liveChecked = FALSE
          /\ ui'.connectChecked = FALSE
      BY <1>4, <2>2, <2>3 DEF Controls, e
    <2> QED
      BY <1>1, <1>4, <2>2, <2>3, <2>4, <2>5 DEF Answers, Ends, Controls, e
  <1> QED
    BY <1>3, <1>4

\* _discoverWatcher,
LEMMA DiscoverAnswers ==
    ASSUME ui \in Controls, isOpened \in BOOLEAN, DiscoverFinished
    PROVE  Answers(Head(events))
  <1> DEFINE w == [ui EXCEPT !.refreshOn = TRUE, !.connectOn = TRUE]
             e == Head(events)
  <1>1. /\ e.of = "discover" /\ events' = Tail(events)
        /\ UNCHANGED <<facade, connecting, watching, running, reading>>
        /\ ui' = UpdateStatusLabel(w)
    BY DEF DiscoverFinished, First, Handled, pool
  <1>2. /\ w \in Controls /\ Keeps(ui, w) /\ w.refreshOn /\ w.connectOn
        /\ w.oneOn = ui.oneOn /\ w.liveOn = ui.liveOn /\ w.editors = ui.editors
    BY DEF Controls, Keeps
  <1> HIDE DEF w, e
  <1>3. /\ ui' \in Controls /\ Keeps(w, ui') /\ ui'.label = Status(ui')
        /\ ui'.connectOn = w.connectOn /\ ui'.refreshOn = w.refreshOn
        /\ ui'.oneOn = w.oneOn /\ ui'.liveOn = w.liveOn /\ ui'.editors = w.editors
    BY <1>1, <1>2, LabelIs
  <1>4. Shows(e)
    BY <1>1, <1>2, <1>3 DEF Shows, Operations, Ends, Reads
  <1> QED
    BY <1>1, <1>2, <1>3, <1>4 DEF Answers, Keeps, Ends, Controls, e

\* _paramWatcher,
LEMMA ParamAnswers ==
    ASSUME ui \in Controls, isOpened \in BOOLEAN, ParamFinished
    PROVE  Answers(Head(events))
  <1> DEFINE w == [ui EXCEPT !.parameterUpdateActive = FALSE]
             u == SetConnectionOperationActive(w, FALSE)
             v == SetRunningState(u, ui.grabbing)
             e == Head(events)
  <1>1. /\ e.of = "param" /\ UNCHANGED <<facade, connecting, watching>>
        /\ UpdateFeatureValues(v)
    BY DEF ParamFinished, First
  <1>2. /\ w \in Controls /\ w.parameterUpdateActive = FALSE
        /\ w.connectChecked = ui.connectChecked /\ w.grabbing = ui.grabbing
        /\ w.liveChecked = ui.liveChecked
    BY DEF Controls
  <1> HIDE DEF w, e
  <1>3. /\ u \in Controls /\ Keeps(w, u) /\ u.label = Status(u)
        /\ u.connectOn = TRUE /\ u.refreshOn = ~isOpened
    BY <1>2, ActiveIs
  <1> HIDE DEF u
  <1>4. /\ v \in Controls /\ Keeps(u, v) /\ v.label = u.label
        /\ v.connectOn = u.connectOn /\ v.refreshOn = u.refreshOn
        /\ v.oneOn = (isOpened /\ ~ui.grabbing) /\ v.liveOn = isOpened
        /\ IF ui.grabbing \/ u.parameterUpdateActive THEN v.editors # "on" ELSE v.editors # "off"
    <2>1. ui.grabbing \in BOOLEAN
      BY DEF Controls
    <2> QED
      BY <1>3, <2>1, RunningIs
  <1> HIDE DEF v
  <1>5. v.label = Status(v)
    BY <1>3, <1>4 DEF Status, Keeps
  <1>6. /\ ui' \in Controls /\ Keeps(v, ui') /\ ui'.label = Status(ui')
        /\ reading' \in {reading, "none"}
        /\ Begins \/ (events' = Tail(events) /\ running' = running /\ ui' = v)
    BY <1>1, <1>4, <1>5, UpdateIs
  <1>7. ui' = v => Shows(e)
    BY <1>1, <1>2, <1>3, <1>4 DEF Shows, Keeps, Operations, Ends, Reads
  <1> QED
    BY <1>1, <1>2, <1>3, <1>4, <1>6, <1>7 DEF Answers, Keeps, Ends, e

\* _featureDataWatcher,
LEMMA FeaturesAnswers ==
    ASSUME ui \in Controls, isOpened \in BOOLEAN, FeaturesFinished
    PROVE  Answers(Head(events))
  <1> DEFINE w == [ui EXCEPT !.current = (reading = "new")]
             u == SetConnectionOperationActive(w, FALSE)
             e == Head(events)
  <1>1. /\ e.of = "features" /\ events' = Tail(events)
        /\ UNCHANGED <<facade, connecting, watching, running>> /\ reading' = "none"
        /\ ui' = SetRunningState(u, ui.grabbing)
    BY DEF FeaturesFinished, First, Handled
  <1>2. /\ w \in Controls /\ Keeps(ui, w)
    BY DEF Controls, Keeps
  <1> HIDE DEF w, e
  <1>3. /\ u \in Controls /\ Keeps(w, u) /\ u.label = Status(u)
        /\ u.connectOn = TRUE /\ u.refreshOn = ~isOpened
    BY <1>2, ActiveIs
  <1> HIDE DEF u
  <1>4. /\ ui' \in Controls /\ Keeps(u, ui') /\ ui'.label = u.label
        /\ ui'.connectOn = u.connectOn /\ ui'.refreshOn = u.refreshOn
        /\ ui'.oneOn = (isOpened /\ ~ui.grabbing) /\ ui'.liveOn = isOpened
        /\ IF ui.grabbing \/ u.parameterUpdateActive THEN ui'.editors # "on"
                                                     ELSE ui'.editors # "off"
    <2>1. ui.grabbing \in BOOLEAN
      BY DEF Controls
    <2> QED
      BY <1>1, <1>3, <2>1, RunningIs
  <1>5. ui'.label = Status(ui')
    BY <1>3, <1>4 DEF Status, Keeps
  <1>7. Shows(e)
    BY <1>1, <1>2, <1>3, <1>4 DEF Shows, Keeps, Operations, Ends, Reads
  <1> QED
    BY <1>1, <1>2, <1>3, <1>4, <1>5, <1>7 DEF Answers, Keeps, Ends, Controls, e

\* of the status of an acquisition
LEMMA GrabbingAnswers ==
    ASSUME ui \in Controls, isOpened \in BOOLEAN, GrabbingChanged, Head(events).on \in BOOLEAN
    PROVE  Answers(Head(events))
  <1> DEFINE e == Head(events)
             w == [ui EXCEPT !.grabbing = e.on, !.liveChecked = e.on]
             u == UpdateStatusLabel(w)
             v == SetRunningState(u, e.on)
  <1>1. /\ e.of = "grabbing" /\ UNCHANGED <<facade, connecting, watching>>
        /\ \/ UpdateFeatureValues(v)
           \/ events' = Tail(events) /\ ui' = v /\ UNCHANGED <<running, reading>>
    BY DEF GrabbingChanged, First, Handled
  <1>2. /\ w \in Controls /\ w.grabbing = e.on /\ w.liveChecked = e.on
        /\ w.connectChecked = ui.connectChecked
        /\ w.parameterUpdateActive = ui.parameterUpdateActive
        /\ w.connectOn = ui.connectOn /\ w.refreshOn = ui.refreshOn
    BY DEF Controls
  <1>a. e.on \in BOOLEAN
    OBVIOUS
  <1> HIDE DEF w
  <1>3. /\ u \in Controls /\ Keeps(w, u) /\ u.label = Status(u)
        /\ u.connectOn = w.connectOn /\ u.refreshOn = w.refreshOn
    BY <1>2, LabelIs
  <1> HIDE DEF u, e
  <1>4. /\ v \in Controls /\ Keeps(u, v) /\ v.label = u.label
        /\ v.connectOn = u.connectOn /\ v.refreshOn = u.refreshOn
        /\ v.oneOn = (isOpened /\ ~e.on) /\ v.liveOn = isOpened
        /\ IF e.on \/ u.parameterUpdateActive THEN v.editors # "on" ELSE v.editors # "off"
    BY <1>a, <1>3, RunningIs
  <1> HIDE DEF v
  <1>5. v.label = Status(v)
    BY <1>3, <1>4 DEF Status, Keeps
  <1>6. /\ ui' \in Controls /\ Keeps(v, ui') /\ ui'.label = Status(ui')
        /\ reading' \in {reading, "none"}
        /\ Begins \/ (events' = Tail(events) /\ running' = running /\ ui' = v)
    <2>1. CASE UpdateFeatureValues(v)
      BY <1>4, <1>5, <2>1, UpdateIs
    <2>2. CASE events' = Tail(events) /\ ui' = v /\ UNCHANGED <<running, reading>>
      BY <1>4, <1>5, <2>2 DEF Keeps
    <2> QED
      BY <1>1, <2>1, <2>2
  <1>7. ui' = v => Shows(e)
    BY <1>1, <1>2, <1>3, <1>4 DEF Shows, Keeps, Operations, Ends, Reads
  <1>8. /\ ui'.connectChecked = ui.connectChecked
        /\ ui'.grabbing = e.on /\ ui'.liveChecked = e.on
        /\ ui'.parameterUpdateActive = ui.parameterUpdateActive
        /\ ui.parameterUpdateActive \in BOOLEAN
    BY <1>2, <1>3, <1>4, <1>6 DEF Keeps, Controls
  <1> QED
    BY <1>1, <1>6, <1>7, <1>8 DEF Answers, Ends, e

\* and of the connection do what Answers says.
LEMMA ConnectionAnswers ==
    ASSUME ui \in Controls, isOpened \in BOOLEAN, ConnectionChanged, Head(events).on \in BOOLEAN
    PROVE  Answers(Head(events))
  <1> DEFINE e == Head(events)
  <1>1. /\ e.of = "connection" /\ events' = Tail(events)
        /\ UNCHANGED <<facade, connecting, watching, running, reading>>
    BY DEF ConnectionChanged, First, Handled, pool
  <1>2. PICK u \in ApplyConnectionState(ui, e.on) : ui' = [u EXCEPT !.connectChecked = e.on]
    BY DEF ConnectionChanged
  <1>a. e.on \in BOOLEAN
    OBVIOUS
  <1> HIDE DEF e
  <1>3. CASE e.on
    <2>1. u \in Connected(ui)
      BY <1>2, <1>3 DEF ApplyConnectionState
    <2>2. /\ u \in Controls /\ Keeps(ui, u) /\ u.label = Status(u)
          /\ u.connectOn /\ ~u.refreshOn
          /\ u.oneOn = isOpened /\ u.liveOn = isOpened
          /\ isOpened => u.editors # "off"
      BY <2>1, ConnectedIs
    <2>3. /\ ui' \in Controls /\ ui'.label = Status(ui') /\ ui'.connectChecked = e.on
          /\ ui'.grabbing = ui.grabbing /\ ui'.liveChecked = ui.liveChecked
          /\ ui'.parameterUpdateActive = ui.parameterUpdateActive
          /\ ui'.connectOn /\ ~ui'.refreshOn
          /\ ui'.oneOn = isOpened /\ ui'.liveOn = isOpened
          /\ isOpened => ui'.editors # "off"
      BY <1>2, <1>a, <2>2 DEF Controls, Keeps, Status
    <2>4. Shows(e)
      BY <1>1, <1>3, <2>3 DEF Shows, Operations, Ends, Reads
    <2> QED
      BY <1>1, <1>3, <2>3, <2>4 DEF Answers, Ends, Controls, e
  <1>4. CASE ~e.on
    <2>1. u = Disconnected(ui)
      BY <1>2, <1>4 DEF ApplyConnectionState
    <2>2. /\ u \in Controls /\ u.label = Status(u)
          /\ u.parameterUpdateActive = ui.parameterUpdateActive
          /\ ~u.grabbing /\ ~u.liveChecked /\ u.connectOn /\ u.refreshOn
          /\ u.oneOn = isOpened /\ u.liveOn = isOpened /\ u.editors = "none"
      BY <2>1, DisconnectedIs
    <2>3. /\ ui' \in Controls /\ ui'.label = Status(ui') /\ ui'.connectChecked = e.on
          /\ ui'.grabbing = u.grabbing /\ ui'.liveChecked = u.liveChecked
          /\ ui'.parameterUpdateActive = ui.parameterUpdateActive
          /\ ui'.connectOn /\ ui'.refreshOn
          /\ ui'.oneOn = isOpened /\ ui'.liveOn = isOpened /\ ui'.editors = "none"
      BY <1>2, <1>a, <2>2 DEF Controls, Status
    <2>4. Shows(e)
      BY <1>1, <1>4, <2>3 DEF Shows, Operations, Ends, Reads
    <2>5. e.on = FALSE /\ ui'.grabbing = FALSE /\ ui'.liveChecked = FALSE
      BY <1>4, <1>a, <2>2, <2>3 DEF Controls
    <2> QED
      BY <1>1, <1>4, <2>3, <2>4, <2>5 DEF Answers, Ends, Controls, e
  <1> QED
    BY <1>3, <1>4

\* So does each handler.
LEMMA HandleAnswers ==
    ASSUME ui \in Controls, isOpened \in BOOLEAN, Handle, Head(events).on \in BOOLEAN
    PROVE  events # << >> /\ Answers(Head(events))
  <1>1. events # << >>
    BY DEF Handle, ConnectFinished, DiscoverFinished, ParamFinished, FeaturesFinished,
           GrabbingChanged, ConnectionChanged, First
  <1> QED
    BY <1>1, ConnectAnswers, DiscoverAnswers, ParamAnswers, FeaturesAnswers, GrabbingAnswers,
       ConnectionAnswers DEF Handle

-----------------------------------------------------------------------------
(* The invariants. *)

Events == [of : Kinds, on : BOOLEAN]

\* Events by what their handlers do: of open() and close(), by the result,
EndsUp == Of(Ends, {TRUE})
EndsDown == Of(Ends, {FALSE})
\* those that check Connect, that show an acquisition, that a stop or a close posts,
ConnectionUp == Of({"connection"}, {TRUE})
Started == Of({"grabbing"}, {TRUE})
Stopped == Of({"grabbing", "connection"}, {FALSE})
\* that clear Live, that enable Refresh, that enable Connect,
Clears == Of({"grabbing"} \cup Ends, {FALSE})
Refreshes == EndsDown \cup Of(Operations, BOOLEAN)
Returns == Of(Ends \cup Operations, BOOLEAN)
\* that enable Live when the facade is open, and GrabOne too.
Settles == Of({"connection"} \cup Reads, BOOLEAN)
Switches == Of({"connection", "grabbing"} \cup Reads, BOOLEAN)

\* open() or close() has left or found the facade as it is and has yet to say so.
Unsaid ==
    \E t \in Threads : connecting[t] \in
        IF isOpened THEN {"opened", "stopping", "notifying", "closing"} ELSE {"closed"}

\* Connect is enabled, or something that enables it runs or waits;
ConnectInv == ui.connectOn \/ watching # {} \/ running # {} \/ Waits(events, Returns)

\* so is Live, when the facade is open,
LiveInv ==
    ui.liveOn = isOpened \/ Unsaid \/ running \cap Reads # {} \/ Waits(events, Settles)

\* and GrabOne with the editors, when the widget shows no acquisition.
GrabOneInv ==
    isOpened /\ ~ui.grabbing =>
        \/ ui.oneOn /\ ui.editors # "off"
        \/ Unsaid \/ running \cap Reads # {} \/ Waits(events, Switches)

\* Every handler brings the label up to date.
LabelInv == ui.label = Status(ui) \/ Unsaid \/ events # << >>

\* What holds in every behaviour.
IInv == TypeOK /\ ConnectInv /\ LiveInv /\ GrabOneInv /\ LabelInv

\* When nothing is acquired and nobody has yet to say so, no start is the last word.
EndInv ==
    ~isGrabbing /\ ending = "nobody" =>
        /\ Redressed(events, Started, Stopped)
        /\ ~ui.grabbing \/ Waits(events, Stopped)

\* An open() or close() is watched, and knows whether the facade is open.
RunInv ==
    \A t \in Threads :
        /\ connecting[t] # "idle" => t \in watching
        /\ connecting[t] \in {"opened", "succeeded"} => isOpened
        /\ connecting[t] \in {"resolving", "closed", "failed"} => ~isOpened

\* The last decision on Connect's check that waits, or the check itself, is right.
CheckedInv ==
    /\ isOpened /\ (\A t \in Connecting : connecting[t] \in {"open"} \cup Returned) =>
          /\ Redressed(events, EndsDown, ConnectionUp)
          /\ ui.connectChecked \/ Waits(events, ConnectionUp)
    /\ ~isOpened /\ Connecting = {} =>
          /\ Redressed(events, ConnectionUp, EndsDown)
          /\ ~ui.connectChecked \/ Waits(events, EndsDown)

\* While the facade is closed a success that disables Refresh is followed by a failure,
\* and Refresh is enabled unless something that enables it runs or waits.
RefreshInv ==
    ~isOpened /\ Connecting = {} =>
        /\ Redressed(events, EndsUp, EndsDown)
        /\ ui.refreshOn \/ running # {} \/ Waits(events, Refreshes)

\* What holds as long as no two of open() and close() overlap.
OneInv == RunInv /\ CheckedInv /\ RefreshInv

\* A close() that has stopped stays without an acquisition.
CloseInv == (InClose => ~isGrabbing) /\ (isGrabbing => isOpened)

\* After all that clears Live comes the start that has been notified.
StartInv ==
    isGrabbing /\ ~starting =>
        /\ Redressed(events, Clears, Started)
        /\ (ui.grabbing /\ ui.liveChecked) \/ Waits(events, Started)

-----------------------------------------------------------------------------
(* Events by their sorts. *)

\* An event is of a kind, with a value.
LEMMA OfIs ==
    ASSUME NEW e \in Events, NEW K, NEW V
    PROVE  e \in Of(K, V) <=> e.of \in K /\ e.on \in V
  BY DEF Events, Of

\* Which events the sets of the invariants have.
LEMMA AnswerSorts ==
    ASSUME NEW e \in Events
    PROVE  /\ e \in ConnectionUp <=> e.of = "connection" /\ e.on = TRUE
           /\ e \in EndsDown <=> e.of \in Ends /\ e.on = FALSE
           /\ e \in EndsUp <=> e.of \in Ends /\ e.on = TRUE
           /\ e \in Started <=> e.of = "grabbing" /\ e.on = TRUE
           /\ e \in Stopped <=> e.of \in {"grabbing", "connection"} /\ e.on = FALSE
           /\ e \in Clears <=> e.of \in {"grabbing"} \cup Ends /\ e.on = FALSE
           /\ e \in Refreshes <=> (e.of \in Ends /\ e.on = FALSE) \/ e.of \in Operations
           /\ e \in Returns <=> e.of # "grabbing"
           /\ e \in Settles <=> e.of \in {"connection"} \cup Reads
           /\ e \in Switches <=> e.of \notin {"discover", "connect"}
  <1>0. e.on \in BOOLEAN /\ e.of \in Kinds
    BY DEF Events
  <1>1. e \in ConnectionUp <=> e.of \in {"connection"} /\ e.on \in {TRUE}
    BY OfIs DEF ConnectionUp
  <1>2. /\ e \in EndsDown <=> e.of \in Ends /\ e.on \in {FALSE}
        /\ e \in EndsUp <=> e.of \in Ends /\ e.on \in {TRUE}
    BY OfIs DEF EndsDown, EndsUp
  <1>3. /\ e \in Started <=> e.of \in {"grabbing"} /\ e.on \in {TRUE}
        /\ e \in Stopped <=> e.of \in {"grabbing", "connection"} /\ e.on \in {FALSE}
        /\ e \in Clears <=> e.of \in {"grabbing"} \cup Ends /\ e.on \in {FALSE}
    BY OfIs DEF Started, Stopped, Clears
  <1>4. e \in Refreshes <=> e \in EndsDown \/ (e.of \in Operations /\ e.on \in BOOLEAN)
    BY OfIs DEF Refreshes
  <1>5. /\ e \in Returns <=> e.of \in Ends \cup Operations /\ e.on \in BOOLEAN
        /\ e \in Settles <=> e.of \in {"connection"} \cup Reads /\ e.on \in BOOLEAN
        /\ e \in Switches <=> e.of \in {"connection", "grabbing"} \cup Reads /\ e.on \in BOOLEAN
    BY OfIs DEF Returns, Settles, Switches
  <1>6. (e.on \in {TRUE} <=> e.on = TRUE) /\ (e.on \in {FALSE} <=> e.on = FALSE)
    OBVIOUS
  <1>7. Kinds = Ends \cup Operations \cup {"grabbing"} /\ Operations = Reads \cup {"discover"}
        /\ Ends = {"connect", "connection"}
        /\ {"discover", "connect"} \cap ({"connection", "grabbing"} \cup Reads) = {}
        /\ "grabbing" \notin Ends \cup Operations
    BY DEF Kinds, Ends, Operations, Reads
  <1>8. /\ e \in ConnectionUp <=> e.of = "connection" /\ e.on = TRUE
        /\ e \in EndsDown <=> e.of \in Ends /\ e.on = FALSE
        /\ e \in EndsUp <=> e.of \in Ends /\ e.on = TRUE
    BY <1>1, <1>2, <1>6
  <1>9. /\ e \in Started <=> e.of = "grabbing" /\ e.on = TRUE
        /\ e \in Stopped <=> e.of \in {"grabbing", "connection"} /\ e.on = FALSE
        /\ e \in Clears <=> e.of \in {"grabbing"} \cup Ends /\ e.on = FALSE
    BY <1>3, <1>6
  <1>10. e \in Refreshes <=> (e.of \in Ends /\ e.on = FALSE) \/ e.of \in Operations
    BY <1>0, <1>4, <1>8
  <1>11. /\ e \in Returns <=> e.of # "grabbing"
         /\ e \in Settles <=> e.of \in {"connection"} \cup Reads
         /\ e \in Switches <=> e.of \notin {"discover", "connect"}
    BY <1>0, <1>5, <1>7
  <1> QED
    BY <1>8, <1>9, <1>10, <1>11

\* What a handler leaves in the flags of Connect and Live.
LEMMA AnswerFlags ==
    ASSUME NEW e \in Events, Answers(e)
    PROVE  /\ e \in ConnectionUp => ui'.connectChecked
           /\ e \in EndsDown => ~ui'.connectChecked
           /\ e \notin ConnectionUp \cup EndsDown => ui'.connectChecked = ui.connectChecked
           /\ e \in Started => ui'.grabbing /\ ui'.liveChecked
           /\ e \in Clears => ~ui'.grabbing
           /\ e \notin Started \cup Clears =>
                 ui'.grabbing = ui.grabbing /\ ui'.liveChecked = ui.liveChecked
  <1>1. /\ ui'.connectChecked = IF e.of = "connection" \/ (e.of = "connect" /\ ~e.on)
                                  THEN e.on ELSE ui.connectChecked
        /\ IF e.of = "grabbing" \/ (e.of \in Ends /\ ~e.on)
              THEN ui'.grabbing = e.on /\ ui'.liveChecked = e.on
              ELSE ui'.grabbing = ui.grabbing /\ ui'.liveChecked = ui.liveChecked
    BY DEF Answers
  <1>2. e.on \in BOOLEAN
    BY DEF Events
  <1>3. /\ e \in ConnectionUp <=> e.of = "connection" /\ e.on = TRUE
        /\ e \in EndsDown <=> e.of \in Ends /\ e.on = FALSE
        /\ e \in Started <=> e.of = "grabbing" /\ e.on = TRUE
        /\ e \in Clears <=> e.of \in {"grabbing"} \cup Ends /\ e.on = FALSE
    BY AnswerSorts
  <1>4. CASE e.on = TRUE
    <2>1. /\ e.of = "connection" => ui'.connectChecked = TRUE
          /\ e.of # "connection" => ui'.connectChecked = ui.connectChecked
          /\ e.of = "grabbing" => ui'.grabbing = TRUE /\ ui'.liveChecked = TRUE
          /\ e.of # "grabbing" => ui'.grabbing = ui.grabbing /\ ui'.liveChecked = ui.liveChecked
      BY <1>1, <1>4
    <2>2. /\ e \in ConnectionUp <=> e.of = "connection"
          /\ e \notin EndsDown
          /\ e \in Started <=> e.of = "grabbing"
          /\ e \notin Clears
      BY <1>3, <1>4
    <2> QED
      BY <2>1, <2>2
  <1>5. CASE e.on = FALSE
    <2>1. /\ e.of \in Ends => ui'.connectChecked = FALSE
          /\ e.of \notin Ends => ui'.connectChecked = ui.connectChecked
          /\ e.of \in {"grabbing"} \cup Ends => ui'.grabbing = FALSE
          /\ e.of \notin {"grabbing"} \cup Ends =>
                ui'.grabbing = ui.grabbing /\ ui'.liveChecked = ui.liveChecked
      BY <1>1, <1>5 DEF Ends
    <2>2. /\ e \notin ConnectionUp
          /\ e \in EndsDown <=> e.of \in Ends
          /\ e \notin Started
          /\ e \in Clears <=> e.of \in {"grabbing"} \cup Ends
      BY <1>3, <1>5
    <2> QED
      BY <2>1, <2>2
  <1> QED
    BY <1>2, <1>4, <1>5

-----------------------------------------------------------------------------
(* What a step does to the events. *)

\* What Event makes is an event.
LEMMA EventIs ==
    ASSUME NEW k \in Kinds, NEW v \in BOOLEAN
    PROVE  Event(k, v) \in Events /\ Event(k, v).of = k /\ Event(k, v).on = v
  BY DEF Events, Event

\* Of a kind with one event at most none is left when that event is taken.
LEMMA TailSingle ==
    ASSUME NEW q \in Seq(Events), q # << >>, NEW k, Single(q, k)
    PROVE  /\ Single(Tail(q), k)
           /\ Head(q).of = k => \A i \in DOMAIN Tail(q) : Tail(q)[i].of # k
           /\ (\E i \in DOMAIN q : q[i].of = k) <=>
                 Head(q).of = k \/ \E i \in DOMAIN Tail(q) : Tail(q)[i].of = k
  <1>1. /\ Len(q) \in Nat /\ Len(q) >= 1 /\ Len(Tail(q)) = Len(q) - 1
        /\ DOMAIN q = 1 .. Len(q) /\ DOMAIN Tail(q) = 1 .. Len(q) - 1 /\ Head(q) = q[1]
    OBVIOUS
  <1>2. \A i \in 1 .. Len(q) - 1 : Tail(q)[i] = q[i + 1] /\ i + 1 \in 1 .. Len(q) /\ i + 1 # 1
    BY <1>1
  <1>3. \A i \in 1 .. Len(q) : i = 1 \/ (i - 1 \in 1 .. Len(q) - 1 /\ Tail(q)[i - 1] = q[i])
    BY <1>1, <1>2
  <1>4. Single(Tail(q), k)
    <2> SUFFICES ASSUME NEW i \in 1 .. Len(q) - 1, NEW j \in 1 .. Len(q) - 1,
                        Tail(q)[i].of = k, Tail(q)[j].of = k
                 PROVE  i = j
      BY <1>1 DEF Single
    <2>1. i + 1 = j + 1
      BY <1>1, <1>2 DEF Single
    <2> QED
      BY <2>1
  <1>5. 1 \in 1 .. Len(q)
    BY <1>1
  <1>6. Head(q).of = k => \A i \in DOMAIN Tail(q) : Tail(q)[i].of # k
    BY <1>1, <1>2, <1>5 DEF Single
  <1>7. (\E i \in DOMAIN Tail(q) : Tail(q)[i].of = k) => \E i \in DOMAIN q : q[i].of = k
    BY <1>1, <1>2
  <1>8. Head(q).of = k => \E i \in DOMAIN q : q[i].of = k
    BY <1>1, <1>5
  <1>9. (\E i \in DOMAIN q : q[i].of = k) =>
            Head(q).of = k \/ \E i \in DOMAIN Tail(q) : Tail(q)[i].of = k
    BY <1>1, <1>3
  <1> QED
    BY <1>4, <1>6, <1>7, <1>8, <1>9

\* Such a kind stays so when an event of another kind, or its only one, is added.
LEMMA AppendSingle ==
    ASSUME NEW q \in Seq(Events), NEW e \in Events, NEW k, Single(q, k)
    PROVE  /\ (\A i \in DOMAIN q : q[i].of # k) \/ e.of # k => Single(Append(q, e), k)
           /\ (\E i \in DOMAIN Append(q, e) : Append(q, e)[i].of = k) <=>
                 e.of = k \/ \E i \in DOMAIN q : q[i].of = k
  <1> DEFINE p == Append(q, e)
             n == Len(q)
  <1>1. /\ n \in Nat /\ DOMAIN q = 1 .. n /\ DOMAIN p = 1 .. n + 1
        /\ p[n + 1] = e /\ \A i \in 1 .. n : p[i] = q[i]
    OBVIOUS
  <1>2. n + 1 \in 1 .. n + 1 /\ \A i \in 1 .. n : i \in 1 .. n + 1
    BY <1>1
  <1>3. \A i \in 1 .. n + 1 : i \in 1 .. n \/ i = n + 1
    BY <1>1
  <1> HIDE DEF p, n
  <1>4. (\A i \in DOMAIN q : q[i].of # k) \/ e.of # k => Single(p, k)
    BY <1>1, <1>2, <1>3 DEF Single
  <1>5. (\E i \in DOMAIN p : p[i].of = k) <=> e.of = k \/ \E i \in DOMAIN q : q[i].of = k
    BY <1>1, <1>2, <1>3
  <1> QED
    BY <1>4, <1>5 DEF p

\* It stays so when an event is forgotten.
LEMMA ForgottenSingle ==
    ASSUME NEW q \in Seq(Events), NEW what, NEW k, Single(q, what), Single(q, k)
    PROVE  /\ Single(Forgotten(q, what), k)
           /\ k = what => \A i \in DOMAIN Forgotten(q, what) : Forgotten(q, what)[i].of # k
           /\ k # what => ((\E i \in DOMAIN Forgotten(q, what) : Forgotten(q, what)[i].of = k)
                              <=> \E i \in DOMAIN q : q[i].of = k)
  <1> DEFINE p == Forgotten(q, what)
             n == Len(q)
  <1>1. CASE p = q /\ \A i \in DOMAIN q : q[i].of # what
    BY <1>1
  <1>2. CASE ~(p = q /\ \A i \in DOMAIN q : q[i].of # what)
    <2>1. PICK m \in DOMAIN q :
              /\ q[m].of = what /\ DOMAIN p = 1 .. n - 1
              /\ \A j \in 1 .. n - 1 : p[j] = IF j < m THEN q[j] ELSE q[j + 1]
      BY <1>2, ForgottenIs
    <2>2. n \in Nat /\ DOMAIN q = 1 .. n /\ m \in 1 .. n
      BY <2>1
    <2> HIDE DEF p, n
    <2>3. ASSUME NEW j \in 1 .. n - 1
          PROVE  \E i \in 1 .. n : p[j] = q[i] /\ i # m /\ (j >= m => i = j + 1) /\ (j < m => i = j)
      BY <2>1, <2>2
    <2>4. ASSUME NEW i \in 1 .. n, i # m
          PROVE  \E j \in 1 .. n - 1 : p[j] = q[i]
      <3>1. CASE i < m
        BY <2>1, <2>2, <3>1
      <3>2. CASE i > m
        <4>1. i - 1 \in 1 .. n - 1 /\ ~(i - 1 < m) /\ (i - 1) + 1 = i
          BY <2>2, <3>2
        <4> QED
          BY <2>1, <4>1
      <3> QED
        BY <2>2, <2>4, <3>1, <3>2
    <2>5. Single(p, k)
      <3> SUFFICES ASSUME NEW i \in 1 .. n - 1, NEW j \in 1 .. n - 1, p[i].of = k, p[j].of = k
                   PROVE  i = j
        BY <2>1 DEF Single
      <3>1. PICK a \in 1 .. n : p[i] = q[a] /\ a # m /\ (i >= m => a = i + 1) /\ (i < m => a = i)
        BY <2>3
      <3>2. PICK b \in 1 .. n : p[j] = q[b] /\ b # m /\ (j >= m => b = j + 1) /\ (j < m => b = j)
        BY <2>3
      <3>3. a = b
        BY <2>2, <3>1, <3>2 DEF Single
      <3> QED
        BY <2>2, <3>1, <3>2, <3>3
    <2>6. ASSUME k = what, NEW j \in 1 .. n - 1 PROVE p[j].of # k
      BY <2>1, <2>2, <2>3, <2>6 DEF Single
    <2>7. (\E i \in DOMAIN p : p[i].of = k) => \E i \in DOMAIN q : q[i].of = k
      BY <2>1, <2>2, <2>3
    <2>8. ASSUME k # what, NEW i \in DOMAIN q, q[i].of = k
          PROVE  \E j \in DOMAIN p : p[j].of = k
      <3>1. i \in 1 .. n /\ i # m
        BY <2>1, <2>2, <2>8
      <3> QED
        BY <2>1, <2>4, <2>8, <3>1
    <2> QED
      BY <2>1, <2>5, <2>6, <2>7, <2>8 DEF p
  <1> QED
    BY <1>1, <1>2

\* Event e is added.
LEMMA Posting ==
    ASSUME TypeOK, NEW e \in Events, events' = Append(events, e)
    PROVE  /\ events' \in Seq(Events) /\ events' # << >>
           /\ \A R : Waits(events', R) <=> Waits(events, R) \/ e \in R
           /\ \A W, R : (Redressed(events, W, R) \/ e \in R) /\ e \notin W
                           => Redressed(events', W, R)
           /\ \A k \in Kinds \ {"connection", "grabbing"} :
                 /\ e.of # k \/ ~Pending(k) => Single(events', k)
                 /\ Pending(k)' <=> Pending(k) \/ e.of = k
  <1>1. events \in Seq(Events)
    BY DEF TypeOK, Events
  <1>2. events' \in Seq(Events) /\ events' # << >>
    BY <1>1, AppendProperties
  <1>3. ASSUME NEW W, NEW R
        PROVE  /\ Waits(events', R) <=> Waits(events, R) \/ e \in R
               /\ (Redressed(events, W, R) \/ e \in R) /\ e \notin W => Redressed(events', W, R)
    BY <1>1, AppendWaits
  <1>4. ASSUME NEW k \in Kinds \ {"connection", "grabbing"}
        PROVE  /\ e.of # k \/ ~Pending(k) => Single(events', k)
               /\ Pending(k)' <=> Pending(k) \/ e.of = k
    <2>1. Single(events, k)
      BY DEF TypeOK, Kinds
    <2> QED
      BY <1>1, <2>1, AppendSingle DEF Pending
  <1> QED
    BY <1>2, <1>3, <1>4

\* The event of an operation is forgotten.
LEMMA Forgetting ==
    ASSUME TypeOK, NEW what \in Operations \cup {"connect"}, events' = Forgotten(events, what)
    PROVE  /\ events' \in Seq(Events)
           /\ \A R : (\A e \in R : e.of # what) => (Waits(events', R) <=> Waits(events, R))
           /\ \A W, R : (\A e \in R : e.of # what) /\ Redressed(events, W, R)
                            => Redressed(events', W, R)
           /\ \A k \in Kinds \ {"connection", "grabbing"} :
                 /\ Single(events', k)
                 /\ Pending(k)' <=> Pending(k) /\ k # what
  <1>1. events \in Seq(Events) /\ Single(events, what)
    BY DEF TypeOK, Events
  <1>2. events' \in Seq(Events)
    BY <1>1, ForgottenIs
  <1>3. ASSUME NEW W, NEW R, \A e \in R : e.of # what
        PROVE  /\ Waits(events', R) <=> Waits(events, R)
               /\ Redressed(events, W, R) => Redressed(events', W, R)
    BY <1>1, <1>3, ForgottenWaits
  <1>4. ASSUME NEW k \in Kinds \ {"connection", "grabbing"}
        PROVE  /\ Single(events', k)
               /\ Pending(k)' <=> Pending(k) /\ k # what
    <2>1. Single(events, k)
      BY DEF TypeOK, Kinds
    <2> QED
      BY <1>1, <2>1, ForgottenSingle DEF Pending
  <1> QED
    BY <1>2, <1>3, <1>4

\* The first event is taken, and perhaps that of a reading forgotten.
LEMMA Taking ==
    ASSUME TypeOK, events # << >>, NEW e, e = Head(events),
           events' = Tail(events) \/ events' = Forgotten(Tail(events), "features")
    PROVE  /\ events' \in Seq(Events) /\ e \in Events
           /\ \A R : (\A x \in R : x.of # "features") \/ events' = Tail(events)
                       => (Waits(events, R) <=> Waits(events', R) \/ e \in R)
           /\ \A W, R : ((\A x \in R : x.of # "features") \/ events' = Tail(events))
                            /\ Redressed(events, W, R)
                       => Redressed(events', W, R) /\ (e \in W => Waits(events', R))
           /\ \A k \in Kinds \ {"connection", "grabbing"} :
                 /\ Single(events', k)
                 /\ e.of = k => ~Pending(k)'
                 /\ k # "features" => (Pending(k) <=> Pending(k)' \/ e.of = k)
                 /\ Pending(k)' => Pending(k)
                 /\ events' = Forgotten(Tail(events), "features") /\ k = "features" => ~Pending(k)'
  <1> DEFINE q == Tail(events)
             p == Forgotten(q, "features")
  <1>1. /\ events \in Seq(Events) /\ q \in Seq(Events) /\ e \in Events
        /\ \A k \in Kinds \ {"connection", "grabbing"} : Single(events, k) /\ Single(q, k)
    <2>1. events \in Seq(Events) /\ \A k \in Kinds \ {"connection", "grabbing"} : Single(events, k)
      BY DEF TypeOK, Events, Kinds
    <2> QED
      BY <2>1, TailSingle, TailWaits
  <1>2. Single(q, "features") /\ p \in Seq(Events)
    <2>1. Single(q, "features")
      BY <1>1 DEF Kinds, Operations
    <2> QED
      BY <1>1, <2>1, ForgottenIs
  <1>3. ASSUME NEW W, NEW R
        PROVE  /\ Waits(events, R) <=> Waits(q, R) \/ e \in R
               /\ Redressed(events, W, R) => Redressed(q, W, R) /\ (e \in W => Waits(q, R))
               /\ (\A x \in R : x.of # "features") =>
                     /\ Waits(p, R) <=> Waits(q, R)
                     /\ Redressed(q, W, R) => Redressed(p, W, R)
    <2>1. /\ Waits(events, R) <=> Waits(q, R) \/ e \in R
          /\ Redressed(events, W, R) => Redressed(q, W, R) /\ (e \in W => Waits(q, R))
      BY <1>1, TailWaits
    <2>2. (\A x \in R : x.of # "features") =>
                     /\ Waits(p, R) <=> Waits(q, R)
                     /\ Redressed(q, W, R) => Redressed(p, W, R)
      BY <1>1, <1>2, ForgottenWaits
    <2> QED
      BY <2>1, <2>2
  <1>4. ASSUME NEW k \in Kinds \ {"connection", "grabbing"}
        PROVE  /\ Single(p, k)
               /\ e.of = k => \A i \in DOMAIN q : q[i].of # k
               /\ Pending(k) <=> e.of = k \/ \E i \in DOMAIN q : q[i].of = k
               /\ k = "features" => \A i \in DOMAIN p : p[i].of # k
               /\ k # "features" => ((\E i \in DOMAIN p : p[i].of = k)
                                       <=> \E i \in DOMAIN q : q[i].of = k)
    <2>1. Single(events, k) /\ Single(q, k)
      BY <1>1
    <2>2. /\ e.of = k => \A i \in DOMAIN q : q[i].of # k
          /\ Pending(k) <=> e.of = k \/ \E i \in DOMAIN q : q[i].of = k
      BY <1>1, <2>1, TailSingle DEF Pending
    <2>3. /\ Single(p, k)
          /\ k = "features" => \A i \in DOMAIN p : p[i].of # k
          /\ k # "features" => ((\E i \in DOMAIN p : p[i].of = k)
                                  <=> \E i \in DOMAIN q : q[i].of = k)
      <3> HIDE DEF q
      <3>1. /\ Single(p, k)
            /\ k = "features" => \A i \in DOMAIN p : p[i].of # "features"
            /\ k # "features" => ((\E i \in DOMAIN p : p[i].of = k)
                                    <=> \E i \in DOMAIN q : q[i].of = k)
        BY <1>1, <1>2, <2>1, ForgottenSingle
      <3> QED
        BY <3>1
    <2> QED
      BY <2>2, <2>3
  <1> HIDE DEF q, p
  <1>5. events' = q \/ events' = p
    BY DEF q, p
  <1>6. ASSUME NEW R, (\A x \in R : x.of # "features") \/ events' = q
        PROVE  Waits(events, R) <=> Waits(events', R) \/ e \in R
    BY <1>3, <1>5, <1>6
  <1>7. ASSUME NEW W, NEW R, (\A x \in R : x.of # "features") \/ events' = q,
               Redressed(events, W, R)
        PROVE  Redressed(events', W, R) /\ (e \in W => Waits(events', R))
    BY <1>3, <1>5, <1>7
  <1>8. ASSUME NEW k \in Kinds \ {"connection", "grabbing"}
        PROVE  /\ Single(events', k)
               /\ e.of = k => ~Pending(k)'
               /\ k # "features" => (Pending(k) <=> Pending(k)' \/ e.of = k)
               /\ Pending(k)' => Pending(k)
               /\ events' = p /\ k = "features" => ~Pending(k)'
    <2>1. CASE events' = q
      <3>1. Single(events', k)
        BY <1>1, <2>1
      <3>2. Pending(k)' <=> \E i \in DOMAIN q : q[i].of = k
        BY <2>1 DEF Pending
      <3>3. events' = p /\ k = "features" => ~Pending(k)'
        BY <1>4 DEF Pending
      <3> QED
        BY <1>4, <3>1, <3>2, <3>3
    <2>2. CASE events' = p
      <3>1. Single(events', k)
        BY <1>4, <2>2
      <3>2. Pending(k)' <=> \E i \in DOMAIN p : p[i].of = k
        BY <2>2 DEF Pending
      <3> QED
        BY <1>4, <3>1, <3>2
    <2> QED
      BY <1>5, <2>1, <2>2
  <1> QED
    BY <1>1, <1>2, <1>5, <1>6, <1>7, <1>8 DEF q, p


-----------------------------------------------------------------------------
(* The groups of steps, as the invariants see them. *)

\* The parts of the controls that decide what is shown, but for Live.
Alike(u, v) ==
    /\ v.connectOn = u.connectOn /\ v.connectChecked = u.connectChecked
    /\ v.refreshOn = u.refreshOn /\ v.oneOn = u.oneOn /\ v.liveOn = u.liveOn
    /\ v.editors = u.editors /\ v.label = u.label /\ v.grabbing = u.grabbing
    /\ v.parameterUpdateActive = u.parameterUpdateActive

\* grab() and stop() outside the pool: nothing, the start of an acquisition, the end of
\* one that is notified, the notification of a start, an end that nobody knows of yet.
Flagging ==
    \/ /\ UNCHANGED <<isGrabbing, ending, events>>
       /\ starting' = starting \/ ~isGrabbing
    \/ /\ isOpened /\ isGrabbing' /\ starting'
       /\ UNCHANGED <<ending, events>>
    \/ /\ events' = Append(events, Event("grabbing", FALSE))
       /\ isGrabbing' => isGrabbing /\ starting' = starting /\ ending # "nobody"
    \/ /\ events' = Append(events, Event("grabbing", TRUE))
       /\ starting /\ UNCHANGED <<isGrabbing, ending>>
    \/ /\ isGrabbing /\ ~isGrabbing' /\ ending' # "nobody" /\ UNCHANGED events

\* A step of them.
StatusStep ==
    /\ UNCHANGED <<isOpened, connecting, watching, running, reading>>
    /\ isGrabbing' \in BOOLEAN /\ starting' \in BOOLEAN
    /\ ending' \in {"nobody", "worker", "pool"}
    /\ ui' \in Controls /\ Alike(ui, ui')
    /\ isGrabbing' /\ ui.liveChecked => ui'.liveChecked
    /\ Flagging

\* The user clicks Refresh or edits a parameter: o runs.
BeginStep(o) ==
    /\ running' = running \cup {o} /\ events' = Forgotten(events, o)
    /\ UNCHANGED <<facade, connecting, watching, reading>>
    /\ ui' \in Controls /\ ui'.label = Status(ui')
    /\ ui'.connectChecked = ui.connectChecked /\ ui'.grabbing = ui.grabbing
    /\ ui'.liveChecked = ui.liveChecked
    /\ ui'.parameterUpdateActive = (o = "param" \/ ui.parameterUpdateActive)
    /\ IF o = "discover"
         THEN ui'.liveOn = ui.liveOn /\ ui'.oneOn = ui.oneOn /\ ui'.editors = ui.editors
         ELSE ~ui'.oneOn /\ ui'.editors # "on"

\* The user clicks Connect: thread t runs open() or close(), and is watched.
ToggleStep(t) ==
    /\ connecting[t] \in {"idle"} \cup Returned
    /\ connecting' = [s \in Threads |->
         IF s = t THEN IF ui.connectChecked THEN "stopping" ELSE "open"
         ELSE IF connecting[s] \in Returned THEN "idle" ELSE connecting[s]]
    /\ watching' = {t}
    /\ events' = Forgotten(events, "connect")
    /\ UNCHANGED <<facade, running, reading>>
    /\ ui' \in Controls /\ ui'.label = Status(ui')
    /\ ui'.connectChecked = ~ui.connectChecked /\ ui'.grabbing = ui.grabbing
    /\ ui'.liveChecked = ui.liveChecked
    /\ ui'.parameterUpdateActive = ui.parameterUpdateActive
    /\ ui'.oneOn = ui.oneOn /\ ui'.liveOn = ui.liveOn /\ ui'.editors = ui.editors

\* An operation of the pool ends, and its event waits.
EndStep(o) ==
    /\ o \in running /\ running' = running \ {o}
    /\ events' = Append(events, Event(o, TRUE))
    /\ UNCHANGED <<facade, connecting, watching>>
    /\ reading' \in {"none", "new", "old"}
    /\ ui' \in Controls /\ Alike(ui, ui') /\ ui'.liveChecked = ui.liveChecked

\* grab() is skipped or fails early, or begins an acquisition.
LEMMA GrabFlags ==
    ASSUME GrabFacade, isGrabbing \in BOOLEAN, starting \in BOOLEAN
    PROVE  /\ UNCHANGED <<isOpened, ending>> /\ isGrabbing' \in BOOLEAN /\ starting' \in BOOLEAN
           /\ Flagging
  <1>1. CASE UNCHANGED <<isGrabbing, starting>>
    BY <1>1 DEF GrabFacade, Flagging
  <1>2. CASE isOpened /\ ~isGrabbing /\ isGrabbing' = TRUE /\ starting' = TRUE
    BY <1>2 DEF GrabFacade, Flagging
  <1> QED
    BY <1>1, <1>2 DEF GrabFacade

\* stop() ends an acquisition and posts that, or finds none.
LEMMA StopFlags ==
    ASSUME StopFacade, isGrabbing \in BOOLEAN, starting \in BOOLEAN
    PROVE  /\ UNCHANGED <<isOpened, starting, ending>> /\ ~isGrabbing' /\ isGrabbing' \in BOOLEAN
           /\ Flagging
  <1>1. CASE isGrabbing
    BY <1>1 DEF StopFacade, Flagging
  <1>2. CASE ~isGrabbing
    BY <1>2 DEF StopFacade, Flagging
  <1> QED
    BY <1>1, <1>2

\* Every call of grab() and stop() outside open() and close() is a StatusStep.
LEMMA StatusSteps ==
    ASSUME TypeOK, GrabOneClicked \/ GrabLiveToggled \/ HostCalls
                      \/ GrabReturns \/ AcquisitionEnds \/ WorkerNotifies
    PROVE  StatusStep
  <1>1. /\ isOpened \in BOOLEAN /\ isGrabbing \in BOOLEAN /\ starting \in BOOLEAN
        /\ ending \in {"nobody", "worker", "pool"} /\ ui \in Controls
    BY DEF TypeOK
  <1>2. ui' = ui => ui' \in Controls /\ Alike(ui, ui') /\ ui'.liveChecked = ui.liveChecked
    BY <1>1 DEF Alike
  <1>3. CASE GrabOneClicked \/ HostCalls
    <2>1. /\ GrabFacade \/ StopFacade
          /\ UNCHANGED <<connecting, watching, running, reading, ui>>
      BY <1>3 DEF GrabOneClicked, HostCalls, pool
    <2> QED
      BY <1>1, <1>2, <2>1, GrabFlags, StopFlags DEF StatusStep
  <1>4. CASE GrabLiveToggled
    <2>1. /\ IF ui.liveChecked THEN StopFacade ELSE GrabFacade
          /\ UNCHANGED <<connecting, watching, running, reading>>
          /\ ui' = [ui EXCEPT !.liveChecked = ~@]
      BY <1>4 DEF GrabLiveToggled, pool
    <2>2. ui' \in Controls /\ Alike(ui, ui')
      BY <1>1, <2>1 DEF Alike, Controls
    <2> QED
      BY <1>1, <2>1, <2>2, GrabFlags, StopFlags DEF StatusStep
  <1>5. CASE GrabReturns
    <2>1. /\ starting /\ starting' = FALSE
          /\ UNCHANGED <<isOpened, connecting, watching, running, reading, ui>>
          /\ \/ /\ events' = Append(events, Event("grabbing", TRUE))
                /\ UNCHANGED <<isGrabbing, ending>>
             \/ /\ UNCHANGED ending /\ isGrabbing' = FALSE
                /\ events' = IF isGrabbing THEN Append(events, Event("grabbing", FALSE)) ELSE events
      BY <1>5 DEF GrabReturns, pool
    <2>2. Flagging /\ isGrabbing' \in BOOLEAN
      BY <1>1, <2>1 DEF Flagging
    <2> QED
      BY <1>1, <1>2, <2>1, <2>2 DEF StatusStep
  <1>6. CASE AcquisitionEnds
    <2>1. /\ isGrabbing /\ isGrabbing' = FALSE /\ ending' = "worker"
          /\ UNCHANGED <<isOpened, starting, connecting, watching, running, reading, events, ui>>
      BY <1>6 DEF AcquisitionEnds, pool
    <2>2. Flagging
      BY <2>1 DEF Flagging
    <2> QED
      BY <1>1, <1>2, <2>1, <2>2 DEF StatusStep
  <1>7. CASE WorkerNotifies
    <2>1. /\ ending = "worker" /\ ending' = "nobody"
          /\ events' = Append(events, Event("grabbing", FALSE))
          /\ UNCHANGED <<isOpened, isGrabbing, starting, connecting, watching>>
          /\ UNCHANGED <<running, reading, ui>>
      BY <1>7 DEF WorkerNotifies, Posts, pool
    <2>2. Flagging
      BY <2>1 DEF Flagging
    <2> QED
      BY <1>1, <1>2, <2>1, <2>2 DEF StatusStep
  <1> QED
    BY <1>3, <1>4, <1>5, <1>6, <1>7

\* A click on Refresh and an edit are BeginSteps.
LEMMA BeginSteps ==
    ASSUME TypeOK, RefreshClicked \/ ParameterChanged
    PROVE  \E o \in {"discover", "param"} : BeginStep(o)
  <1>1. isOpened \in BOOLEAN /\ ui \in Controls
    BY DEF TypeOK
  <1>2. CASE RefreshClicked
    <2> DEFINE w == [ui EXCEPT !.refreshOn = FALSE, !.connectOn = FALSE]
    <2>1. /\ running' = running \cup {"discover"} /\ events' = Forgotten(events, "discover")
          /\ UNCHANGED <<facade, connecting, watching, reading>>
          /\ ui' = UpdateStatusLabel(w)
      BY <1>2 DEF RefreshClicked
    <2>a. isOpened' = isOpened
      BY <2>1 DEF facade
    <2>2. /\ w \in Controls /\ Keeps(ui, w)
          /\ w.liveOn = ui.liveOn /\ w.oneOn = ui.oneOn /\ w.editors = ui.editors
      BY <1>1 DEF Controls, Keeps
    <2> HIDE DEF w
    <2>3. /\ ui' \in Controls /\ Keeps(w, ui') /\ ui'.label = Status(ui')
          /\ ui'.liveOn = w.liveOn /\ ui'.oneOn = w.oneOn /\ ui'.editors = w.editors
      BY <1>1, <2>1, <2>2, LabelIs
    <2>4. ui.parameterUpdateActive \in BOOLEAN
      BY <1>1 DEF Controls
    <2>5. BeginStep("discover")
      BY <2>1, <2>a, <2>2, <2>3, <2>4 DEF BeginStep, Keeps
    <2> QED
      BY <2>5
  <1>3. CASE ParameterChanged
    <2> DEFINE w == [ui EXCEPT !.parameterUpdateActive = TRUE, !.current = FALSE]
    <2>1. /\ running' = running \cup {"param"} /\ events' = Forgotten(events, "param")
          /\ UNCHANGED <<facade, connecting, watching, reading>>
          /\ ui' = Busy(w)
      BY <1>3 DEF ParameterChanged
    <2>a. isOpened' = isOpened
      BY <2>1 DEF facade
    <2>2. /\ w \in Controls /\ w.parameterUpdateActive = TRUE
          /\ w.connectChecked = ui.connectChecked /\ w.grabbing = ui.grabbing
          /\ w.liveChecked = ui.liveChecked
      BY <1>1 DEF Controls
    <2> HIDE DEF w
    <2>3. /\ ui' \in Controls /\ Keeps(w, ui') /\ ui'.label = Status(ui')
          /\ ~ui'.oneOn /\ ui'.editors # "on"
      BY <1>1, <2>1, <2>2, BusyIs
    <2>4. BeginStep("param")
      BY <2>1, <2>a, <2>2, <2>3 DEF BeginStep, Keeps
    <2> QED
      BY <2>4
  <1> QED
    BY <1>2, <1>3

\* A click on Connect is a ToggleStep.
LEMMA ToggleSteps ==
    ASSUME TypeOK, ConnectToggled
    PROVE  \E t \in Threads : ToggleStep(t)
  <1> DEFINE w == [ui EXCEPT !.connectChecked = ~@]
  <1>1. /\ isOpened \in BOOLEAN /\ ui \in Controls
    BY DEF TypeOK
  <1>2. PICK t \in Threads :
          /\ connecting[t] \in {"idle"} \cup Returned
          /\ connecting' = [s \in Threads |->
               IF s = t THEN IF ui.connectChecked THEN "stopping" ELSE "open"
               ELSE IF connecting[s] \in Returned THEN "idle" ELSE connecting[s]]
          /\ watching' = {t}
    BY DEF ConnectToggled
  <1>3. /\ events' = Forgotten(events, "connect")
        /\ UNCHANGED <<facade, running, reading>>
        /\ ui' = SetConnectionOperationActive(w, TRUE)
    BY DEF ConnectToggled
  <1>4. /\ w \in Controls /\ w.connectChecked = ~ui.connectChecked /\ w.grabbing = ui.grabbing
        /\ w.liveChecked = ui.liveChecked /\ w.parameterUpdateActive = ui.parameterUpdateActive
        /\ w.oneOn = ui.oneOn /\ w.liveOn = ui.liveOn /\ w.editors = ui.editors
    BY <1>1 DEF Controls
  <1> HIDE DEF w
  <1>5. /\ ui' \in Controls /\ Keeps(w, ui') /\ ui'.label = Status(ui')
        /\ ui'.oneOn = w.oneOn /\ ui'.liveOn = w.liveOn /\ ui'.editors = w.editors
    BY <1>1, <1>3, <1>4, ActiveIs
  <1>6. ToggleStep(t)
    BY <1>2, <1>3, <1>4, <1>5 DEF ToggleStep, Keeps
  <1> QED
    BY <1>6

\* The ends of the pool's other operations are EndSteps.
LEMMA EndSteps ==
    ASSUME TypeOK, Writing \/ Finishing
    PROVE  \E o \in Operations : EndStep(o)
  <1>1. ui \in Controls /\ running \subseteq Operations /\ reading \in {"none", "new", "old"}
    BY DEF TypeOK
  <1>2. CASE Writing
    <2>1. /\ "param" \in running /\ running' = running \ {"param"}
          /\ events' = Append(events, Event("param", TRUE))
          /\ UNCHANGED <<facade, connecting, watching>>
          /\ ui' = [ui EXCEPT !.current = FALSE]
          /\ reading' = "old" \/ reading' = reading
      BY <1>2 DEF Writing, Posts
    <2>2. /\ ui' \in Controls /\ Alike(ui, ui') /\ ui'.liveChecked = ui.liveChecked
      BY <1>1, <2>1 DEF Controls, Alike
    <2> QED
      BY <1>1, <2>1, <2>2 DEF EndStep
  <1>3. CASE Finishing
    <2>1. PICK o \in running : /\ running' = running \ {o}
                               /\ events' = Append(events, Event(o, TRUE))
                               /\ UNCHANGED <<facade, connecting, watching, reading, ui>>
      BY <1>3 DEF Finishing, Posts
    <2>3. Alike(ui, ui')
      BY <2>1 DEF Alike
    <2> QED
      BY <1>1, <2>1, <2>3 DEF EndStep
  <1> QED
    BY <1>2, <1>3

-----------------------------------------------------------------------------
(* They keep the invariants. *)

\* What waits among R waits among more than R.
LEMMA WaitsMore ==
    ASSUME NEW q, NEW R, NEW S, R \subseteq S, Waits(q, R)
    PROVE  Waits(q, S)
  BY DEF Waits

\* What TypeOK says, in parts: of the flags, of the threads, of events and watchers.
Flags ==
    /\ isOpened \in BOOLEAN /\ isGrabbing \in BOOLEAN /\ starting \in BOOLEAN
    /\ ending \in {"nobody", "worker", "pool"}
    /\ ui \in Controls

Threaded ==
    /\ connecting \in [Threads -> Places] /\ watching \subseteq Threads
    /\ \A s, t \in watching : s = t
    /\ \A t \in watching : connecting[t] # "idle"
    /\ \A t \in Threads : connecting[t] \in Returned => t \in watching

Waiting ==
    /\ events \in Seq(Events)
    /\ running \subseteq Operations /\ reading \in {"none", "new", "old"}
    /\ \A o \in Operations \cup {"connect"} : Single(events, o)
    /\ \A o \in running : ~Pending(o)
    /\ watching # {} => ~Pending("connect")
    /\ ui.parameterUpdateActive <=> "param" \in running \/ Pending("param")

\* TypeOK says these three things.
LEMMA TypeIs == TypeOK <=> Flags /\ Threaded /\ Waiting
  BY DEF TypeOK, Flags, Threaded, Waiting, Events

\* The same of the next state.
LEMMA TypeIsPrime == Flags' /\ Threaded' /\ Waiting' => TypeOK'
  BY DEF TypeOK, Flags, Threaded, Waiting, Events

\* What a step keeps, and under which of the properties' conditions.
Kept ==
    /\ IInv'
    /\ EndInv /\ ~Overtaken => EndInv'
    /\ CloseInv /\ ~GrabMeetsClose' => CloseInv'
    /\ OneInv /\ ~Overlapping /\ ~Overlapping' => OneInv'
    /\ StartInv /\ OneInv /\ CloseInv /\ ~Overlapping /\ ~GrabMeetsEnd => StartInv'

\* Which events a status of an acquisition is among, ...
LEMMA StatusSorts ==
    ASSUME NEW e \in Events, e.of = "grabbing"
    PROVE  /\ e \notin EndsDown /\ e \notin EndsUp /\ e \notin ConnectionUp
           /\ e.on = TRUE => e \in Started /\ e \notin Clears
           /\ e.on = FALSE => e \in Stopped /\ e \notin Started
  <1>1. /\ e \in EndsDown <=> e.of \in Ends /\ e.on = FALSE
        /\ e \in EndsUp <=> e.of \in Ends /\ e.on = TRUE
        /\ e \in ConnectionUp <=> e.of = "connection" /\ e.on = TRUE
        /\ e \in Started <=> e.of = "grabbing" /\ e.on = TRUE
        /\ e \in Stopped <=> e.of \in {"grabbing", "connection"} /\ e.on = FALSE
        /\ e \in Clears <=> e.of \in {"grabbing"} \cup Ends /\ e.on = FALSE
    BY AnswerSorts
  <1>2. e.of \notin Ends /\ e.of # "connection"
    BY DEF Ends
  <1>3. e.on = TRUE => e \in Started /\ e \notin Clears
    <2>1. TRUE # FALSE
      OBVIOUS
    <2> QED
      BY <1>1, <2>1
  <1>4. e.on = FALSE => e \in Stopped /\ e \notin Started
    <2>1. TRUE # FALSE
      OBVIOUS
    <2> QED
      BY <1>1, <2>1
  <1> QED
    BY <1>1, <1>2, <1>3, <1>4

\* a status of a connection, ...
LEMMA ConnectionSorts ==
    ASSUME NEW e \in Events, e.of = "connection"
    PROVE  /\ e \notin Started /\ e \in Settles /\ e \in Switches
           /\ e.on = TRUE => e \in ConnectionUp /\ e \notin EndsDown /\ e \notin Clears
           /\ e.on = FALSE => e \in Stopped
  <1>1. /\ e \in EndsDown <=> e.of \in Ends /\ e.on = FALSE
        /\ e \in ConnectionUp <=> e.of = "connection" /\ e.on = TRUE
        /\ e \in Started <=> e.of = "grabbing" /\ e.on = TRUE
        /\ e \in Stopped <=> e.of \in {"grabbing", "connection"} /\ e.on = FALSE
        /\ e \in Clears <=> e.of \in {"grabbing"} \cup Ends /\ e.on = FALSE
        /\ e \in Settles <=> e.of \in {"connection"} \cup Reads
        /\ e \in Switches <=> e.of \notin {"discover", "connect"}
    BY AnswerSorts
  <1>2. e.on = TRUE => e \in ConnectionUp /\ e \notin EndsDown /\ e \notin Clears
    <2>1. TRUE # FALSE
      OBVIOUS
    <2> QED
      BY <1>1, <2>1
  <1> QED
    BY <1>1, <1>2

\* what _connectWatcher hears, ...
LEMMA ConnectSorts ==
    ASSUME NEW e \in Events, e.of = "connect"
    PROVE  /\ e \notin Started /\ e \notin ConnectionUp /\ e \in Returns
           /\ e.on = TRUE => e \notin EndsDown /\ e \notin Clears
           /\ e.on = FALSE => e \in EndsDown /\ e \notin EndsUp /\ e \in Refreshes
  <1>1. /\ e \in EndsDown <=> e.of \in Ends /\ e.on = FALSE
        /\ e \in EndsUp <=> e.of \in Ends /\ e.on = TRUE
        /\ e \in ConnectionUp <=> e.of = "connection" /\ e.on = TRUE
        /\ e \in Started <=> e.of = "grabbing" /\ e.on = TRUE
        /\ e \in Clears <=> e.of \in {"grabbing"} \cup Ends /\ e.on = FALSE
        /\ e \in Refreshes <=> (e.of \in Ends /\ e.on = FALSE) \/ e.of \in Operations
        /\ e \in Returns <=> e.of # "grabbing"
    BY AnswerSorts
  <1>2. e.on = TRUE => e \notin EndsDown /\ e \notin Clears
    <2>1. TRUE # FALSE
      OBVIOUS
    <2> QED
      BY <1>1, <2>1
  <1>3. e.on = FALSE => e \in EndsDown /\ e \notin EndsUp /\ e \in Refreshes
    <2>1. TRUE # FALSE /\ "connect" \in Ends
      BY DEF Ends
    <2> QED
      BY <1>1, <2>1
  <1> QED
    BY <1>1, <1>2, <1>3

\* and the end of another operation.
LEMMA OperationSorts ==
    ASSUME NEW e \in Events, e.of \in Operations
    PROVE  /\ e \notin EndsDown /\ e \notin EndsUp /\ e \notin ConnectionUp
           /\ e \notin Clears /\ e \notin Started /\ e \in Refreshes /\ e \in Returns
           /\ e.of \in Reads => e \in Settles /\ e \in Switches
  <1>1. /\ e \in EndsDown <=> e.of \in Ends /\ e.on = FALSE
        /\ e \in EndsUp <=> e.of \in Ends /\ e.on = TRUE
        /\ e \in ConnectionUp <=> e.of = "connection" /\ e.on = TRUE
        /\ e \in Started <=> e.of = "grabbing" /\ e.on = TRUE
        /\ e \in Clears <=> e.of \in {"grabbing"} \cup Ends /\ e.on = FALSE
        /\ e \in Refreshes <=> (e.of \in Ends /\ e.on = FALSE) \/ e.of \in Operations
        /\ e \in Returns <=> e.of # "grabbing"
        /\ e \in Settles <=> e.of \in {"connection"} \cup Reads
        /\ e \in Switches <=> e.of \notin {"discover", "connect"}
    BY AnswerSorts
  <1>2. e.of \notin Ends /\ e.of # "connection" /\ e.of # "grabbing"
    BY DEF Ends, Operations
  <1>3. e.of \in Reads => e.of \notin {"discover", "connect"}
    BY DEF Reads
  <1> QED
    BY <1>1, <1>2, <1>3

\* Where the threads are is all that these conditions speak of.
LEMMA ThreadsKept ==
    ASSUME connecting' = connecting
    PROVE  /\ Connecting' = Connecting /\ (Overlapping' <=> Overlapping) /\ (InClose' <=> InClose)
           /\ isOpened' = isOpened => (Unsaid' <=> Unsaid)
  BY DEF Connecting, Overlapping, InClose, Unsaid

\* A StatusStep keeps the invariants: what it changes it posts, or will post.
LEMMA StatusKeeps ==
    ASSUME IInv, StatusStep
    PROVE  Kept
  <1>a. /\ Flags /\ Threaded /\ Waiting
        /\ ConnectInv /\ LiveInv /\ GrabOneInv /\ LabelInv /\ TypeOK
    BY TypeIs DEF IInv
  <1>b. /\ isOpened' = isOpened /\ connecting' = connecting /\ watching' = watching
        /\ running' = running /\ reading' = reading
        /\ ui' \in Controls /\ Alike(ui, ui')
        /\ isGrabbing' /\ ui.liveChecked => ui'.liveChecked
        /\ Flagging
    BY DEF StatusStep
  <1>c. Flags' /\ Threaded'
    BY <1>a, <1>b DEF StatusStep, Flags, Threaded
  <1>d. /\ Connecting' = Connecting /\ (InClose' <=> InClose) /\ (Unsaid' <=> Unsaid)
    BY <1>b, ThreadsKept
  <1>1. CloseInv /\ ~GrabMeetsClose' => CloseInv'
    <2>1. isGrabbing' => isGrabbing \/ (isOpened /\ starting')
      BY <1>b DEF Flagging
    <2> QED
      BY <1>b, <1>d, <2>1 DEF CloseInv, GrabMeetsClose
  <1>2. RunInv => RunInv'
    BY <1>b DEF RunInv
  <1>3. CASE /\ UNCHANGED events
             /\ \/ UNCHANGED <<isGrabbing, ending>> /\ (starting' = starting \/ ~isGrabbing)
                \/ isGrabbing' /\ starting'
                \/ isGrabbing /\ ~isGrabbing' /\ ending' # "nobody"
    <2>1. Waiting'
      BY <1>a, <1>b, <1>3 DEF Waiting, Pending, Alike
    <2>2. ConnectInv' /\ LiveInv' /\ GrabOneInv' /\ LabelInv'
      BY <1>a, <1>b, <1>d, <1>3 DEF ConnectInv, LiveInv, GrabOneInv, LabelInv, Alike, Status
    <2>3. /\ CheckedInv => CheckedInv'
          /\ RefreshInv => RefreshInv'
      BY <1>b, <1>d, <1>3 DEF CheckedInv, RefreshInv, Alike
    <2>4. EndInv => EndInv'
      <3>1. ~isGrabbing' /\ ending' = "nobody" => ~isGrabbing /\ ending = "nobody"
        BY <1>3
      <3> QED
        BY <1>b, <1>3, <3>1 DEF EndInv, Alike
    <2>5. StartInv => StartInv'
      <3>1. isGrabbing' /\ ~starting' => isGrabbing /\ ~starting
        BY <1>3
      <3> QED
        BY <1>b, <1>3, <3>1 DEF StartInv, Alike
    <2> QED
      BY <1>c, <1>1, <1>2, <2>1, <2>2, <2>3, <2>4, <2>5, TypeIsPrime DEF Kept, IInv, OneInv
  <1>4. ASSUME NEW v \in BOOLEAN, events' = Append(events, Event("grabbing", v)),
               v => starting /\ UNCHANGED <<isGrabbing, ending>>,
               ~v /\ isGrabbing' => isGrabbing /\ starting' = starting /\ ending # "nobody"
        PROVE  Kept
    <2> DEFINE e == Event("grabbing", v)
    <2>1. /\ e \in Events /\ e.of = "grabbing" /\ e.on = v /\ events' = Append(events, e)
      BY <1>4, EventIs DEF Kinds
    <2> HIDE DEF e
    <2>2. /\ events' \in Seq(Events) /\ events' # << >>
          /\ \A R : Waits(events', R) <=> Waits(events, R) \/ e \in R
          /\ \A W, R : (Redressed(events, W, R) \/ e \in R) /\ e \notin W
                          => Redressed(events', W, R)
          /\ \A k \in Kinds \ {"connection", "grabbing"} :
                 /\ e.of # k \/ ~Pending(k) => Single(events', k)
                 /\ Pending(k)' <=> Pending(k) \/ e.of = k
      BY <1>a, <2>1, Posting
    <2>3. /\ e \notin EndsDown /\ e \notin EndsUp /\ e \notin ConnectionUp
          /\ v = TRUE => e \in Started /\ e \notin Clears
          /\ v = FALSE => e \in Stopped /\ e \notin Started
      BY <2>1, StatusSorts
    <2>4. Waiting'
      BY <1>a, <1>b, <2>1, <2>2 DEF Waiting, Alike, Kinds, Operations
    <2>5. ConnectInv' /\ LiveInv' /\ GrabOneInv' /\ LabelInv'
      BY <1>a, <1>b, <1>d, <2>2 DEF ConnectInv, LiveInv, GrabOneInv, LabelInv, Alike
    <2>6. /\ CheckedInv => CheckedInv'
          /\ RefreshInv => RefreshInv'
      BY <1>b, <1>d, <2>2, <2>3 DEF CheckedInv, RefreshInv, Alike
    <2>7. EndInv /\ ~Overtaken => EndInv'
      <3>1. CASE v = TRUE
        <4>1. starting /\ isGrabbing' = isGrabbing /\ ending' = ending
          BY <1>4, <3>1
        <4> QED
          BY <4>1 DEF EndInv, Overtaken
      <3>2. CASE v = FALSE
        <4>1. e \in Stopped /\ e \notin Started
          BY <2>3, <3>2
        <4> QED
          BY <2>2, <4>1 DEF EndInv
      <3> QED
        BY <3>1, <3>2
    <2>8. StartInv /\ ~GrabMeetsEnd => StartInv'
      <3>1. CASE v = TRUE
        <4>1. e \in Started /\ e \notin Clears
          BY <2>3, <3>1
        <4> QED
          BY <2>2, <4>1 DEF StartInv
      <3>2. CASE v = FALSE
        <4>1. isGrabbing' => isGrabbing /\ ending # "nobody"
          BY <1>4, <3>2
        <4> QED
          BY <4>1 DEF StartInv, GrabMeetsEnd
      <3> QED
        BY <3>1, <3>2
    <2> QED
      BY <1>c, <1>1, <1>2, <2>4, <2>5, <2>6, <2>7, <2>8, TypeIsPrime DEF Kept, IInv, OneInv
  <1>5. CASE /\ events' = Append(events, Event("grabbing", FALSE))
             /\ isGrabbing' => isGrabbing /\ starting' = starting /\ ending # "nobody"
    BY <1>4, <1>5
  <1>6. CASE /\ events' = Append(events, Event("grabbing", TRUE))
             /\ starting /\ UNCHANGED <<isGrabbing, ending>>
    BY <1>4, <1>6
  <1> QED
    BY <1>b, <1>3, <1>5, <1>6 DEF Flagging

\* A BeginStep keeps them: what it disables its operation will enable.
LEMMA BeginKeeps ==
    ASSUME IInv, NEW o \in {"discover", "param"}, BeginStep(o)
    PROVE  Kept
  <1>a. /\ Flags /\ Threaded /\ Waiting
        /\ ConnectInv /\ LiveInv /\ GrabOneInv /\ LabelInv /\ TypeOK
    BY TypeIs DEF IInv
  <1>b. /\ isOpened' = isOpened /\ isGrabbing' = isGrabbing /\ starting' = starting
        /\ ending' = ending /\ connecting' = connecting /\ watching' = watching
        /\ running' = running \cup {o} /\ reading' = reading /\ events' = Forgotten(events, o)
        /\ ui' \in Controls /\ ui'.label = Status(ui')
        /\ ui'.connectChecked = ui.connectChecked /\ ui'.grabbing = ui.grabbing
        /\ ui'.liveChecked = ui.liveChecked
        /\ ui'.parameterUpdateActive = (o = "param" \/ ui.parameterUpdateActive)
        /\ IF o = "discover"
             THEN ui'.liveOn = ui.liveOn /\ ui'.oneOn = ui.oneOn /\ ui'.editors = ui.editors
             ELSE ~ui'.oneOn /\ ui'.editors # "on"
    BY DEF BeginStep, facade
  <1>c. o \in Operations \cup {"connect"}
    BY DEF Operations
  <1>d. Connecting' = Connecting /\ (InClose' <=> InClose) /\ (Unsaid' <=> Unsaid)
    BY <1>b, ThreadsKept
  <1>1. /\ events' \in Seq(Events)
        /\ \A R : (\A e \in R : e.of # o) => (Waits(events', R) <=> Waits(events, R))
        /\ \A W, R : (\A e \in R : e.of # o) /\ Redressed(events, W, R) => Redressed(events', W, R)
        /\ \A k \in Kinds \ {"connection", "grabbing"} :
                 /\ Single(events', k)
                 /\ Pending(k)' <=> Pending(k) /\ k # o
    BY <1>a, <1>b, <1>c, Forgetting
  <1>2. /\ \A e \in ConnectionUp : e.of # o
        /\ \A e \in EndsDown : e.of # o
        /\ o = "discover" => \A e \in Settles \cup Switches : e.of # o
        /\ \A e \in Started : e.of # o
        /\ \A e \in Stopped : e.of # o
    BY DEF ConnectionUp, EndsDown, Settles, Switches, Started, Stopped, Of, Ends, Reads
  <1>3. Flags' /\ Threaded'
    BY <1>a, <1>b DEF Flags, Threaded
  <1>4. Waiting'
    BY <1>a, <1>b, <1>1 DEF Waiting, Kinds, Operations
  <1>5. ConnectInv' /\ LabelInv'
    BY <1>b DEF ConnectInv, LabelInv, Status
  <1>6. LiveInv' /\ GrabOneInv'
    <2>1. CASE o = "discover"
      <3>1. /\ Waits(events', Settles) <=> Waits(events, Settles)
            /\ Waits(events', Switches) <=> Waits(events, Switches)
        BY <1>1, <1>2, <2>1
      <3> QED
        BY <1>a, <1>b, <1>d, <2>1, <3>1 DEF LiveInv, GrabOneInv
    <2>2. CASE o = "param"
      BY <1>b, <2>2 DEF LiveInv, GrabOneInv, Reads
    <2> QED
      BY <2>1, <2>2
  <1>7. EndInv => EndInv'
    BY <1>b, <1>1, <1>2 DEF EndInv
  <1>8. CloseInv => CloseInv'
    BY <1>b, <1>d DEF CloseInv
  <1>9. OneInv => OneInv'
    <2>1. RunInv => RunInv'
      BY <1>b DEF RunInv
    <2>2. CheckedInv => CheckedInv'
      BY <1>b, <1>d, <1>1, <1>2 DEF CheckedInv
    <2>3. RefreshInv => RefreshInv'
      BY <1>b, <1>d, <1>1, <1>2 DEF RefreshInv
    <2> QED
      BY <2>1, <2>2, <2>3 DEF OneInv
  <1>10. StartInv => StartInv'
    BY <1>b, <1>1, <1>2 DEF StartInv
  <1> QED
    BY <1>3, <1>4, <1>5, <1>6, <1>7, <1>8, <1>9, <1>10, TypeIsPrime DEF Kept, IInv

\* An EndStep keeps them: its event waits instead of the operation.
LEMMA EndKeeps ==
    ASSUME IInv, NEW o \in Operations, EndStep(o)
    PROVE  Kept
  <1> DEFINE e == Event(o, TRUE)
  <1>a. /\ Flags /\ Threaded /\ Waiting
        /\ ConnectInv /\ LiveInv /\ GrabOneInv /\ LabelInv /\ TypeOK
    BY TypeIs DEF IInv
  <1>b. /\ isOpened' = isOpened /\ isGrabbing' = isGrabbing /\ starting' = starting
        /\ ending' = ending /\ connecting' = connecting /\ watching' = watching
        /\ o \in running /\ running' = running \ {o} /\ events' = Append(events, e)
        /\ reading' \in {"none", "new", "old"}
        /\ ui' \in Controls /\ Alike(ui, ui') /\ ui'.liveChecked = ui.liveChecked
    BY DEF EndStep, facade
  <1>c. e \in Events /\ e.of = o
    BY EventIs DEF Kinds
  <1>d. Connecting' = Connecting /\ (InClose' <=> InClose) /\ (Unsaid' <=> Unsaid)
    BY <1>b, ThreadsKept
  <1> HIDE DEF e
  <1>1. /\ events' \in Seq(Events) /\ events' # << >>
        /\ \A R : Waits(events', R) <=> Waits(events, R) \/ e \in R
        /\ \A W, R : (Redressed(events, W, R) \/ e \in R) /\ e \notin W
                        => Redressed(events', W, R)
        /\ \A k \in Kinds \ {"connection", "grabbing"} :
               /\ e.of # k \/ ~Pending(k) => Single(events', k)
               /\ Pending(k)' <=> Pending(k) \/ e.of = k
    BY <1>a, <1>b, <1>c, Posting
  <1>2. /\ e \notin EndsDown /\ e \notin EndsUp /\ e \notin ConnectionUp
        /\ e \notin Clears /\ e \notin Started /\ e \in Refreshes /\ e \in Returns
        /\ o \in Reads => e \in Settles /\ e \in Switches
    BY <1>c, OperationSorts
  <1>3. Flags' /\ Threaded'
    BY <1>a, <1>b DEF Flags, Threaded
  <1>4. Waiting'
    BY <1>a, <1>b, <1>c, <1>1 DEF Waiting, Kinds, Operations, Alike
  <1>5. ConnectInv' /\ LabelInv'
    BY <1>1, <1>2 DEF ConnectInv, LabelInv
  <1>6. LiveInv' /\ GrabOneInv'
    <2>1. CASE o \in Reads
      BY <1>1, <1>2, <2>1 DEF LiveInv, GrabOneInv
    <2>2. CASE o \notin Reads
      <3>1. running' \cap Reads = running \cap Reads
        BY <1>b, <2>2
      <3> QED
        BY <1>a, <1>b, <1>d, <1>1, <3>1 DEF LiveInv, GrabOneInv, Alike
    <2> QED
      BY <2>1, <2>2
  <1>7. EndInv => EndInv'
    BY <1>b, <1>1, <1>2 DEF EndInv, Alike
  <1>8. CloseInv => CloseInv'
    BY <1>b, <1>d DEF CloseInv
  <1>9. OneInv => OneInv'
    <2>1. RunInv => RunInv'
      BY <1>b DEF RunInv
    <2>2. CheckedInv => CheckedInv'
      BY <1>b, <1>d, <1>1, <1>2 DEF CheckedInv, Alike
    <2>3. RefreshInv => RefreshInv'
      BY <1>b, <1>d, <1>1, <1>2 DEF RefreshInv
    <2> QED
      BY <2>1, <2>2, <2>3 DEF OneInv
  <1>10. StartInv => StartInv'
    BY <1>b, <1>1, <1>2 DEF StartInv, Alike
  <1> QED
    BY <1>3, <1>4, <1>5, <1>6, <1>7, <1>8, <1>9, <1>10, TypeIsPrime DEF Kept, IInv

-----------------------------------------------------------------------------
(* open() and close(), and their ends. *)

\* A ToggleStep keeps the invariants: its operation is watched, and no other is; what its
\* thread or another has done to the facade and not yet said is as before.
LEMMA ToggleKeeps ==
    ASSUME IInv, NEW t \in Threads, ToggleStep(t)
    PROVE  Kept
  <1>a. /\ Flags /\ Threaded /\ Waiting
        /\ ConnectInv /\ LiveInv /\ GrabOneInv /\ LabelInv /\ TypeOK
    BY TypeIs DEF IInv
  <1>b. /\ isOpened' = isOpened /\ isGrabbing' = isGrabbing /\ starting' = starting
        /\ ending' = ending /\ running' = running /\ reading' = reading /\ watching' = {t}
        /\ events' = Forgotten(events, "connect")
        /\ ui' \in Controls /\ ui'.label = Status(ui')
        /\ ui'.connectChecked = ~ui.connectChecked /\ ui'.grabbing = ui.grabbing
        /\ ui'.liveChecked = ui.liveChecked
        /\ ui'.parameterUpdateActive = ui.parameterUpdateActive
        /\ ui'.oneOn = ui.oneOn /\ ui'.liveOn = ui.liveOn /\ ui'.editors = ui.editors
    BY DEF ToggleStep, facade
  <1>c. /\ connecting[t] \in {"idle"} \cup Returned
        /\ connecting' = [s \in Threads |->
             IF s = t THEN IF ui.connectChecked THEN "stopping" ELSE "open"
             ELSE IF connecting[s] \in Returned THEN "idle" ELSE connecting[s]]
    BY DEF ToggleStep
  <1>d. /\ connecting'[t] = IF ui.connectChecked THEN "stopping" ELSE "open"
        /\ \A s \in Threads : s # t =>
              connecting'[s] = IF connecting[s] \in Returned THEN "idle" ELSE connecting[s]
    BY <1>c
  <1>e. "idle" \notin Returned /\ "stopping" \notin Returned /\ "open" \notin Returned
    BY DEF Returned
  <1>1. /\ events' \in Seq(Events)
        /\ \A R : (\A e \in R : e.of # "connect") => (Waits(events', R) <=> Waits(events, R))
        /\ \A W, R : (\A e \in R : e.of # "connect") /\ Redressed(events, W, R)
                         => Redressed(events', W, R)
        /\ \A k \in Kinds \ {"connection", "grabbing"} :
                 /\ Single(events', k)
                 /\ Pending(k)' <=> Pending(k) /\ k # "connect"
    <2>1. "connect" \in Operations \cup {"connect"}
      OBVIOUS
    <2> QED
      BY <1>a, <1>b, <2>1, Forgetting
  <1>2. /\ \A e \in ConnectionUp : e.of # "connect"
        /\ \A e \in Started : e.of # "connect"
        /\ \A e \in Stopped : e.of # "connect"
        /\ \A e \in Settles : e.of # "connect"
        /\ \A e \in Switches : e.of # "connect"
    BY DEF ConnectionUp, Started, Stopped, Settles, Switches, Of, Reads
  <1>3. Flags'
    BY <1>a, <1>b DEF Flags
  <1>4. Threaded'
    <2>1. connecting' \in [Threads -> Places]
      BY <1>a, <1>c DEF Threaded, Places
    <2>2. \A s \in Threads : connecting'[s] \notin Returned
      BY <1>d, <1>e
    <2>3. connecting'[t] # "idle"
      BY <1>d
    <2> QED
      BY <1>b, <2>1, <2>2, <2>3 DEF Threaded
  <1>5. Waiting'
    BY <1>a, <1>b, <1>1 DEF Waiting, Kinds, Operations
  <1>6. Unsaid => Unsaid'
    <2> SUFFICES ASSUME Unsaid PROVE Unsaid'
      OBVIOUS
    <2>1. PICK s \in Threads : connecting[s] \in
            IF isOpened THEN {"opened", "stopping", "notifying", "closing"} ELSE {"closed"}
      BY DEF Unsaid
    <2>2. connecting[s] \notin {"idle"} \cup Returned
      BY <2>1 DEF Returned
    <2>3. connecting'[s] = connecting[s]
      BY <1>c, <1>d, <2>2
    <2> QED
      BY <1>b, <2>1, <2>3 DEF Unsaid
  <1>7. ConnectInv' /\ LabelInv'
    BY <1>b DEF ConnectInv, LabelInv, Status
  <1>8. LiveInv' /\ GrabOneInv'
    <2>1. /\ Waits(events', Settles) <=> Waits(events, Settles)
          /\ Waits(events', Switches) <=> Waits(events, Switches)
      BY <1>1, <1>2
    <2> QED
      BY <1>a, <1>b, <1>6, <2>1 DEF LiveInv, GrabOneInv
  <1>9. EndInv => EndInv'
    BY <1>b, <1>1, <1>2 DEF EndInv
  <1>10. CloseInv => CloseInv'
    <2>1. InClose' => InClose
      <3> SUFFICES ASSUME NEW s \in Threads, connecting'[s] \in {"notifying", "closing"}
                   PROVE  connecting[s] \in {"notifying", "closing"}
        BY DEF InClose
      <3> QED
        BY <1>d
    <2> QED
      BY <1>b, <2>1 DEF CloseInv
  <1>11. StartInv => StartInv'
    BY <1>b, <1>1, <1>2 DEF StartInv
  <1>12. ASSUME OneInv, ~Overlapping' PROVE OneInv'
    <2>1. t \in Connecting'
      BY <1>d DEF Connecting
    <2>2. \A s \in Threads : s # t => connecting'[s] = "idle"
      BY <1>12, <2>1 DEF Overlapping, Connecting
    <2>3. \A s \in Threads : connecting[s] \in {"idle"} \cup Returned
      BY <1>c, <1>d, <2>2
    <2>4. RunInv'
      BY <1>b, <1>d, <2>2 DEF RunInv
    <2>5. CheckedInv'
      <3> SUFFICES ASSUME isOpened',
                          \A s \in Connecting' : connecting'[s] \in {"open"} \cup Returned
                   PROVE  Redressed(events', EndsDown, ConnectionUp) /\ ui'.connectChecked
        BY <2>1 DEF CheckedInv
      <3>1. connecting'[t] = "open"
        BY <1>d, <1>e, <2>1
      <3>2. \A s \in Connecting : connecting[s] \in {"open"} \cup Returned
        BY <2>3 DEF Connecting
      <3>3. Redressed(events, EndsDown, ConnectionUp)
        BY <1>b, <1>12, <3>2 DEF OneInv, CheckedInv
      <3> QED
        BY <1>b, <1>d, <1>1, <1>2, <3>1, <3>3
    <2>6. RefreshInv'
      BY <2>1 DEF RefreshInv
    <2> QED
      BY <2>4, <2>5, <2>6 DEF OneInv
  <1> QED
    BY <1>3, <1>4, <1>5, <1>7, <1>8, <1>9, <1>10, <1>11, <1>12, TypeIsPrime DEF Kept, IInv

\* What open() and close() do on the way from one place to the next.
Path(from, next) ==
    \/ /\ \/ from = "open" /\ next = "succeeded" /\ isOpened
          \/ from = "open" /\ next = "resolving" /\ ~isOpened
          \/ from \in {"resolving", "opened"} /\ next = "stopping"
          \/ from = "stopping" /\ next = "closing" /\ ~isGrabbing
          \/ from = "closing" /\ next = "failed" /\ ~isOpened
       /\ UNCHANGED <<isOpened, isGrabbing, ending, events>>
    \/ /\ from = "resolving" /\ next = "opened"
       /\ isOpened' = TRUE /\ UNCHANGED <<isGrabbing, ending, events>>
    \/ /\ from = "stopping" /\ next = "notifying"
       /\ isGrabbing' = FALSE /\ ending' = "pool" /\ UNCHANGED <<isOpened, events>>
    \/ /\ from = "closing" /\ next = "closed"
       /\ isOpened' = FALSE /\ UNCHANGED <<isGrabbing, ending, events>>
    \/ /\ from = "notifying" /\ next = "closing"
       /\ ending' = "nobody" /\ UNCHANGED <<isOpened, isGrabbing>>
       /\ events' = Append(events, Event("grabbing", FALSE))
    \/ /\ from = "opened" /\ next = "succeeded"
       /\ UNCHANGED <<isOpened, isGrabbing, ending>>
       /\ events' = Append(events, Event("connection", TRUE))
    \/ /\ from = "closed" /\ next = "failed"
       /\ UNCHANGED <<isOpened, isGrabbing, ending>>
       /\ events' = Append(events, Event("connection", FALSE))

\* Thread t goes on to next.
RunStep(t, next) ==
    /\ Goes(t, next)
    /\ UNCHANGED <<starting, watching, running, reading, ui>>
    /\ Path(connecting[t], next)

\* The steps of open() and close() before they return are RunSteps.
LEMMA RunSteps ==
    ASSUME TypeOK,
           Opening \/ Resolving \/ Opened \/ Stopping \/ Notifying \/ Closing \/ Closed
    PROVE  \E t \in Threads, next \in Places : RunStep(t, next)
  <1>1. isOpened \in BOOLEAN /\ isGrabbing \in BOOLEAN
    BY DEF TypeOK
  <1>2. /\ "succeeded" \in Places /\ "resolving" \in Places /\ "opened" \in Places
        /\ "stopping" \in Places /\ "notifying" \in Places /\ "closing" \in Places
        /\ "closed" \in Places /\ "failed" \in Places
    BY DEF Places, Returned
  <1>3. CASE Opening
    <2>1. PICK t \in Threads : /\ connecting[t] = "open"
                               /\ Goes(t, IF isOpened THEN "succeeded" ELSE "resolving")
      BY <1>3 DEF Opening
    <2>2. UNCHANGED <<isOpened, isGrabbing, ending, events>>
          /\ UNCHANGED <<starting, watching, running, reading, ui>>
      BY <1>3 DEF Opening, facade
    <2>3. CASE isOpened
      <3>1. RunStep(t, "succeeded")
        BY <2>1, <2>2, <2>3 DEF RunStep, Path
      <3> QED
        BY <1>2, <3>1
    <2>4. CASE ~isOpened
      <3>1. RunStep(t, "resolving")
        BY <2>1, <2>2, <2>4 DEF RunStep, Path
      <3> QED
        BY <1>2, <3>1
    <2> QED
      BY <2>3, <2>4
  <1>4. CASE Resolving
    <2>1. PICK t \in Threads : /\ connecting[t] = "resolving"
                               /\ \/ isOpened' = TRUE /\ Goes(t, "opened")
                                  \/ UNCHANGED isOpened /\ Goes(t, "stopping")
      BY <1>4 DEF Resolving
    <2>2. UNCHANGED <<isGrabbing, starting, ending, watching, running, reading, events, ui>>
      BY <1>4 DEF Resolving
    <2>3. RunStep(t, "opened") \/ RunStep(t, "stopping")
      BY <2>1, <2>2 DEF RunStep, Path
    <2> QED
      BY <1>2, <2>3
  <1>5. CASE Opened
    <2>1. PICK t \in Threads :
            /\ connecting[t] = "opened"
            /\ \/ Goes(t, "succeeded") /\ events' = Append(events, Event("connection", TRUE))
               \/ Goes(t, "stopping") /\ UNCHANGED events
      BY <1>5 DEF Opened, Posts
    <2>2. UNCHANGED <<isOpened, isGrabbing, starting, ending, watching, running, reading, ui>>
      BY <1>5 DEF Opened, facade
    <2>3. RunStep(t, "succeeded") \/ RunStep(t, "stopping")
      BY <2>1, <2>2 DEF RunStep, Path
    <2> QED
      BY <1>2, <2>3
  <1>6. CASE Stopping
    <2>1. PICK t \in Threads : /\ connecting[t] = "stopping"
                               /\ Goes(t, IF isGrabbing THEN "notifying" ELSE "closing")
      BY <1>6 DEF Stopping
    <2>2. /\ ending = "nobody" /\ isGrabbing' = FALSE
          /\ ending' = IF isGrabbing THEN "pool" ELSE "nobody"
          /\ UNCHANGED <<isOpened, starting, watching, running, reading, events, ui>>
      BY <1>6 DEF Stopping
    <2>3. CASE isGrabbing
      <3>1. RunStep(t, "notifying")
        BY <2>1, <2>2, <2>3 DEF RunStep, Path
      <3> QED
        BY <1>2, <3>1
    <2>4. CASE ~isGrabbing
      <3>1. isGrabbing' = isGrabbing /\ ending' = ending
        BY <1>1, <2>2, <2>4
      <3>2. RunStep(t, "closing")
        BY <2>1, <2>2, <2>4, <3>1 DEF RunStep, Path
      <3> QED
        BY <1>2, <3>2
    <2> QED
      BY <2>3, <2>4
  <1>7. CASE Notifying
    <2>1. PICK t \in Threads : connecting[t] = "notifying" /\ Goes(t, "closing")
      BY <1>7 DEF Notifying
    <2>2. /\ ending' = "nobody" /\ events' = Append(events, Event("grabbing", FALSE))
          /\ UNCHANGED <<isOpened, isGrabbing, starting, watching, running, reading, ui>>
      BY <1>7 DEF Notifying, Posts
    <2>3. RunStep(t, "closing")
      BY <2>1, <2>2 DEF RunStep, Path
    <2> QED
      BY <1>2, <2>3
  <1>8. CASE Closing
    <2>1. PICK t \in Threads : /\ connecting[t] = "closing"
                               /\ Goes(t, IF isOpened THEN "closed" ELSE "failed")
      BY <1>8 DEF Closing
    <2>2. /\ isOpened' = FALSE
          /\ UNCHANGED <<isGrabbing, starting, ending, watching, running, reading, events, ui>>
      BY <1>8 DEF Closing
    <2>3. CASE isOpened
      <3>1. RunStep(t, "closed")
        BY <2>1, <2>2, <2>3 DEF RunStep, Path
      <3> QED
        BY <1>2, <3>1
    <2>4. CASE ~isOpened
      <3>1. isOpened' = isOpened
        BY <1>1, <2>2, <2>4
      <3>2. RunStep(t, "failed")
        BY <2>1, <2>2, <2>4, <3>1 DEF RunStep, Path
      <3> QED
        BY <1>2, <3>2
    <2> QED
      BY <2>3, <2>4
  <1>9. CASE Closed
    <2>1. PICK t \in Threads : connecting[t] = "closed" /\ Goes(t, "failed")
      BY <1>9 DEF Closed
    <2>2. /\ events' = Append(events, Event("connection", FALSE))
          /\ UNCHANGED <<isOpened, isGrabbing, starting, ending, watching, running, reading, ui>>
      BY <1>9 DEF Closed, Posts, facade
    <2>3. RunStep(t, "failed")
      BY <2>1, <2>2 DEF RunStep, Path
    <2> QED
      BY <1>2, <2>3
  <1> QED
    BY <1>3, <1>4, <1>5, <1>6, <1>7, <1>8, <1>9

\* What open() or close() posts of the facade.
LEMMA StatusPosting ==
    ASSUME TypeOK, NEW e \in Events, e.of \in {"connection", "grabbing"},
           events' = Append(events, e)
    PROVE  /\ events' \in Seq(Events) /\ events' # << >>
           /\ \A o \in Operations \cup {"connect"} :
                 Single(events', o) /\ (Pending(o)' <=> Pending(o))
           /\ \A R : Waits(events', R) <=> Waits(events, R) \/ e \in R
           /\ \A W, R : (Redressed(events, W, R) \/ e \in R) /\ e \notin W
                           => Redressed(events', W, R)
  <1>1. /\ events' \in Seq(Events) /\ events' # << >>
        /\ \A R : Waits(events', R) <=> Waits(events, R) \/ e \in R
        /\ \A W, R : (Redressed(events, W, R) \/ e \in R) /\ e \notin W
                        => Redressed(events', W, R)
        /\ \A k \in Kinds \ {"connection", "grabbing"} :
               /\ e.of # k \/ ~Pending(k) => Single(events', k)
               /\ Pending(k)' <=> Pending(k) \/ e.of = k
    BY Posting
  <1>2. ASSUME NEW o \in Operations \cup {"connect"}
        PROVE  Single(events', o) /\ (Pending(o)' <=> Pending(o))
    <2>1. o \in Kinds \ {"connection", "grabbing"} /\ e.of # o
      BY DEF Kinds, Operations
    <2> QED
      BY <1>1, <2>1
  <1> QED
    BY <1>1, <1>2

\* A RunStep leaves the events as they are, or posts what it has done: how each of them
\* bears on the invariants.
Unposted == events' = events

PostsEnd ==
    /\ \A R : Waits(events, R) => Waits(events', R)
    /\ Redressed(events', Started, Stopped) /\ Waits(events', Stopped)
    /\ Redressed(events, EndsDown, ConnectionUp) => Redressed(events', EndsDown, ConnectionUp)

PostsOpen ==
    /\ \A R : Waits(events, R) => Waits(events', R)
    /\ Waits(events', Settles) /\ Waits(events', Switches)
    /\ Redressed(events', EndsDown, ConnectionUp) /\ Waits(events', ConnectionUp)
    /\ Redressed(events, Started, Stopped) => Redressed(events', Started, Stopped)
    /\ Redressed(events, Clears, Started) => Redressed(events', Clears, Started)

PostsClosed ==
    /\ \A R : Waits(events, R) => Waits(events', R)
    /\ Waits(events', Settles) /\ Waits(events', Switches)
    /\ Redressed(events', Started, Stopped) /\ Waits(events', Stopped)

\* Whichever it does, the operations' events are as before.
LEMMA PathPosts ==
    ASSUME TypeOK, NEW from, NEW next, Path(from, next)
    PROVE  /\ events' \in Seq(Events)
           /\ events' = events \/ events' # << >>
           /\ \A o \in Operations \cup {"connect"} :
                 Single(events', o) /\ (Pending(o)' <=> Pending(o))
           /\ CASE from = "notifying" -> PostsEnd /\ events' # << >>
                [] from = "opened" /\ next = "succeeded" -> PostsOpen /\ events' # << >>
                [] from = "closed" -> PostsClosed /\ events' # << >>
                [] OTHER -> Unposted
  <1>1. CASE Unposted
    <2>1. events \in Seq(Events) /\ \A o \in Operations \cup {"connect"} : Single(events, o)
      BY DEF TypeOK, Events
    <2>2. \A o : Pending(o)' <=> Pending(o)
      BY <1>1 DEF Unposted, Pending
    <2>3. /\ from # "notifying" /\ from # "closed"
          /\ ~(from = "opened" /\ next = "succeeded")
      <3>1. \A e : events # Append(events, e)
        <4> SUFFICES ASSUME NEW e, events = Append(events, e) PROVE FALSE
          OBVIOUS
        <4>1. Len(Append(events, e)) = Len(events) + 1 /\ Len(events) \in Nat
          BY <2>1
        <4> QED
          BY <4>1
      <3> QED
        BY <1>1, <3>1 DEF Path, Unposted
    <2> QED
      BY <1>1, <2>1, <2>2, <2>3 DEF Unposted
  <1>2. CASE from = "notifying" /\ events' = Append(events, Event("grabbing", FALSE))
    <2> DEFINE e == Event("grabbing", FALSE)
    <2>1. e \in Events /\ e.of = "grabbing" /\ e.on = FALSE /\ events' = Append(events, e)
      BY <1>2, EventIs DEF Kinds
    <2> HIDE DEF e
    <2>2. e \notin EndsDown /\ e \in Stopped /\ e \notin Started
      BY <2>1, StatusSorts
    <2>3. /\ events' \in Seq(Events) /\ events' # << >>
          /\ \A o \in Operations \cup {"connect"} :
                Single(events', o) /\ (Pending(o)' <=> Pending(o))
          /\ \A R : Waits(events', R) <=> Waits(events, R) \/ e \in R
          /\ \A W, R : (Redressed(events, W, R) \/ e \in R) /\ e \notin W
                          => Redressed(events', W, R)
      BY <2>1, StatusPosting
    <2>4. PostsEnd
      BY <2>2, <2>3 DEF PostsEnd
    <2> QED
      BY <1>2, <2>3, <2>4
  <1>3. CASE /\ from = "opened" /\ next = "succeeded"
             /\ events' = Append(events, Event("connection", TRUE))
    <2> DEFINE e == Event("connection", TRUE)
    <2>1. e \in Events /\ e.of = "connection" /\ e.on = TRUE /\ events' = Append(events, e)
      BY <1>3, EventIs DEF Kinds
    <2> HIDE DEF e
    <2>2. /\ e \notin Started /\ e \in Settles /\ e \in Switches
          /\ e \in ConnectionUp /\ e \notin EndsDown /\ e \notin Clears
      BY <2>1, ConnectionSorts
    <2>3. /\ events' \in Seq(Events) /\ events' # << >>
          /\ \A o \in Operations \cup {"connect"} :
                Single(events', o) /\ (Pending(o)' <=> Pending(o))
          /\ \A R : Waits(events', R) <=> Waits(events, R) \/ e \in R
          /\ \A W, R : (Redressed(events, W, R) \/ e \in R) /\ e \notin W
                          => Redressed(events', W, R)
      BY <2>1, StatusPosting
    <2>4. PostsOpen
      BY <2>2, <2>3 DEF PostsOpen
    <2> QED
      BY <1>3, <2>3, <2>4
  <1>4. CASE from = "closed" /\ events' = Append(events, Event("connection", FALSE))
    <2> DEFINE e == Event("connection", FALSE)
    <2>1. e \in Events /\ e.of = "connection" /\ e.on = FALSE /\ events' = Append(events, e)
      BY <1>4, EventIs DEF Kinds
    <2> HIDE DEF e
    <2>2. e \notin Started /\ e \in Settles /\ e \in Switches /\ e \in Stopped
      BY <2>1, ConnectionSorts
    <2>3. /\ events' \in Seq(Events) /\ events' # << >>
          /\ \A o \in Operations \cup {"connect"} :
                Single(events', o) /\ (Pending(o)' <=> Pending(o))
          /\ \A R : Waits(events', R) <=> Waits(events, R) \/ e \in R
          /\ \A W, R : (Redressed(events, W, R) \/ e \in R) /\ e \notin W
                          => Redressed(events', W, R)
      BY <2>1, StatusPosting
    <2>4. PostsClosed
      BY <2>2, <2>3 DEF PostsClosed
    <2> QED
      BY <1>4, <2>3, <2>4
  <1> QED
    BY <1>1, <1>2, <1>3, <1>4 DEF Path, Unposted

\* A RunStep keeps the invariants: what it does to the facade it posts, or goes on in a
\* place from which it will.
LEMMA RunKeeps ==
    ASSUME IInv, NEW t \in Threads, NEW next \in Places, RunStep(t, next)
    PROVE  Kept
  <1> DEFINE from == connecting[t]
  <1>a. /\ Flags /\ Threaded /\ Waiting
        /\ ConnectInv /\ LiveInv /\ GrabOneInv /\ LabelInv /\ TypeOK
    BY TypeIs DEF IInv
  <1>b. /\ starting' = starting /\ watching' = watching /\ running' = running
        /\ reading' = reading /\ ui' = ui
        /\ connecting' = [connecting EXCEPT ![t] =
              IF next \in Returned /\ t \notin watching THEN "idle" ELSE next]
        /\ Path(from, next)
    BY DEF RunStep, Goes
  <1>c. /\ connecting'[t] = IF next \in Returned /\ t \notin watching THEN "idle" ELSE next
        /\ \A s \in Threads : s # t => connecting'[s] = connecting[s]
    BY <1>a, <1>b DEF Threaded
  <1>d. /\ events' \in Seq(Events)
        /\ events' = events \/ events' # << >>
        /\ \A o \in Operations \cup {"connect"} :
              Single(events', o) /\ (Pending(o)' <=> Pending(o))
        /\ CASE from = "notifying" -> PostsEnd /\ events' # << >>
             [] from = "opened" /\ next = "succeeded" -> PostsOpen /\ events' # << >>
             [] from = "closed" -> PostsClosed /\ events' # << >>
             [] OTHER -> Unposted
    BY <1>a, <1>b, PathPosts
  <1> HIDE DEF from
  <1>e. \A R : Waits(events, R) => Waits(events', R)
    BY <1>d DEF PostsEnd, PostsOpen, PostsClosed, Unposted
  <1>1. Flags'
    BY <1>a, <1>b DEF Flags, Path
  <1>2. Threaded'
    <2>1. next # "idle"
      BY <1>b DEF Path
    <2>2. connecting' \in [Threads -> Places]
      BY <1>a, <1>b DEF Threaded, Places
    <2>3. \A s \in Threads : connecting'[s] \in Returned => s \in watching
      BY <1>a, <1>c DEF Threaded, Returned
    <2>4. \A s \in watching : connecting'[s] # "idle"
      BY <1>a, <1>c, <2>1 DEF Threaded
    <2> QED
      BY <1>a, <1>b, <2>2, <2>3, <2>4 DEF Threaded
  <1>3. Waiting'
    <2>1. \A o \in running : o \in Operations
      BY <1>a DEF Waiting
    <2>2. "param" \in Operations
      BY DEF Operations
    <2> QED
      BY <1>a, <1>b, <1>d, <2>1, <2>2 DEF Waiting
  <1>4. \/ Unsaid'
        \/ (from = "opened" /\ next = "succeeded") \/ from = "closed"
        \/ isOpened' = isOpened /\ ~Unsaid
    <2> SUFFICES ASSUME ~(from = "opened" /\ next = "succeeded"), from # "closed",
                        ~(isOpened' = isOpened /\ ~Unsaid)
                 PROVE  Unsaid'
      OBVIOUS
    <2>1. CASE isOpened' # isOpened
      <3>1. (next = "opened" /\ isOpened') \/ (next = "closed" /\ ~isOpened')
        BY <1>b, <2>1 DEF Path
      <3>2. connecting'[t] = next
        BY <1>c, <3>1 DEF Returned
      <3> QED
        BY <3>1, <3>2 DEF Unsaid
    <2>2. CASE isOpened' = isOpened
      <3>1. PICK s \in Threads : connecting[s] \in
              IF isOpened THEN {"opened", "stopping", "notifying", "closing"} ELSE {"closed"}
        BY <2>2 DEF Unsaid
      <3>2. CASE s = t
        <4>1. isOpened /\ from \in {"opened", "stopping", "notifying", "closing"}
          BY <3>1, <3>2 DEF from
        <4>2. next \in {"stopping", "notifying", "closing"}
          BY <1>a, <1>b, <2>2, <4>1 DEF Path, Flags
        <4>3. connecting'[t] = next
          BY <1>c, <4>2 DEF Returned
        <4> QED
          BY <2>2, <4>1, <4>2, <4>3 DEF Unsaid
      <3>3. CASE s # t
        <4>1. connecting'[s] = connecting[s]
          BY <1>c, <3>3
        <4> QED
          BY <2>2, <3>1, <4>1 DEF Unsaid
      <3> QED
        BY <3>2, <3>3
    <2> QED
      BY <2>1, <2>2
  <1>5. ConnectInv'
    BY <1>a, <1>b, <1>e DEF ConnectInv
  <1>6. LiveInv' /\ GrabOneInv' /\ LabelInv'
    <2>1. CASE Unsaid'
      BY <2>1 DEF LiveInv, GrabOneInv, LabelInv
    <2>2. CASE from = "opened" /\ next = "succeeded"
      <3>1. PostsOpen /\ events' # << >>
        BY <1>d, <2>2
      <3> QED
        BY <3>1 DEF LiveInv, GrabOneInv, LabelInv, PostsOpen
    <2>3. CASE from = "closed"
      <3>1. PostsClosed /\ events' # << >>
        BY <1>d, <2>3
      <3> QED
        BY <3>1 DEF LiveInv, GrabOneInv, LabelInv, PostsClosed
    <2>4. CASE isOpened' = isOpened /\ ~Unsaid
      <3>1. LiveInv' /\ GrabOneInv'
        BY <1>a, <1>b, <1>e, <2>4 DEF LiveInv, GrabOneInv
      <3>2. LabelInv'
        BY <1>a, <1>b, <1>d, <2>4 DEF LabelInv, Status
      <3> QED
        BY <3>1, <3>2
    <2> QED
      BY <1>4, <2>1, <2>2, <2>3, <2>4
  <1>7. EndInv => EndInv'
    <2> SUFFICES ASSUME EndInv, ~isGrabbing', ending' = "nobody"
                 PROVE  /\ Redressed(events', Started, Stopped)
                        /\ ~ui'.grabbing \/ Waits(events', Stopped)
      BY DEF EndInv
    <2>1. CASE from = "notifying" \/ from = "closed"
      BY <1>d, <2>1 DEF PostsEnd, PostsClosed
    <2>2. CASE from # "notifying" /\ from # "closed"
      <3>0. \/ ending' = "pool"
            \/ isGrabbing' = isGrabbing /\ ending' = ending
        BY <1>b, <2>2 DEF Path
      <3>1. ~isGrabbing /\ ending = "nobody"
        BY <3>0
      <3>2. Redressed(events, Started, Stopped) /\ (~ui.grabbing \/ Waits(events, Stopped))
        BY <3>1 DEF EndInv
      <3> QED
        BY <1>b, <1>d, <1>e, <2>2, <3>2 DEF PostsOpen, Unposted
    <2> QED
      BY <2>1, <2>2
  <1>8. CloseInv => CloseInv'
    <2> SUFFICES ASSUME CloseInv PROVE CloseInv'
      OBVIOUS
    <2>1. from \in {"notifying", "closing"} => ~isGrabbing
      BY DEF CloseInv, InClose, from
    <2>2. isGrabbing' => isGrabbing
      BY <1>b DEF Path
    <2>3. isGrabbing' => isOpened'
      BY <1>b, <2>1, <2>2 DEF CloseInv, Path
    <2>4. InClose' => ~isGrabbing'
      <3> SUFFICES ASSUME NEW s \in Threads, connecting'[s] \in {"notifying", "closing"}
                   PROVE  ~isGrabbing'
        BY DEF InClose
      <3>1. CASE s = t
        <4>1. next \in {"notifying", "closing"}
          BY <1>c, <3>1
        <4> QED
          BY <1>b, <2>1, <4>1 DEF Path
      <3>2. CASE s # t
        BY <1>c, <2>2, <3>2 DEF CloseInv, InClose
      <3> QED
        BY <3>1, <3>2
    <2> QED
      BY <2>3, <2>4 DEF CloseInv
  <1>9. ASSUME OneInv, ~Overlapping PROVE OneInv'
    <2>0. from # "idle"
      BY <1>b DEF Path
    <2>1. \A s \in Threads : s # t => connecting[s] = "idle" /\ connecting'[s] = "idle"
      <3>1. t \in Connecting
        BY <2>0 DEF Connecting, from
      <3> QED
        BY <1>9, <1>c, <3>1 DEF Overlapping, Connecting
    <2>2. t \in watching
      BY <1>9, <2>0 DEF OneInv, RunInv, from
    <2>3. connecting'[t] = next
      BY <1>c, <2>2
    <2>4. from \in {"opened", "succeeded"} => isOpened
      BY <1>9 DEF OneInv, RunInv, from
    <2>5. from \in {"resolving", "closed", "failed"} => ~isOpened
      BY <1>9 DEF OneInv, RunInv, from
    <2>6. /\ next \in {"opened", "succeeded"} => isOpened'
          /\ next \in {"resolving", "closed", "failed"} => ~isOpened'
      <3>1. CASE next = "opened"
        BY <1>b, <3>1 DEF Path
      <3>2. CASE next = "succeeded"
        BY <1>a, <1>b, <2>4, <3>2 DEF Path, Flags
      <3>3. CASE next = "resolving"
        BY <1>b, <3>3 DEF Path
      <3>4. CASE next = "closed"
        BY <1>b, <3>4 DEF Path
      <3>5. CASE next = "failed"
        <4>1. /\ isOpened' = isOpened
              /\ (from = "closing" /\ ~isOpened) \/ from = "closed"
          BY <1>b, <3>5 DEF Path
        <4>2. ~isOpened
          BY <2>5, <4>1
        <4> QED
          BY <1>a, <3>5, <4>1, <4>2 DEF Flags
      <3> QED
        BY <3>1, <3>2, <3>3, <3>4, <3>5
    <2>7. RunInv'
      BY <1>b, <2>1, <2>2, <2>3, <2>6 DEF RunInv
    <2>8. t \in Connecting'
      BY <1>b, <2>3 DEF Connecting, Path
    <2>9. RefreshInv'
      BY <2>8 DEF RefreshInv
    <2>10. CheckedInv'
      <3> SUFFICES ASSUME isOpened', next \in {"open"} \cup Returned
                   PROVE  /\ Redressed(events', EndsDown, ConnectionUp)
                          /\ ui'.connectChecked \/ Waits(events', ConnectionUp)
        BY <2>3, <2>8 DEF CheckedInv
      <3>1. next = "succeeded"
        BY <1>b, <2>6 DEF Path, Returned
      <3>2. CASE from = "opened"
        <4>1. PostsOpen
          BY <1>d, <3>1, <3>2
        <4> QED
          BY <4>1 DEF PostsOpen
      <3>3. CASE from = "open" /\ isOpened /\ UNCHANGED events
        <4>1. \A s \in Connecting : connecting[s] \in {"open"} \cup Returned
          BY <2>1, <3>3 DEF Connecting, from
        <4>2. /\ Redressed(events, EndsDown, ConnectionUp)
              /\ ui.connectChecked \/ Waits(events, ConnectionUp)
          BY <1>9, <3>3, <4>1 DEF OneInv, CheckedInv
        <4> QED
          BY <1>b, <3>3, <4>2
      <3> QED
        BY <1>b, <3>1, <3>2, <3>3 DEF Path
    <2> QED
      BY <2>7, <2>9, <2>10 DEF OneInv
  <1>10. ASSUME StartInv, OneInv, CloseInv PROVE StartInv'
    <2> SUFFICES ASSUME isGrabbing', ~starting'
                 PROVE  /\ Redressed(events', Clears, Started)
                        /\ (ui'.grabbing /\ ui'.liveChecked) \/ Waits(events', Started)
      BY DEF StartInv
    <2>1. isGrabbing /\ ~starting
      BY <1>b DEF Path
    <2>2. /\ Redressed(events, Clears, Started)
          /\ (ui.grabbing /\ ui.liveChecked) \/ Waits(events, Started)
      BY <1>10, <2>1 DEF StartInv
    <2>3. from # "notifying" /\ from # "closed"
      <3>1. from = "closed" => ~isOpened
        BY <1>10 DEF OneInv, RunInv, from
      <3>2. isOpened /\ ~InClose
        BY <1>10, <2>1 DEF CloseInv
      <3> QED
        BY <3>1, <3>2 DEF InClose, from
    <2> QED
      BY <1>b, <1>d, <1>e, <2>2, <2>3 DEF PostsOpen, Unposted
  <1> QED
    BY <1>1, <1>2, <1>3, <1>5, <1>6, <1>7, <1>8, <1>9, <1>10, TypeIsPrime DEF Kept, IInv

\* The end of open() or close() keeps them: its result is whether the facade is open, if
\* there is no other of them.
LEMMA ReturnKeeps ==
    ASSUME IInv, Returning
    PROVE  Kept
  <1>a. /\ Flags /\ Threaded /\ Waiting
        /\ ConnectInv /\ LiveInv /\ GrabOneInv /\ LabelInv /\ TypeOK
    BY TypeIs DEF IInv
  <1>1. PICK t \in Threads :
          /\ connecting[t] \in Returned
          /\ connecting' = [connecting EXCEPT ![t] = "idle"]
          /\ events' = Append(events, Event("connect", connecting[t] = "succeeded"))
    BY DEF Returning, Posts
  <1>2. /\ isOpened' = isOpened /\ isGrabbing' = isGrabbing /\ starting' = starting
        /\ ending' = ending /\ running' = running /\ reading' = reading /\ ui' = ui
        /\ watching' = {}
    BY DEF Returning, facade
  <1>3. /\ connecting'[t] = "idle" /\ \A s \in Threads : s # t => connecting'[s] = connecting[s]
    BY <1>a, <1>1 DEF Threaded
  <1>4. t \in watching /\ \A s \in watching : s = t
    BY <1>a, <1>1 DEF Threaded
  <1> DEFINE v == connecting[t] = "succeeded"
             e == Event("connect", v)
  <1>5. e \in Events /\ e.of = "connect" /\ e.on = v /\ events' = Append(events, e)
    <2>1. v \in BOOLEAN /\ "connect" \in Kinds
      BY DEF Kinds
    <2> QED
      BY <1>1, <2>1, EventIs
  <1>v. (v = TRUE <=> connecting[t] = "succeeded") /\ (v = FALSE <=> connecting[t] # "succeeded")
    OBVIOUS
  <1> HIDE DEF e, v
  <1>7. /\ events' \in Seq(Events) /\ events' # << >>
        /\ \A R : Waits(events', R) <=> Waits(events, R) \/ e \in R
        /\ \A W, R : (Redressed(events, W, R) \/ e \in R) /\ e \notin W
                        => Redressed(events', W, R)
        /\ \A k \in Kinds \ {"connection", "grabbing"} :
               /\ e.of # k \/ ~Pending(k) => Single(events', k)
               /\ Pending(k)' <=> Pending(k) \/ e.of = k
    BY <1>a, <1>5, Posting
  <1>8. /\ e \notin Started /\ e \notin ConnectionUp /\ e \in Returns
        /\ v = TRUE => e \notin EndsDown /\ e \notin Clears
        /\ v = FALSE => e \in EndsDown /\ e \notin EndsUp /\ e \in Refreshes
    BY <1>5, ConnectSorts
  <1>9. ~Pending("connect") /\ "connect" \in Kinds \ {"connection", "grabbing"}
    BY <1>a, <1>4 DEF Waiting, Kinds
  <1>10. Flags'
    BY <1>a, <1>2 DEF Flags
  <1>11. Threaded'
    <2>1. connecting' \in [Threads -> Places]
      BY <1>a, <1>1 DEF Threaded, Places
    <2>2. \A s \in Threads : connecting'[s] \notin Returned
      BY <1>a, <1>3, <1>4 DEF Threaded, Returned
    <2> QED
      BY <1>2, <2>1, <2>2 DEF Threaded
  <1>12. Waiting'
    BY <1>a, <1>2, <1>5, <1>7, <1>9 DEF Waiting, Kinds, Operations
  <1>13. ConnectInv' /\ LabelInv'
    BY <1>7, <1>8 DEF ConnectInv, LabelInv
  <1>14. Unsaid => Unsaid'
    <2> SUFFICES ASSUME Unsaid PROVE Unsaid'
      OBVIOUS
    <2>1. PICK s \in Threads : connecting[s] \in
            IF isOpened THEN {"opened", "stopping", "notifying", "closing"} ELSE {"closed"}
      BY DEF Unsaid
    <2>2. s # t
      BY <1>1, <2>1 DEF Returned
    <2> QED
      BY <1>2, <1>3, <2>1, <2>2 DEF Unsaid
  <1>15. LiveInv' /\ GrabOneInv'
    BY <1>a, <1>2, <1>7, <1>14 DEF LiveInv, GrabOneInv
  <1>16. EndInv => EndInv'
    BY <1>2, <1>7, <1>8 DEF EndInv
  <1>17. CloseInv => CloseInv'
    <2>1. InClose' => InClose
      BY <1>3 DEF InClose
    <2> QED
      BY <1>2, <2>1 DEF CloseInv
  <1>18. ASSUME RunInv PROVE (v = TRUE <=> isOpened) /\ v \in BOOLEAN
    <2>1. connecting[t] = "succeeded" \/ connecting[t] = "failed"
      BY <1>1 DEF Returned
    <2>2. /\ connecting[t] = "succeeded" => isOpened
          /\ connecting[t] = "failed" => ~isOpened
      BY <1>18 DEF RunInv
    <2>3. v \in BOOLEAN
      BY DEF v
    <2> QED
      BY <1>v, <2>1, <2>2, <2>3
  <1>19. ASSUME OneInv, ~Overlapping PROVE OneInv'
    <2>1. \A s \in Threads : s # t => connecting[s] = "idle"
      <3>1. t \in Connecting
        BY <1>1 DEF Connecting, Returned
      <3> QED
        BY <1>19, <3>1 DEF Overlapping, Connecting
    <2>2. Connecting' = {}
      BY <1>3, <2>1 DEF Connecting
    <2>3. RunInv'
      BY <1>3, <2>1 DEF RunInv
    <2>4. CASE isOpened
      <3>1. v = TRUE
        BY <1>18, <1>19, <2>4 DEF OneInv
      <3>2. \A s \in Connecting : connecting[s] \in {"open"} \cup Returned
        BY <1>1, <2>1 DEF Connecting
      <3>3. /\ Redressed(events, EndsDown, ConnectionUp)
            /\ ui.connectChecked \/ Waits(events, ConnectionUp)
        BY <1>19, <2>4, <3>2 DEF OneInv, CheckedInv
      <3>4. CheckedInv' /\ RefreshInv'
        BY <1>2, <1>7, <1>8, <2>4, <3>1, <3>3 DEF CheckedInv, RefreshInv
      <3> QED
        BY <2>3, <3>4 DEF OneInv
    <2>5. CASE ~isOpened
      <3>1. v = FALSE
        BY <1>18, <1>19, <2>5 DEF OneInv
      <3>2. CheckedInv' /\ RefreshInv'
        BY <1>2, <1>7, <1>8, <2>5, <3>1 DEF CheckedInv, RefreshInv
      <3> QED
        BY <2>3, <3>2 DEF OneInv
    <2> QED
      BY <2>4, <2>5
  <1>20. ASSUME StartInv, OneInv, CloseInv PROVE StartInv'
    <2> SUFFICES ASSUME isGrabbing', ~starting'
                 PROVE  /\ Redressed(events', Clears, Started)
                        /\ (ui'.grabbing /\ ui'.liveChecked) \/ Waits(events', Started)
      BY DEF StartInv
    <2>1. isOpened
      BY <1>2, <1>20 DEF CloseInv
    <2>2. v = TRUE
      BY <1>18, <1>20, <2>1 DEF OneInv
    <2>3. /\ Redressed(events, Clears, Started)
          /\ (ui.grabbing /\ ui.liveChecked) \/ Waits(events, Started)
      BY <1>2, <1>20 DEF StartInv
    <2> QED
      BY <1>2, <1>7, <1>8, <2>2, <2>3
  <1> QED
    BY <1>10, <1>11, <1>12, <1>13, <1>15, <1>16, <1>17, <1>19, <1>20, TypeIsPrime
    DEF Kept, IInv

\* A reading, and a stutter, changes nothing that they speak of.
LEMMA ReadingKeeps ==
    ASSUME IInv, Reading \/ UNCHANGED vars
    PROVE  Kept
  <1>a. /\ Flags /\ Threaded /\ Waiting
        /\ ConnectInv /\ LiveInv /\ GrabOneInv /\ LabelInv /\ TypeOK
    BY TypeIs DEF IInv
  <1>1. /\ isOpened' = isOpened /\ isGrabbing' = isGrabbing /\ starting' = starting
        /\ ending' = ending /\ connecting' = connecting /\ watching' = watching
        /\ running' = running /\ events' = events /\ ui' = ui
        /\ reading' \in {"none", "new", "old"}
    BY <1>a DEF Reading, vars, facade, pool, Waiting
  <1>2. Connecting' = Connecting /\ (InClose' <=> InClose) /\ (Unsaid' <=> Unsaid)
    BY <1>1, ThreadsKept
  <1>3. Flags' /\ Threaded' /\ Waiting'
    BY <1>a, <1>1 DEF Flags, Threaded, Waiting, Pending
  <1>4. ConnectInv' /\ LiveInv' /\ GrabOneInv' /\ LabelInv'
    BY <1>a, <1>1, <1>2 DEF ConnectInv, LiveInv, GrabOneInv, LabelInv, Status
  <1>5. /\ EndInv => EndInv'
        /\ CloseInv => CloseInv'
        /\ StartInv => StartInv'
    BY <1>1, <1>2 DEF EndInv, CloseInv, StartInv
  <1>6. OneInv => OneInv'
    BY <1>1, <1>2 DEF OneInv, RunInv, CheckedInv, RefreshInv
  <1> QED
    BY <1>3, <1>4, <1>5, <1>6, TypeIsPrime DEF Kept, IInv

\* A handler keeps them: it does what its event stood for.
LEMMA HandleKeeps ==
    ASSUME IInv, Handle
    PROVE  Kept
  <1> DEFINE e == Head(events)
  <1>a. /\ Flags /\ Threaded /\ Waiting
        /\ ConnectInv /\ LiveInv /\ GrabOneInv /\ LabelInv /\ TypeOK
    BY TypeIs DEF IInv
  <1>b. events # << >> /\ e \in Events /\ e.on \in BOOLEAN
    <2>1. events # << >>
      BY DEF Handle, ConnectFinished, DiscoverFinished, ParamFinished, FeaturesFinished,
             GrabbingChanged, ConnectionChanged, First
    <2>2. e \in Events
      BY <1>a, <2>1, TailWaits DEF Waiting
    <2> QED
      BY <2>1, <2>2 DEF Events
  <1>c. Answers(e)
    BY <1>a, <1>b, HandleAnswers DEF Flags
  <1>d. e = Head(events)
    OBVIOUS
  <1> HIDE DEF e
  <1>1. /\ ui' \in Controls /\ ui'.label = Status(ui')
        /\ isOpened' = isOpened /\ isGrabbing' = isGrabbing /\ starting' = starting
        /\ ending' = ending /\ connecting' = connecting /\ watching' = watching
        /\ reading' \in {reading, "none"}
        /\ ui'.parameterUpdateActive = (e.of # "param" /\ ui.parameterUpdateActive)
        /\ \/ Begins
           \/ events' = Tail(events) /\ running' = running /\ Shows(e)
    BY <1>c DEF Answers, facade
  <1>2. events' = Tail(events) \/ (Begins /\ events' = Forgotten(Tail(events), "features"))
    BY <1>1 DEF Begins
  <1>3. /\ events' \in Seq(Events)
        /\ \A R : (\A x \in R : x.of # "features") \/ events' = Tail(events)
                    => (Waits(events, R) <=> Waits(events', R) \/ e \in R)
        /\ \A W, R : ((\A x \in R : x.of # "features") \/ events' = Tail(events))
                         /\ Redressed(events, W, R)
                    => Redressed(events', W, R) /\ (e \in W => Waits(events', R))
        /\ \A k \in Kinds \ {"connection", "grabbing"} :
              /\ Single(events', k)
              /\ e.of = k => ~Pending(k)'
              /\ k # "features" => (Pending(k) <=> Pending(k)' \/ e.of = k)
              /\ Pending(k)' => Pending(k)
              /\ events' = Forgotten(Tail(events), "features") /\ k = "features" => ~Pending(k)'
    BY <1>a, <1>b, <1>d, <1>2, Taking
  <1>4. /\ \A x \in ConnectionUp : x.of # "features"
        /\ \A x \in EndsDown : x.of # "features"
        /\ \A x \in Started : x.of # "features"
        /\ \A x \in Stopped : x.of # "features"
    BY DEF ConnectionUp, EndsDown, Started, Stopped, Of, Ends
  <1>5. /\ e \in ConnectionUp => ui'.connectChecked
        /\ e \in EndsDown => ~ui'.connectChecked
        /\ e \notin ConnectionUp \cup EndsDown => ui'.connectChecked = ui.connectChecked
        /\ e \in Started => ui'.grabbing /\ ui'.liveChecked
        /\ e \in Clears => ~ui'.grabbing
        /\ e \notin Started \cup Clears =>
              ui'.grabbing = ui.grabbing /\ ui'.liveChecked = ui.liveChecked
    BY <1>b, <1>c, AnswerFlags
  <1>6. /\ Connecting' = Connecting /\ (InClose' <=> InClose) /\ (Unsaid' <=> Unsaid)
    BY <1>1, ThreadsKept
  <1>7. Flags' /\ Threaded'
    BY <1>a, <1>1 DEF Flags, Threaded
  <1>8. Waiting'
    <2>1. \A o \in Operations \cup {"connect"} :
             /\ o \in Kinds \ {"connection", "grabbing"}
             /\ Single(events', o) /\ (Pending(o)' => Pending(o))
      BY <1>3 DEF Kinds, Operations
    <2>2. ASSUME NEW o \in running' PROVE ~Pending(o)'
      <3>1. CASE o \in running
        BY <1>a, <2>1, <3>1 DEF Waiting
      <3>2. CASE o \notin running
        <4>1. o = "features" /\ events' = Forgotten(Tail(events), "features")
          BY <1>1, <2>2, <3>2 DEF Begins
        <4>2. o \in Kinds \ {"connection", "grabbing"}
          BY <4>1 DEF Kinds, Operations
        <4> QED
          BY <1>3, <4>1, <4>2
      <3> QED
        BY <3>1, <3>2
    <2>3. watching' # {} => ~Pending("connect")'
      BY <1>a, <1>1, <2>1 DEF Waiting
    <2>4. ui'.parameterUpdateActive <=> "param" \in running' \/ Pending("param")'
      <3>1. "param" \in running' <=> "param" \in running
        BY <1>1 DEF Begins
      <3>2. "param" \in Kinds \ {"connection", "grabbing"}
        BY DEF Kinds, Operations
      <3>3. /\ e.of = "param" => ~Pending("param")'
            /\ Pending("param") <=> Pending("param")' \/ e.of = "param"
        BY <1>3, <3>2
      <3>4. "param" \in running => ~Pending("param")
        BY <1>a DEF Waiting
      <3>5. ui.parameterUpdateActive <=> "param" \in running \/ Pending("param")
        BY <1>a DEF Waiting
      <3>6. ui'.parameterUpdateActive <=> e.of # "param" /\ ui.parameterUpdateActive
        BY <1>1
      <3> QED
        BY <3>1, <3>3, <3>4, <3>5, <3>6
    <2>5. running' \subseteq Operations /\ reading' \in {"none", "new", "old"}
      BY <1>a, <1>1 DEF Waiting, Begins, Operations
    <2> QED
      BY <1>3, <2>1, <2>2, <2>3, <2>4, <2>5 DEF Waiting
  <1>9. LabelInv'
    BY <1>1 DEF LabelInv, Status
  <1>10. CloseInv => CloseInv'
    BY <1>1, <1>6 DEF CloseInv
  <1>11. RunInv => RunInv'
    BY <1>1 DEF RunInv
  <1>12. CheckedInv => CheckedInv'
    BY <1>1, <1>3, <1>4, <1>5, <1>6 DEF CheckedInv
  <1>13. EndInv => EndInv'
    <2> SUFFICES ASSUME EndInv, ~isGrabbing', ending' = "nobody"
                 PROVE  /\ Redressed(events', Started, Stopped)
                        /\ ~ui'.grabbing \/ Waits(events', Stopped)
      BY DEF EndInv
    <2>1. Redressed(events, Started, Stopped) /\ (~ui.grabbing \/ Waits(events, Stopped))
      BY <1>1 DEF EndInv
    <2>2. e \in Stopped => e \in Clears
      BY <1>b, AnswerSorts DEF Ends
    <2> QED
      BY <1>3, <1>4, <1>5, <2>1, <2>2
  <1>14. StartInv => StartInv'
    <2> SUFFICES ASSUME StartInv, isGrabbing', ~starting'
                 PROVE  /\ Redressed(events', Clears, Started)
                        /\ (ui'.grabbing /\ ui'.liveChecked) \/ Waits(events', Started)
      BY DEF StartInv
    <2>1. /\ Redressed(events, Clears, Started)
          /\ (ui.grabbing /\ ui.liveChecked) \/ Waits(events, Started)
      BY <1>1 DEF StartInv
    <2> QED
      BY <1>3, <1>4, <1>5, <2>1
  <1>15. CASE Begins
    <2>1. /\ isOpened /\ "features" \in running' /\ ~ui'.oneOn /\ ui'.editors # "on"
      BY <1>15 DEF Begins
    <2>2. RefreshInv' /\ ConnectInv' /\ LiveInv' /\ GrabOneInv'
      BY <1>1, <2>1 DEF RefreshInv, ConnectInv, LiveInv, GrabOneInv, Reads
    <2> QED
      BY <1>7, <1>8, <1>9, <1>10, <1>11, <1>12, <1>13, <1>14, <2>2, TypeIsPrime
      DEF Kept, IInv, OneInv
  <1>16. CASE events' = Tail(events) /\ running' = running /\ Shows(e)
    <2>1. /\ \A R : Waits(events, R) <=> Waits(events', R) \/ e \in R
          /\ \A W, R : Redressed(events, W, R)
                          => Redressed(events', W, R) /\ (e \in W => Waits(events', R))
      BY <1>3, <1>16
    <2>2. /\ e.of # "grabbing" => ui'.connectOn
          /\ e.of = "grabbing" => ui'.connectOn = ui.connectOn /\ ui'.refreshOn = ui.refreshOn
          /\ e.of \in Operations \/ (e.of \in Ends /\ ~e.on) => isOpened \/ ui'.refreshOn
          /\ IF e.of = "discover"
                THEN ui'.liveOn = ui.liveOn /\ ui'.oneOn = ui.oneOn /\ ui'.editors = ui.editors
                ELSE ui'.liveOn = isOpened
          /\ e.of \in Ends => ui'.oneOn = isOpened /\ (isOpened => ui'.editors # "off")
          /\ e.of \in Reads \cup {"grabbing"} =>
                /\ ui'.oneOn = (isOpened /\ ~ui'.grabbing)
                /\ IF ui'.grabbing \/ ui'.parameterUpdateActive THEN ui'.editors # "on"
                                                               ELSE ui'.editors # "off"
      BY <1>16 DEF Shows
    <2>a. /\ e \in EndsDown => e.of \in Ends /\ ~e.on
          /\ e \in Refreshes => (e.of \in Ends /\ ~e.on) \/ e.of \in Operations
          /\ e \in EndsUp \/ e \in Refreshes \/ e.of = "grabbing"
      <3>1. /\ e \in EndsDown <=> e.of \in Ends /\ e.on = FALSE
            /\ e \in EndsUp <=> e.of \in Ends /\ e.on = TRUE
            /\ e \in Refreshes <=> (e.of \in Ends /\ e.on = FALSE) \/ e.of \in Operations
        BY <1>b, AnswerSorts
      <3>2. e.of \in Ends \cup Operations \cup {"grabbing"}
        BY <1>b DEF Events, Kinds, Ends
      <3> QED
        BY <1>b, <3>1, <3>2
    <2>b. /\ e \in Returns <=> e.of # "grabbing"
          /\ e.of = "discover" => e \notin Settles /\ e \notin Switches
          /\ e.of \in Ends \cup Reads \cup {"discover", "grabbing"}
      <3>1. e.of \in Ends \cup Reads \cup {"discover", "grabbing"}
        BY <1>b DEF Events, Kinds, Ends, Reads, Operations
      <3>2. /\ e \in Returns <=> e.of # "grabbing"
            /\ e \in Settles <=> e.of \in {"connection"} \cup Reads
            /\ e \in Switches <=> e.of \notin {"discover", "connect"}
        BY <1>b, AnswerSorts
      <3> QED
        BY <3>1, <3>2 DEF Reads
    <2>3. RefreshInv => RefreshInv'
      <3> SUFFICES ASSUME RefreshInv, ~isOpened', Connecting' = {}
                   PROVE  /\ Redressed(events', EndsUp, EndsDown)
                          /\ ui'.refreshOn \/ running' # {} \/ Waits(events', Refreshes)
        BY DEF RefreshInv
      <3>1. /\ Redressed(events, EndsUp, EndsDown)
            /\ ui.refreshOn \/ running # {} \/ Waits(events, Refreshes)
        BY <1>1, <1>6 DEF RefreshInv
      <3>2. Redressed(events', EndsUp, EndsDown) /\ (e \in EndsUp => Waits(events', EndsDown))
        BY <2>1, <3>1
      <3>3. CASE e \in EndsUp
        <4>1. Waits(events', Refreshes)
          BY <3>2, <3>3, WaitsMore DEF Refreshes
        <4> QED
          BY <3>2, <4>1
      <3>4. CASE e \in Refreshes
        <4>1. ui'.refreshOn
          BY <1>1, <2>2, <2>a, <3>4
        <4> QED
          BY <3>2, <4>1
      <3>5. CASE e.of = "grabbing" /\ e \notin Refreshes
        <4>1. ui'.refreshOn = ui.refreshOn
          BY <2>2, <3>5
        <4> QED
          BY <1>16, <2>1, <3>1, <3>2, <3>5, <4>1
      <3> QED
        BY <2>a, <3>3, <3>4, <3>5
    <2>4. ConnectInv'
      <3>1. ui.connectOn \/ watching # {} \/ running # {} \/ Waits(events, Returns)
        BY <1>a DEF ConnectInv
      <3> QED
        BY <1>1, <1>16, <2>1, <2>2, <2>b, <3>1 DEF ConnectInv
    <2>5. LiveInv'
      <3>1. CASE e.of = "discover"
        <4>1. ui'.liveOn = ui.liveOn /\ (Waits(events, Settles) <=> Waits(events', Settles))
          BY <2>1, <2>2, <2>b, <3>1
        <4> QED
          BY <1>a, <1>1, <1>6, <1>16, <4>1 DEF LiveInv
      <3>2. CASE e.of # "discover"
        BY <1>1, <2>2, <3>2 DEF LiveInv
      <3> QED
        BY <3>1, <3>2
    <2>6. GrabOneInv'
      <3> SUFFICES ASSUME isOpened', ~ui'.grabbing, running' \cap Reads = {},
                          ~Waits(events', Switches), ~Unsaid'
                   PROVE  ui'.oneOn /\ ui'.editors # "off"
        BY DEF GrabOneInv
      <3>1. CASE e.of = "discover"
        <4>1. /\ ui'.oneOn = ui.oneOn /\ ui'.editors = ui.editors
              /\ Waits(events, Switches) <=> Waits(events', Switches)
          BY <2>1, <2>2, <2>b, <3>1
        <4>2. ui'.grabbing = ui.grabbing
          <5>1. e \notin Started \cup Clears
            BY <1>b, <3>1, AnswerSorts DEF Ends
          <5> QED
            BY <1>5, <5>1
        <4> QED
          BY <1>a, <1>1, <1>6, <1>16, <4>1, <4>2 DEF GrabOneInv
      <3>2. CASE e.of \in Ends
        BY <1>1, <2>2, <3>2
      <3>3. CASE e.of \in Reads \cup {"grabbing"}
        <4>1. ui'.parameterUpdateActive => "param" \in running' \/ Pending("param")'
          BY <1>8 DEF Waiting
        <4>2. "param" \notin running'
          BY DEF Reads
        <4>3. ~Pending("param")'
          <5> SUFFICES ASSUME NEW i \in DOMAIN events', events'[i].of = "param"
                       PROVE  FALSE
            BY DEF Pending
          <5>1. events'[i] \in Events
            BY <1>3
          <5>2. events'[i] \in Switches
            BY <5>1, AnswerSorts
          <5> QED
            BY <5>2 DEF Waits
        <4> QED
          BY <1>1, <2>2, <3>3, <4>1, <4>2, <4>3
      <3> QED
        BY <2>b, <3>1, <3>2, <3>3
    <2> QED
      BY <1>7, <1>8, <1>9, <1>10, <1>11, <1>12, <1>13, <1>14, <2>3, <2>4, <2>5, <2>6, TypeIsPrime
      DEF Kept, IInv, OneInv
  <1> QED
    BY <1>1, <1>15, <1>16

-----------------------------------------------------------------------------
(* The theorems. *)

\* The initial state satisfies the invariants.
LEMMA InitKeeps == Init => IInv /\ EndInv /\ OneInv /\ CloseInv /\ StartInv
  <1> SUFFICES ASSUME Init PROVE IInv /\ EndInv /\ OneInv /\ CloseInv /\ StartInv
    OBVIOUS
  <1>1. /\ isOpened = FALSE /\ isGrabbing = FALSE /\ starting = FALSE /\ ending = "nobody"
        /\ connecting = [t \in Threads |-> "idle"] /\ watching = {}
        /\ running = {} /\ reading = "none" /\ events = << >>
        /\ ui = [connectOn |-> TRUE, connectChecked |-> FALSE, refreshOn |-> TRUE,
                 oneOn |-> FALSE, liveOn |-> FALSE, liveChecked |-> FALSE, editors |-> "none",
                 current |-> TRUE, label |-> "Idle",
                 grabbing |-> FALSE, parameterUpdateActive |-> FALSE]
    BY DEF Init
  <1>2. /\ ui \in Controls /\ ui.connectOn /\ ~ui.connectChecked /\ ui.refreshOn
        /\ ui.liveOn = FALSE /\ ~ui.grabbing /\ ~ui.parameterUpdateActive /\ ui.label = "Idle"
    BY <1>1 DEF Controls
  <1>3. events \in Seq(Events) /\ DOMAIN events = {}
    BY <1>1
  <1>4. Flags
    BY <1>1, <1>2 DEF Flags
  <1>5. Threaded
    BY <1>1 DEF Threaded, Places, Returned
  <1>6. Waiting
    BY <1>1, <1>2, <1>3 DEF Waiting, Single, Pending
  <1>7. ConnectInv /\ LiveInv /\ GrabOneInv /\ LabelInv
    BY <1>1, <1>2 DEF ConnectInv, LiveInv, GrabOneInv, LabelInv, Status
  <1>8. RunInv
    BY <1>1 DEF RunInv
  <1>9. CheckedInv /\ RefreshInv
    BY <1>1, <1>2, <1>3 DEF CheckedInv, RefreshInv, Redressed
  <1>10. EndInv /\ CloseInv /\ StartInv
    BY <1>1, <1>2, <1>3 DEF EndInv, CloseInv, StartInv, InClose, Redressed
  <1> QED
    BY <1>4, <1>5, <1>6, <1>7, <1>8, <1>9, <1>10, TypeIs DEF IInv, OneInv

\* Every step keeps the invariants.
LEMMA NextKeeps ==
    ASSUME IInv, [Next]_vars
    PROVE  Kept
  <1>1. TypeOK
    BY DEF IInv
  <1>2. CASE RefreshClicked \/ ParameterChanged
    BY <1>1, <1>2, BeginSteps, BeginKeeps
  <1>3. CASE ConnectToggled
    BY <1>1, <1>3, ToggleSteps, ToggleKeeps
  <1>4. CASE \/ GrabOneClicked \/ GrabLiveToggled \/ HostCalls
             \/ GrabReturns \/ AcquisitionEnds \/ WorkerNotifies
    BY <1>1, <1>4, StatusSteps, StatusKeeps
  <1>5. CASE Opening \/ Resolving \/ Opened \/ Stopping \/ Notifying \/ Closing \/ Closed
    BY <1>1, <1>5, RunSteps, RunKeeps
  <1>6. CASE Returning
    BY <1>6, ReturnKeeps
  <1>7. CASE Reading \/ UNCHANGED vars
    BY <1>7, ReadingKeeps
  <1>8. CASE Writing \/ Finishing
    BY <1>1, <1>8, EndSteps, EndKeeps
  <1>9. CASE Handle
    BY <1>9, HandleKeeps
  <1> QED
    BY <1>2, <1>3, <1>4, <1>5, <1>6, <1>7, <1>8, <1>9 DEF Next, PoolStep

\* What holds in every behaviour.
LEMMA Invariance == Spec => []IInv
  <1>1. IInv /\ [Next]_vars => IInv'
    BY NextKeeps DEF Kept
  <1> QED
    BY <1>1, InitKeeps, PTL DEF Spec

\* Once things have settled nothing can excuse a control.
LEMMA NothingWaits ==
    ASSUME TypeOK, Settled
    PROVE  /\ events = << >> /\ running = {} /\ Connecting = {} /\ watching = {} /\ ~Unsaid
           /\ ~starting /\ ending = "nobody"
           /\ \A R : ~Waits(events, R)
  <1>1. Connecting = {} /\ events = << >> /\ running = {} /\ ~starting /\ ending = "nobody"
    BY DEF Settled
  <1>2. watching = {}
    BY <1>1 DEF TypeOK, Connecting
  <1>3. ~Unsaid
    BY <1>1 DEF Unsaid, Connecting
  <1>4. \A R : ~Waits(events, R)
    BY <1>1 DEF Waits
  <1> QED
    BY <1>1, <1>2, <1>3, <1>4

\* Watchers, operations and events are what QGocatorWidget.cpp:163-202 has: an event at
\* most of each watcher waits, none while its operation runs, and _parameterUpdateActive
\* tells of an update that runs or waits to be handled.
THEOREM TypeCorrect == Spec => []TypeOK
  <1>1. IInv => TypeOK
    BY DEF IInv
  <1> QED
    BY <1>1, Invariance, PTL

\* Once things have settled the label follows the flags; and unless two of open() and
\* close() overlap, Connect and Refresh show whether the facade is open
\* (QGocatorWidget.cpp:163-177, 373-377).
THEOREM ConnectionShownHolds == Spec => ConnectionShown
  <1> DEFINE L == Settled => ui.label = IF ~isOpened THEN "Idle"
                                        ELSE IF ui.grabbing THEN "Live" ELSE "Connected"
             C == Settled => (ui.connectChecked <=> isOpened) /\ (isOpened \/ ui.refreshOn)
  <1>1. ASSUME IInv PROVE L
    <2> SUFFICES ASSUME Settled
                 PROVE  ui.label = IF ~isOpened THEN "Idle"
                                   ELSE IF ui.grabbing THEN "Live" ELSE "Connected"
      OBVIOUS
    <2>1. events = << >> /\ ~Unsaid
      BY <1>1, NothingWaits DEF IInv
    <2> QED
      BY <1>1, <2>1 DEF IInv, LabelInv, Status
  <1>2. ASSUME IInv, OneInv PROVE C
    <2> SUFFICES ASSUME Settled
                 PROVE  (ui.connectChecked <=> isOpened) /\ (isOpened \/ ui.refreshOn)
      OBVIOUS
    <2>1. Connecting = {} /\ running = {} /\ \A R : ~Waits(events, R)
      BY <1>2, NothingWaits DEF IInv
    <2>2. CheckedInv /\ RefreshInv
      BY <1>2 DEF OneInv
    <2>3. ui.connectChecked <=> isOpened
      BY <2>1, <2>2 DEF CheckedInv
    <2>4. isOpened \/ ui.refreshOn
      BY <2>1, <2>2 DEF RefreshInv
    <2> QED
      BY <2>3, <2>4
  <1>3. IInv /\ OneInv /\ [Next]_vars /\ ~Overlapping /\ ~Overlapping' => OneInv'
    BY NextKeeps DEF Kept
  <1>4. Spec => []IInv
    BY Invariance
  <1> HIDE DEF L, C
  <1>5. Spec => []L
    BY <1>1, <1>4, PTL
  <1>6. Spec /\ []~Overlapping => []C
    BY <1>2, <1>3, <1>4, InitKeeps, PTL DEF Spec
  <1> QED
    BY <1>5, <1>6 DEF ConnectionShown, L, C

\* Once things have settled Connect is enabled, Live when the facade is open, GrabOne and
\* the editors when the widget shows no acquisition (QGocatorWidget.cpp:380-396, 482-488,
\* 949-977).
THEOREM NotLockedOutHolds == Spec => []NotLockedOut
  <1>1. ASSUME IInv PROVE NotLockedOut
    <2> SUFFICES ASSUME Settled
                 PROVE  /\ ui.connectOn
                        /\ ui.liveOn <=> isOpened
                        /\ isOpened /\ ~ui.grabbing => ui.oneOn /\ ui.editors # "off"
      BY DEF NotLockedOut
    <2>1. watching = {} /\ running = {} /\ ~Unsaid /\ \A R : ~Waits(events, R)
      BY <1>1, NothingWaits DEF IInv
    <2>2. ConnectInv /\ LiveInv /\ GrabOneInv
      BY <1>1 DEF IInv
    <2> QED
      BY <2>1, <2>2 DEF ConnectInv, LiveInv, GrabOneInv
  <1> QED
    BY <1>1, Invariance, PTL

\* Once things have settled an acquisition that the widget shows is under way, unless a
\* notification of a start was overtaken; and one that is under way is shown, unless it
\* met the end of another or open() and close() overlapped (QGocatorWidget.cpp:358-371,
\* 418).
THEOREM AcquisitionShownHolds == Spec => AcquisitionShown
  <1> DEFINE E == Settled /\ ui.grabbing => isGrabbing
             S == Settled /\ isGrabbing => ui.liveChecked /\ ui.grabbing
  <1>1. ASSUME IInv, EndInv PROVE E
    <2> SUFFICES ASSUME Settled, ui.grabbing PROVE isGrabbing
      OBVIOUS
    <2>1. ending = "nobody" /\ \A R : ~Waits(events, R)
      BY <1>1, NothingWaits DEF IInv
    <2> QED
      BY <1>1, <2>1 DEF EndInv
  <1>2. ASSUME IInv, StartInv PROVE S
    <2> SUFFICES ASSUME Settled, isGrabbing PROVE ui.liveChecked /\ ui.grabbing
      OBVIOUS
    <2>1. ~starting /\ \A R : ~Waits(events, R)
      BY <1>2, NothingWaits DEF IInv
    <2> QED
      BY <1>2, <2>1 DEF StartInv
  <1>3. IInv /\ EndInv /\ [Next]_vars /\ ~Overtaken => EndInv'
    BY NextKeeps DEF Kept
  <1>4. IInv /\ OneInv /\ [Next]_vars /\ ~Overlapping /\ ~Overlapping' => OneInv'
    BY NextKeeps DEF Kept
  <1>5. IInv /\ CloseInv /\ [Next]_vars /\ ~GrabMeetsEnd' => CloseInv'
    BY NextKeeps DEF Kept, GrabMeetsClose, GrabMeetsEnd
  <1>6. IInv /\ StartInv /\ OneInv /\ CloseInv /\ [Next]_vars /\ ~Overlapping /\ ~GrabMeetsEnd
          => StartInv'
    BY NextKeeps DEF Kept
  <1>7. Spec => []IInv
    BY Invariance
  <1> HIDE DEF E, S
  <1>8. Spec /\ []~Overtaken => []E
    BY <1>1, <1>3, <1>7, InitKeeps, PTL DEF Spec
  <1>9. Spec /\ [](~GrabMeetsEnd /\ ~Overlapping) => []S
    BY <1>2, <1>4, <1>5, <1>6, <1>7, InitKeeps, PTL DEF Spec
  <1> QED
    BY <1>8, <1>9 DEF AcquisitionShown, E, S

\* Whatever is clicked and whatever overlaps, close() resets no connection under an
\* acquisition that did not begin between its stop() and that reset
\* (QGocatorWidget.cpp:325, Gocator.cpp:240-257).
THEOREM FinishedBeforeClosedHolds == Spec => FinishedBeforeClosed
  <1> DEFINE F == isGrabbing => isOpened
  <1>1. CloseInv => F
    BY DEF CloseInv
  <1>2. IInv /\ CloseInv /\ [Next]_vars /\ ~GrabMeetsClose' => CloseInv'
    BY NextKeeps DEF Kept
  <1>3. Spec => []IInv
    BY Invariance
  <1> HIDE DEF F
  <1>4. Spec /\ []~GrabMeetsClose => []F
    BY <1>1, <1>2, <1>3, InitKeeps, PTL DEF Spec
  <1> QED
    BY <1>4 DEF FinishedBeforeClosed, F
=============================================================================
