----------------------- MODULE SatnogsUploaderProofs -----------------------
(***************************************************************************)
(* Proofs about SatnogsUploader, for every queue length, request window,    *)
(* number of attempts, clock resolution and server.                         *)
(***************************************************************************)
EXTENDS SatnogsUploader, SequenceTheorems, FiniteSetTheorems, TLAPS

(* Removing a request leaves the others in place.                           *)
LEMMA RemoveAtFacts ==
    ASSUME NEW S, NEW s \in Seq(S), NEW k \in 1..Len(s)
    PROVE  /\ RemoveAt(s, k) \in Seq(S)
           /\ Len(RemoveAt(s, k)) = Len(s) - 1
           /\ \A i \in 1..Len(RemoveAt(s, k)) :
                \E j \in 1..Len(s) : RemoveAt(s, k)[i] = s[j]
<1> DEFINE front == SubSeq(s, 1, k - 1)
           rest  == SubSeq(s, k + 1, Len(s))
<1>1. k \in Nat /\ Len(s) \in Nat /\ \A i \in 1..Len(s) : s[i] \in S
  OBVIOUS
<1>2. /\ front \in Seq(S) /\ Len(front) = k - 1
      /\ \A i \in 1..k - 1 : front[i] = s[i]
  BY <1>1, SubSeqProperties
<1>3. /\ rest \in Seq(S) /\ Len(rest) = Len(s) - k
      /\ \A i \in 1..Len(s) - k : rest[i] = s[k + i]
  BY <1>1, SubSeqProperties
<1> HIDE DEF front, rest
<1>4. /\ front \o rest \in Seq(S)
      /\ Len(front \o rest) = Len(s) - 1
      /\ \A i \in 1..Len(s) - 1 : (front \o rest)[i] =
            IF i <= k - 1 THEN front[i] ELSE rest[i - (k - 1)]
  BY <1>1, <1>2, <1>3, ConcatProperties
<1>5. \A i \in 1..Len(s) - 1 :
        \E j \in 1..Len(s) : (front \o rest)[i] = s[j]
  <2> TAKE i \in 1..Len(s) - 1
  <2>1. CASE i <= k - 1
    <3>1. (front \o rest)[i] = s[i] /\ i \in 1..Len(s)
      BY <2>1, <1>1, <1>2, <1>4
    <3> QED
      BY <3>1
  <2>2. CASE i > k - 1
    <3>1. i - (k - 1) \in 1..Len(s) - k /\ k + (i - (k - 1)) = i + 1
      BY <2>2, <1>1
    <3>2. (front \o rest)[i] = s[i + 1] /\ i + 1 \in 1..Len(s)
      BY <2>2, <3>1, <1>1, <1>3, <1>4
    <3> QED
      BY <3>2
  <2>3. i <= k - 1 \/ i > k - 1
    BY <1>1
  <2> QED
    BY <2>1, <2>2, <2>3
<1> QED
  BY <1>4, <1>5 DEF RemoveAt, front, rest

(* The delay of a retry is a time within the limit, and no header shortens  *)
(* the exponential back-off.                                                *)
LEMMA DelayRange ==
    ASSUME NEW f \in Frame, f.attempts > 0, NEW retryAfter \in Nat \cup {-1},
           NEW delay \in RetryDelays(f.attempts, retryAfter)
    PROVE  delay \in 0..MaxDelay /\ Promised(f.attempts, delay) = delay
<1> DEFINE backoff == Exponential(f.attempts)
<1>1. backoff \in Int
  BY UploaderAssumption DEF Frame, Exponential
<1>2. PICK server \in ServerDelays(retryAfter) :
        delay = Lesser(Greater(backoff, server), MaxDelay)
  BY DEF RetryDelays
<1>3. server \in Int
  <2>1. CASE retryAfter < 0
    BY <1>2, <2>1 DEF ServerDelays
  <2>2. CASE retryAfter >= 0
    <3>1. retryAfter * Second \in Int /\ WrapInt(retryAfter * Second) \in Int
      BY <2>2, UploaderAssumption DEF WrapInt
    <3> HIDE DEF WrapInt
    <3> QED
      BY <1>2, <2>2, <3>1, UploaderAssumption DEF ServerDelays, Lesser
  <2> QED
    BY <2>1, <2>2
<1>4. backoff >= 0
  BY UploaderAssumption DEF Frame, Exponential
<1>5. Promised(f.attempts, delay) = Greater(delay, Lesser(backoff, MaxDelay))
  BY DEF Promised
<1> HIDE DEF backoff
<1> QED
  BY <1>1, <1>2, <1>3, <1>4, <1>5, UploaderAssumption DEF Lesser, Greater

-----------------------------------------------------------------------------
(***************************************************************************)
(* What holds of a queue q, the requests r and their count b at every point *)
(* of a handler.  Each step a handler is built from preserves it.           *)
(***************************************************************************)
QueueInv(q, r, b) ==
    /\ q \in Seq(Frame) /\ Len(q) <= MaxPending
    /\ \A i \in 1..Len(q) : q[i].attempts < MaxAttempts
    /\ r \in Seq(Frame)
    /\ \A i \in 1..Len(r) : r[i].attempts > 0
    /\ b \in 0..MaxInFlight /\ b = Len(r)
    /\ \A i \in 1..Len(q) : q[i].attempts > 0 => i + b <= MaxInFlight

LEMMA FrameAttempts ==
    ASSUME NEW f \in Frame
    PROVE  /\ f.attempts \in Int /\ 0 <= f.attempts
           /\ f.attempts <= MaxAttempts /\ MaxAttempts \in Int
  BY UploaderAssumption DEF Frame

LEMMA AppendKeeps ==
    ASSUME NEW q, NEW r, NEW b, QueueInv(q, r, b), Len(q) < MaxPending,
           NEW f \in Frame, f.attempts = 0
    PROVE  QueueInv(Append(q, f), r, b)
<1>1. /\ Append(q, f) \in Seq(Frame)
      /\ Len(Append(q, f)) = Len(q) + 1
      /\ \A i \in 1..Len(q) : Append(q, f)[i] = q[i]
      /\ Append(q, f)[Len(q) + 1] = f
  BY DEF QueueInv
<1>2. \A i \in 1..Len(q) + 1 : i \in 1..Len(q) \/ i = Len(q) + 1
  BY DEF QueueInv
<1> QED
  BY <1>1, <1>2, UploaderAssumption DEF QueueInv

LEMMA TailKeeps ==
    ASSUME NEW q, NEW r, NEW b, QueueInv(q, r, b), q # <<>>, ~HoldsRetry(q)
    PROVE  /\ QueueInv(Tail(q), r, b) /\ Len(Tail(q)) = Len(q) - 1
           /\ Head(q) \in Frame /\ Head(q).attempts = 0
<1>1. /\ Tail(q) \in Seq(Frame) /\ Len(Tail(q)) = Len(q) - 1
      /\ \A i \in 1..Len(q) - 1 : Tail(q)[i] = q[i + 1]
      /\ Head(q) = q[1] /\ Len(q) \in Nat \ {0}
  BY DEF QueueInv
<1>2. \A i \in 1..Len(q) : q[i] \in Frame /\ q[i].attempts = 0
  <2> TAKE i \in 1..Len(q)
  <2>1. q[i] \in Frame /\ ~(q[i].attempts > 0)
    BY DEF QueueInv, HoldsRetry
  <2> QED
    BY <2>1, FrameAttempts
<1> QED
  BY <1>1, <1>2, UploaderAssumption DEF QueueInv

LEMMA RemoveKeeps ==
    ASSUME NEW q, NEW r, NEW b, QueueInv(q, r, b), NEW k \in 1..Len(r)
    PROVE  /\ QueueInv(q, RemoveAt(r, k), b - 1)
           /\ b >= 1 /\ r[k] \in Frame /\ r[k].attempts > 0
<1>1. PICK s : s = RemoveAt(r, k)
  OBVIOUS
<1>2. /\ s \in Seq(Frame) /\ Len(s) = Len(r) - 1
      /\ \A i \in 1..Len(s) : \E j \in 1..Len(r) : s[i] = r[j]
  BY <1>1, RemoveAtFacts DEF QueueInv
<1>3. \A i \in 1..Len(s) : s[i].attempts > 0
  BY <1>2 DEF QueueInv
<1>4. \A i \in 1..Len(q) : q[i].attempts > 0 => i + (b - 1) <= MaxInFlight
  BY UploaderAssumption DEF QueueInv
<1> QED
  BY <1>1, <1>2, <1>3, <1>4, UploaderAssumption DEF QueueInv

(* A retry takes the place in the window that its request has left.         *)
LEMMA RetryKeeps ==
    ASSUME NEW q, NEW r, NEW b, QueueInv(q, r, b), NEW k \in 1..Len(r),
           r[k].attempts < MaxAttempts, Len(q) < MaxPending
    PROVE  QueueInv(<<r[k]>> \o q, RemoveAt(r, k), b - 1)
<1>1. QueueInv(q, RemoveAt(r, k), b - 1) /\ b >= 1
      /\ r[k] \in Frame /\ r[k].attempts > 0
  BY RemoveKeeps
<1>2. PICK f : f = r[k]
  OBVIOUS
<1>3. PICK s : s = RemoveAt(r, k)
  OBVIOUS
<1>4. /\ <<f>> \o q \in Seq(Frame) /\ Len(<<f>> \o q) = Len(q) + 1
      /\ (<<f>> \o q)[1] = f
      /\ \A i \in 2..Len(q) + 1 : (<<f>> \o q)[i] = q[i - 1]
  BY <1>1, <1>2 DEF QueueInv
<1>5. \A i \in 1..Len(q) + 1 : i = 1 \/ (i \in 2..Len(q) + 1 /\ i - 1 \in 1..Len(q))
  BY DEF QueueInv
<1>6. PICK t : t = <<f>> \o q
  OBVIOUS
<1>7. QueueInv(q, s, b - 1)
  BY <1>1, <1>3
<1>8. /\ \A i \in 1..Len(t) : t[i].attempts < MaxAttempts
      /\ \A i \in 1..Len(t) : t[i].attempts > 0 => i + (b - 1) <= MaxInFlight
  <2> SUFFICES ASSUME NEW i \in 1..Len(q) + 1
               PROVE  /\ t[i].attempts < MaxAttempts
                      /\ t[i].attempts > 0 => i + (b - 1) <= MaxInFlight
    BY <1>4, <1>6
  <2>1. CASE i = 1
    BY <2>1, <1>1, <1>2, <1>4, <1>6, UploaderAssumption DEF QueueInv
  <2>2. CASE i # 1
    <3>1. i - 1 \in 1..Len(q) /\ t[i] = q[i - 1]
      BY <2>2, <1>4, <1>5, <1>6
    <3>2. q[i - 1].attempts > 0 => (i - 1) + b <= MaxInFlight
      BY <3>1 DEF QueueInv
    <3> QED
      BY <3>1, <3>2, UploaderAssumption DEF QueueInv
  <2> QED
    BY <2>1, <2>2
<1>9. QueueInv(t, s, b - 1)
  <2>1. t \in Seq(Frame) /\ Len(t) <= MaxPending
    BY <1>4, <1>6, UploaderAssumption DEF QueueInv
  <2> QED
    BY <2>1, <1>7, <1>8 DEF QueueInv
<1> QED
  BY <1>2, <1>3, <1>6, <1>9

(* A full queue has room for every retry, so that its last frame is new.    *)
LEMMA FrontKeeps ==
    ASSUME NEW q, NEW r, NEW b, QueueInv(q, r, b), b >= 1, Full(q)
    PROVE  /\ QueueInv(Front(q), r, b) /\ Len(Front(q)) = Len(q) - 1
           /\ Last(q) \in Frame /\ Last(q).attempts = 0
<1>1. Len(q) = MaxPending /\ Len(q) \in Nat \ {0} /\ MaxInFlight <= Len(q)
  BY UploaderAssumption DEF QueueInv, Full
<1>2. /\ Front(q) \in Seq(Frame) /\ Len(Front(q)) = Len(q) - 1
      /\ \A i \in 1..Len(q) - 1 : Front(q)[i] = q[i]
  BY <1>1, SubSeqProperties DEF QueueInv, Front
<1>3. q[Len(q)] \in Frame /\ ~(q[Len(q)].attempts > 0)
  BY <1>1, UploaderAssumption DEF QueueInv
<1> QED
  <2>1. Last(q) \in Frame /\ Last(q).attempts = 0
    BY <1>3, UploaderAssumption DEF Last, Frame
  <2>2. QueueInv(Front(q), r, b)
    BY <1>1, <1>2, UploaderAssumption DEF QueueInv
  <2> QED
    BY <1>2, <2>1, <2>2

(* Posting n frames moves n of them into the window.                        *)
LEMMA SubmitKeeps ==
    ASSUME NEW q, NEW r, NEW b, QueueInv(q, r, b), NEW held \in BOOLEAN,
           SubmitPending(q, r, b, held)
    PROVE  QueueInv(pending', requests', inFlight')
<1>1. PICK n : n = Postable(q, b, held)
  OBVIOUS
<1>2. n \in 0..Len(q) /\ b + n <= MaxInFlight
  BY <1>1, UploaderAssumption DEF QueueInv, Postable, Lesser
<1>3. PICK p : p = [i \in 1..n |-> Attempted(q[i])]
  OBVIOUS
<1>4. /\ pending' = SubSeq(q, n + 1, Len(q))
      /\ requests' = r \o p /\ inFlight' = b + n
  BY <1>1, <1>3 DEF SubmitPending
<1>5. \A i \in 1..Len(q) :
        Attempted(q[i]) \in Frame /\ Attempted(q[i]).attempts > 0
  <2> TAKE i \in 1..Len(q)
  <2>1. PICK f : f = q[i]
    OBVIOUS
  <2>2. f \in Frame /\ f.attempts < MaxAttempts
    BY <2>1 DEF QueueInv
  <2>3. f.attempts \in 0..MaxAttempts - 1
    BY <2>2, FrameAttempts
  <2>4. \A m \in 0..MaxAttempts :
          /\ [f EXCEPT !.attempts = m] \in Frame
          /\ [f EXCEPT !.attempts = m].attempts = m
    BY <2>2 DEF Frame
  <2>5. f.attempts + 1 \in 0..MaxAttempts /\ f.attempts + 1 > 0
    BY <2>3, UploaderAssumption
  <2> QED
    BY <2>1, <2>4, <2>5 DEF Attempted
<1>6. /\ p \in Seq(Frame) /\ Len(p) = n
      /\ \A i \in 1..n : p[i].attempts > 0
  BY <1>2, <1>3, <1>5
<1>7. /\ pending' \in Seq(Frame) /\ Len(pending') = Len(q) - n
      /\ \A i \in 1..Len(q) - n : pending'[i] = q[n + i]
  <2>1. n + 1 \in Int /\ Len(q) \in Int /\ \A i \in n + 1..Len(q) : q[i] \in Frame
    BY <1>2 DEF QueueInv
  <2>2. /\ pending' \in Seq(Frame)
        /\ Len(pending') = IF n + 1 <= Len(q) THEN Len(q) - (n + 1) + 1 ELSE 0
        /\ \A i \in 1..Len(q) - (n + 1) + 1 : pending'[i] = q[(n + 1) + i - 1]
    BY <2>1, <1>4, SubSeqProperties
  <2> QED
    BY <2>2, <1>2 DEF QueueInv
<1>8. /\ requests' \in Seq(Frame) /\ Len(requests') = Len(r) + n
      /\ \A i \in 1..Len(r) + n : requests'[i] =
            IF i <= Len(r) THEN r[i] ELSE p[i - Len(r)]
  BY <1>4, <1>6, ConcatProperties DEF QueueInv
<1>9. \A i \in 1..Len(requests') : requests'[i].attempts > 0
  <2> TAKE i \in 1..Len(requests')
  <2>1. CASE i <= Len(r)
    BY <2>1, <1>8 DEF QueueInv
  <2>2. CASE i > Len(r)
    <3>1. i - Len(r) \in 1..n /\ requests'[i] = p[i - Len(r)]
      BY <2>2, <1>2, <1>8 DEF QueueInv
    <3> QED
      BY <3>1, <1>6
  <2> QED
    BY <2>1, <2>2, <1>8 DEF QueueInv
<1>10. \A i \in 1..Len(pending') : n + i \in 1..Len(q)
  BY <1>2, <1>7 DEF QueueInv
<1> QED
  BY <1>2, <1>4, <1>7, <1>8, <1>9, <1>10, UploaderAssumption, SMTT(30) DEF QueueInv

-----------------------------------------------------------------------------
(***************************************************************************)
(* The inductive invariant and the theorems.                                *)
(***************************************************************************)
UploadInv ==
    /\ QueueInv(pending, requests, inFlight)
    /\ received \in Nat
    /\ timer \in -1..MaxDelay /\ owed \in Nat
    /\ accepted \in SUBSET Frame /\ failed \in SUBSET Frame
    /\ dropped \in SUBSET Frame
    /\ RetryNeverDropped
    /\ BackoffHonoured

LEMMA UploadInit == Init => UploadInv
  BY UploaderAssumption
     DEF Init, UploadInv, QueueInv, RetryNeverDropped, BackoffHonoured, Greater

LEMMA EnqueueStep == UploadInv /\ EnqueueFrame => UploadInv'
<1> SUFFICES ASSUME UploadInv, EnqueueFrame PROVE UploadInv'
  OBVIOUS
<1> DEFINE new == [id |-> received + 1, attempts |-> 0]
<1>1. new \in Frame /\ new.attempts = 0
  BY UploaderAssumption DEF UploadInv, Frame
<1>2. TimerActive \in BOOLEAN
  BY DEF TimerActive, UploadInv
<1>3. /\ QueueInv(pending', requests', inFlight')
      /\ dropped' \in SUBSET Frame
      /\ \A f \in dropped' : f.attempts = 0
  <2>1. CASE /\ ~Full(pending)
             /\ SubmitPending(Append(pending, new), requests, inFlight, TimerActive)
             /\ UNCHANGED dropped
    <3>1. Len(pending) < MaxPending
      BY <2>1, UploaderAssumption DEF Full, UploadInv, QueueInv
    <3>2. QueueInv(Append(pending, new), requests, inFlight)
      BY <3>1, <1>1, AppendKeeps DEF UploadInv
    <3> QED
      BY <2>1, <3>2, <1>2, SubmitKeeps DEF UploadInv, RetryNeverDropped
  <2>2. CASE /\ Full(pending) /\ HoldsRetry(pending)
             /\ dropped' = dropped \cup {new}
             /\ UNCHANGED <<pending, requests, inFlight>>
    BY <2>2, <1>1 DEF UploadInv, RetryNeverDropped, QueueInv
  <2>3. CASE /\ Full(pending) /\ ~HoldsRetry(pending)
             /\ dropped' = dropped \cup {Head(pending)}
             /\ SubmitPending(Append(Tail(pending), new), requests, inFlight,
                              TimerActive)
    <3>1. pending # <<>> /\ Len(pending) = MaxPending
      BY <2>3, UploaderAssumption DEF Full, UploadInv, QueueInv
    <3>2. PICK q : q = Tail(pending)
      OBVIOUS
    <3>3. /\ QueueInv(q, requests, inFlight) /\ Len(q) < MaxPending
          /\ Head(pending) \in Frame /\ Head(pending).attempts = 0
      <4>1. QueueInv(pending, requests, inFlight)
        BY DEF UploadInv
      <4>2. /\ QueueInv(Tail(pending), requests, inFlight)
            /\ Len(Tail(pending)) = Len(pending) - 1
            /\ Head(pending) \in Frame /\ Head(pending).attempts = 0
        BY <4>1, <2>3, <3>1, TailKeeps
      <4> QED
        BY <4>2, <3>1, <3>2, UploaderAssumption
    <3>4. QueueInv(Append(q, new), requests, inFlight)
      BY <3>3, <1>1, AppendKeeps
    <3> QED
      BY <2>3, <3>2, <3>3, <3>4, <1>2, SubmitKeeps DEF UploadInv, RetryNeverDropped
  <2> QED
    BY <2>1, <2>2, <2>3 DEF EnqueueFrame
<1> QED
  BY <1>3 DEF EnqueueFrame, UploadInv, RetryNeverDropped, BackoffHonoured

LEMMA FinishStep == UploadInv /\ Finish => UploadInv'
<1> SUFFICES ASSUME UploadInv, Finish PROVE UploadInv'
  OBVIOUS
<1>1. PICK k \in 1..Len(requests), error \in BOOLEAN, status \in Statuses,
           retryAfter \in RetryAfters \cup {-1} :
        Finished(k, error, status, retryAfter)
  BY DEF Finish
<1>2. PICK f : f = requests[k]
  OBVIOUS
<1>3. /\ QueueInv(pending, RemoveAt(requests, k), inFlight - 1)
      /\ inFlight >= 1 /\ f \in Frame /\ f.attempts > 0
  BY <1>2, RemoveKeeps DEF UploadInv
<1>4. CASE /\ MayRetry(f) /\ RetryFrame(f, retryAfter)
           /\ requests' = RemoveAt(requests, k)
           /\ inFlight' = inFlight - 1 /\ UNCHANGED received
  <2>1. f.attempts < MaxAttempts
    BY <1>4 DEF MayRetry
  <2>2. /\ QueueInv(pending', requests', inFlight')
        /\ dropped' \in SUBSET Frame
        /\ \A d \in dropped' : d.attempts = 0
    <3>1. CASE Full(pending)
      <4>1. PICK q : q = Front(pending)
        OBVIOUS
      <4>2. /\ QueueInv(q, requests, inFlight) /\ Len(q) = Len(pending) - 1
            /\ Last(pending) \in Frame /\ Last(pending).attempts = 0
        BY <3>1, <4>1, <1>3, FrontKeeps DEF UploadInv
      <4>3. Len(q) < MaxPending
        BY <4>2, UploaderAssumption DEF UploadInv, QueueInv
      <4>4. QueueInv(<<f>> \o q, RemoveAt(requests, k), inFlight - 1)
        BY <4>2, <4>3, <2>1, <1>2, RetryKeeps
      <4> QED
        BY <3>1, <4>1, <4>2, <4>4, <1>4
           DEF RetryFrame, QueueInFront, UploadInv, RetryNeverDropped
    <3>2. CASE ~Full(pending)
      <4>1. Len(pending) < MaxPending
        BY <3>2, UploaderAssumption DEF Full, UploadInv, QueueInv
      <4>2. QueueInv(<<f>> \o pending, RemoveAt(requests, k), inFlight - 1)
        BY <4>1, <2>1, <1>2, RetryKeeps DEF UploadInv
      <4> QED
        BY <3>2, <4>2, <1>4
           DEF RetryFrame, QueueInFront, UploadInv, RetryNeverDropped
    <3> QED
      BY <3>1, <3>2
  <2>3. PICK delay \in RetryDelays(f.attempts, retryAfter) :
          /\ timer' = Greater(timer, delay)
          /\ owed' = Greater(owed, Promised(f.attempts, delay))
    BY <1>4 DEF RetryFrame, NextTimer
  <2>4. retryAfter \in Nat \cup {-1}
    BY UploaderAssumption
  <2>5. delay \in 0..MaxDelay /\ Promised(f.attempts, delay) = delay
    BY <2>3, <2>4, <1>3, DelayRange
  <2>6. timer' \in -1..MaxDelay /\ owed' \in Nat /\ BackoffHonoured'
    BY <2>3, <2>5, UploaderAssumption DEF UploadInv, BackoffHonoured, Greater
  <2> QED
    BY <1>4, <2>2, <2>6 DEF RetryFrame, UploadInv, RetryNeverDropped
<1>5. CASE /\ Resolve(f, error, k)
           /\ UNCHANGED <<timer, dropped, owed>> /\ UNCHANGED received
  <2>1. PICK r : r = RemoveAt(requests, k)
    OBVIOUS
  <2>2. TimerActive \in BOOLEAN
    BY DEF TimerActive, UploadInv
  <2>3. QueueInv(pending', requests', inFlight')
    BY <1>3, <1>5, <2>1, <2>2, SubmitKeeps DEF Resolve
  <2>4. accepted' \in SUBSET Frame /\ failed' \in SUBSET Frame
    BY <1>3, <1>5 DEF Resolve, UploadInv
  <2> QED
    BY <1>5, <2>3, <2>4 DEF UploadInv, RetryNeverDropped, BackoffHonoured
<1> QED
  BY <1>1, <1>2, <1>4, <1>5 DEF Finished

LEMMA UploadStep == UploadInv /\ [Next]_vars => UploadInv'
<1> SUFFICES ASSUME UploadInv PROVE [Next]_vars => UploadInv'
  OBVIOUS
<1>1. ASSUME EnqueueFrame PROVE UploadInv'
  BY <1>1, EnqueueStep
<1>2. ASSUME Finish PROVE UploadInv'
  BY <1>2, FinishStep
<1>3. ASSUME TimerFires PROVE UploadInv'
  <2>1. QueueInv(pending', requests', inFlight')
    BY <1>3, SubmitKeeps DEF TimerFires, UploadInv
  <2>2. owed = 0
    BY <1>3 DEF TimerFires, UploadInv, BackoffHonoured, Greater
  <2> QED
    BY <1>3, <2>1, <2>2, UploaderAssumption
       DEF TimerFires, history, UploadInv, RetryNeverDropped, BackoffHonoured, Greater
<1>4. ASSUME Tick PROVE UploadInv'
  <2>1. timer' \in -1..MaxDelay /\ owed' \in Nat /\ BackoffHonoured'
    BY <1>4, UploaderAssumption DEF Tick, UploadInv, BackoffHonoured, Greater
  <2> QED
    BY <1>4, <2>1 DEF Tick, UploadInv, QueueInv, RetryNeverDropped
<1>5. ASSUME Quiet \/ UNCHANGED vars PROVE UploadInv'
  <2>1. /\ UNCHANGED <<received, pending, requests, inFlight, timer>>
        /\ UNCHANGED <<accepted, failed, dropped, owed>>
    BY <1>5 DEF Quiet, vars, history
  <2> QED
    BY <2>1 DEF UploadInv, QueueInv, RetryNeverDropped, BackoffHonoured
<1>6. ASSUME Next PROVE UploadInv'
  BY <1>1, <1>2, <1>3, <1>4, <1>5, <1>6 DEF Next
<1> QED
  BY <1>5, <1>6

LEMMA UploadInvHolds == Spec => []UploadInv
  BY UploadInit, UploadStep, PTL DEF Spec

(* The state stays well formed: in particular the queue, the requests and   *)
(* the attempts of every frame stay within the limits of the code.          *)
THEOREM TypeCorrect == Spec => [](TypeOK /\ InFlightCounted)
<1>1. UploadInv => TypeOK /\ InFlightCounted
  BY DEF UploadInv, QueueInv, TypeOK, InFlightCounted
<1> QED
  BY <1>1, UploadInvHolds, PTL

(* A frame that waits for a retry is never pushed out of a full queue,      *)
(* whatever the size of the queue, as long as it is at least the window.    *)
THEOREM RetriesSurvive == Spec => [](RetryNeverDropped /\ RetriesFitWindow)
<1>1. UploadInv => RetryNeverDropped /\ RetriesFitWindow
  BY DEF UploadInv, QueueInv, RetriesFitWindow
<1> QED
  BY <1>1, UploadInvHolds, PTL

(* The shared timer outlives every back-off that a frame was promised.      *)
THEOREM BackoffIsHonoured == Spec => []BackoffHonoured
<1>1. UploadInv => BackoffHonoured
  BY DEF UploadInv
<1> QED
  BY <1>1, UploadInvHolds, PTL

-----------------------------------------------------------------------------
(***************************************************************************)
(* Where the frames are. No two places hold the same frame, so that a frame *)
(* that moves leaves the one place it was in.                               *)
(***************************************************************************)
Names(s) == {s[i].id : i \in 1 .. Len(s)}
Distinct(s) == \A i, j \in 1 .. Len(s) : s[i].id = s[j].id => i = j

Once(queue, replies, gone, n) ==
    /\ Distinct(queue) /\ Distinct(replies)
    /\ Names(queue) \cap Names(replies) = {}
    /\ Names(queue) \cap gone = {} /\ Names(replies) \cap gone = {}
    /\ Names(queue) \cup Names(replies) \cup gone = 1 .. n

Gone == {f.id : f \in accepted \cup failed \cup dropped}

OnceInv ==
    /\ Once(pending, requests, Gone, received)
    /\ IsFiniteSet(accepted) /\ IsFiniteSet(failed) /\ IsFiniteSet(dropped)
    /\ Len(pending) + Len(requests) + Cardinality(accepted)
         + Cardinality(failed) + Cardinality(dropped) = received

(* A new frame behind all others.                                          *)
LEMMA AppendNames ==
    ASSUME NEW s \in Seq(Frame), NEW f \in Frame, Distinct(s), f.id \notin Names(s)
    PROVE  /\ Distinct(Append(s, f)) /\ Names(Append(s, f)) = Names(s) \cup {f.id}
           /\ Len(Append(s, f)) = Len(s) + 1
<1>1. /\ Len(Append(s, f)) = Len(s) + 1 /\ Len(s) \in Nat
      /\ \A i \in 1 .. Len(s) : Append(s, f)[i] = s[i]
      /\ Append(s, f)[Len(s) + 1] = f
  OBVIOUS
<1>2. Names(Append(s, f)) = Names(s) \cup {f.id}
  BY <1>1 DEF Names
<1>3. Distinct(Append(s, f))
  <2> SUFFICES ASSUME NEW i \in 1 .. Len(s) + 1, NEW j \in 1 .. Len(s) + 1,
                      Append(s, f)[i].id = Append(s, f)[j].id
               PROVE  i = j
    BY <1>1 DEF Distinct
  <2>1. CASE i \in 1 .. Len(s) /\ j \in 1 .. Len(s)
    BY <1>1, <2>1 DEF Distinct
  <2>2. CASE i = Len(s) + 1 /\ j \in 1 .. Len(s)
    BY <1>1, <2>2 DEF Names
  <2>3. CASE j = Len(s) + 1 /\ i \in 1 .. Len(s)
    BY <1>1, <2>3 DEF Names
  <2> QED
    BY <1>1, <2>1, <2>2, <2>3
<1> QED
  BY <1>1, <1>2, <1>3

(* A frame in front of all others.                                         *)
LEMMA ConsNames ==
    ASSUME NEW s \in Seq(Frame), NEW f \in Frame, Distinct(s), f.id \notin Names(s)
    PROVE  /\ Distinct(<<f>> \o s) /\ Names(<<f>> \o s) = Names(s) \cup {f.id}
           /\ Len(<<f>> \o s) = Len(s) + 1
<1>1. PICK t : t = <<f>> \o s
  OBVIOUS
<1>2. /\ Len(t) = Len(s) + 1 /\ Len(s) \in Nat
      /\ \A i \in 2 .. Len(s) + 1 : t[i] = s[i - 1]
      /\ t[1] = f
  <2>1. <<f>> \in Seq(Frame) /\ Len(<<f>>) = 1 /\ <<f>>[1] = f
    OBVIOUS
  <2> QED
    BY <1>1, <2>1, ConcatProperties
<1>3. \A i \in 1 .. Len(s) : t[i + 1] = s[i]
  BY <1>2
<1>4. Names(t) = Names(s) \cup {f.id}
  <2>1. Names(t) \subseteq Names(s) \cup {f.id}
    <3> SUFFICES ASSUME NEW i \in 1 .. Len(t) PROVE t[i].id \in Names(s) \cup {f.id}
      BY DEF Names
    <3>1. CASE i = 1
      BY <1>2, <3>1
    <3>2. CASE i # 1
      <4>1. i - 1 \in 1 .. Len(s) /\ t[i] = s[i - 1]
        BY <1>2, <3>2
      <4> QED
        BY <4>1 DEF Names
    <3> QED
      BY <3>1, <3>2
  <2>2. Names(s) \subseteq Names(t)
    <3> SUFFICES ASSUME NEW i \in 1 .. Len(s) PROVE s[i].id \in Names(t)
      BY DEF Names
    <3>1. i + 1 \in 1 .. Len(t) /\ t[i + 1] = s[i]
      BY <1>2, <1>3
    <3> QED
      BY <3>1 DEF Names
  <2>3. f.id \in Names(t)
    BY <1>2 DEF Names
  <2> QED
    BY <2>1, <2>2, <2>3
<1>5. Distinct(t)
  <2> SUFFICES ASSUME NEW i \in 1 .. Len(t), NEW j \in 1 .. Len(t),
                      t[i].id = t[j].id, i # j
               PROVE  FALSE
    BY DEF Distinct
  <2>1. \A k \in 1 .. Len(t) : k # 1 => k - 1 \in 1 .. Len(s) /\ t[k] = s[k - 1]
    BY <1>2
  <2>2. CASE i = 1
    BY <1>2, <2>1, <2>2 DEF Names
  <2>3. CASE j = 1
    BY <1>2, <2>1, <2>3 DEF Names
  <2>4. CASE i # 1 /\ j # 1
    <3>1. i - 1 = j - 1
      BY <2>1, <2>4 DEF Distinct
    <3> QED
      BY <3>1
  <2> QED
    BY <2>2, <2>3, <2>4
<1> QED
  BY <1>1, <1>2, <1>4, <1>5

(* A part of the sequence, cut out by a shift of the positions.            *)
LEMMA RemoveNames ==
    ASSUME NEW s \in Seq(Frame), Distinct(s), NEW k \in 1 .. Len(s)
    PROVE  /\ Distinct(RemoveAt(s, k))
           /\ Names(RemoveAt(s, k)) = Names(s) \ {s[k].id}
           /\ s[k].id \in Names(s) /\ Len(RemoveAt(s, k)) = Len(s) - 1
<1>1. PICK t : t = RemoveAt(s, k)
  OBVIOUS
<1>2. /\ Len(s) \in Nat /\ Len(t) = Len(s) - 1
      /\ \A i \in 1 .. Len(t) : t[i] = IF i < k THEN s[i] ELSE s[i + 1]
  <2> DEFINE front == SubSeq(s, 1, k - 1)
             rest  == SubSeq(s, k + 1, Len(s))
  <2>1. k \in Nat /\ Len(s) \in Nat /\ \A i \in 1..Len(s) : s[i] \in Frame
    OBVIOUS
  <2>2. /\ front \in Seq(Frame) /\ Len(front) = k - 1
        /\ \A i \in 1..k - 1 : front[i] = s[i]
    BY <2>1, SubSeqProperties
  <2>3. /\ rest \in Seq(Frame) /\ Len(rest) = Len(s) - k
        /\ \A i \in 1..Len(s) - k : rest[i] = s[k + i]
    BY <2>1, SubSeqProperties
  <2> HIDE DEF front, rest
  <2>4. /\ Len(front \o rest) = Len(s) - 1
        /\ \A i \in 1..Len(s) - 1 : (front \o rest)[i] =
              IF i <= k - 1 THEN front[i] ELSE rest[i - (k - 1)]
    BY <2>1, <2>2, <2>3, ConcatProperties
  <2>5. t = front \o rest
    BY <1>1 DEF RemoveAt, front, rest
  <2>6. ASSUME NEW i \in 1 .. Len(s) - 1, i >= k
        PROVE  (front \o rest)[i] = s[i + 1]
    <3>1. i - (k - 1) \in 1 .. Len(s) - k /\ k + (i - (k - 1)) = i + 1
      BY <2>1, <2>6
    <3> QED
      BY <2>1, <2>3, <2>4, <2>6, <3>1
  <2>7. ASSUME NEW i \in 1 .. Len(s) - 1, i < k
        PROVE  (front \o rest)[i] = s[i]
    BY <2>1, <2>2, <2>4, <2>7
  <2>8. Len(t) = Len(s) - 1
    BY <2>4, <2>5
  <2>9. \A i \in 1 .. Len(s) - 1 : t[i] = IF i < k THEN s[i] ELSE s[i + 1]
    <3> TAKE i \in 1 .. Len(s) - 1
    <3>1. CASE i < k
      BY <2>5, <2>7, <3>1
    <3>2. CASE i >= k
      <4>1. (front \o rest)[i] = s[i + 1]
        BY <2>6, <3>2
      <4> QED
        BY <2>1, <2>5, <3>2, <4>1
    <3> QED
      BY <2>1, <3>1, <3>2
  <2> QED
    BY <2>1, <2>8, <2>9
<1>3. Names(t) \subseteq Names(s) \ {s[k].id}
  <2> SUFFICES ASSUME NEW i \in 1 .. Len(t) PROVE t[i].id \in Names(s) \ {s[k].id}
    BY DEF Names
  <2>1. PICK j \in 1 .. Len(s) : t[i] = s[j] /\ j # k
    BY <1>2
  <2> QED
    BY <2>1 DEF Names, Distinct
<1>4. Names(s) \ {s[k].id} \subseteq Names(t)
  <2> SUFFICES ASSUME NEW j \in 1 .. Len(s), j # k PROVE s[j].id \in Names(t)
    BY DEF Names
  <2>1. PICK i \in 1 .. Len(t) : t[i] = s[j]
    <3>1. CASE j < k
      <4>1. j \in 1 .. Len(t) /\ t[j] = s[j]
        BY <1>2, <3>1
      <4> QED
        BY <4>1
    <3>2. CASE j > k
      <4>1. j - 1 \in 1 .. Len(t) /\ t[j - 1] = s[j]
        BY <1>2, <3>2
      <4> QED
        BY <4>1
    <3> QED
      BY <3>1, <3>2
  <2> QED
    BY <2>1 DEF Names
<1>5. Distinct(t)
  <2> SUFFICES ASSUME NEW i \in 1 .. Len(t), NEW j \in 1 .. Len(t),
                      t[i].id = t[j].id
               PROVE  i = j
    BY DEF Distinct
  <2> DEFINE at(n) == IF n < k THEN n ELSE n + 1
  <2>1. /\ at(i) \in 1 .. Len(s) /\ at(j) \in 1 .. Len(s)
        /\ t[i] = s[at(i)] /\ t[j] = s[at(j)]
    BY <1>2
  <2>2. at(i) = at(j)
    BY <2>1 DEF Distinct
  <2> QED
    BY <2>2
<1>6. s[k].id \in Names(s)
  BY DEF Names
<1>7. Names(t) = Names(s) \ {s[k].id}
  BY <1>3, <1>4
<1> QED
  BY <1>1, <1>2, <1>5, <1>6, <1>7

(* The oldest frame, and the newest one, leave the queue.                  *)
LEMMA EndNames ==
    ASSUME NEW s \in Seq(Frame), Distinct(s), s # <<>>
    PROVE  /\ Distinct(Tail(s)) /\ Distinct(Front(s))
           /\ Names(Tail(s)) = Names(s) \ {Head(s).id}
           /\ Names(Front(s)) = Names(s) \ {Last(s).id}
           /\ Head(s).id \in Names(s) /\ Last(s).id \in Names(s)
<1>1. Len(s) \in Nat /\ 1 \in 1 .. Len(s) /\ Len(s) \in 1 .. Len(s)
  OBVIOUS
<1>2. RemoveAt(s, 1) = Tail(s)
  <2>1. SubSeq(s, 1, 0) = <<>> /\ SubSeq(s, 2, Len(s)) = Tail(s)
    BY SubSeqEmpty, TailIsSubSeq
  <2>2. Tail(s) \in Seq(Frame)
    OBVIOUS
  <2> QED
    BY <2>1, <2>2, ConcatEmptySeq DEF RemoveAt
<1>3. RemoveAt(s, Len(s)) = Front(s)
  <2>1. SubSeq(s, Len(s) + 1, Len(s)) = <<>>
    BY <1>1, SubSeqEmpty
  <2>2. SubSeq(s, 1, Len(s) - 1) \in Seq(Frame)
    BY <1>1, SubSeqProperties
  <2> QED
    BY <2>1, <2>2, ConcatEmptySeq DEF RemoveAt, Front
<1>4. Head(s) = s[1] /\ Last(s) = s[Len(s)]
  BY DEF Last
<1>5. /\ Distinct(RemoveAt(s, 1)) /\ Names(RemoveAt(s, 1)) = Names(s) \ {s[1].id}
      /\ s[1].id \in Names(s)
  BY <1>1, RemoveNames
<1>6. /\ Distinct(RemoveAt(s, Len(s)))
      /\ Names(RemoveAt(s, Len(s))) = Names(s) \ {s[Len(s)].id}
      /\ s[Len(s)].id \in Names(s)
  BY <1>1, RemoveNames
<1> QED
  BY <1>2, <1>3, <1>4, <1>5, <1>6

(* Frames that are posted go from the queue to the requests.               *)
LEMMA SubmitOnce ==
    ASSUME NEW q, NEW r, NEW b, NEW held \in BOOLEAN, NEW gone, NEW n,
           QueueInv(q, r, b), Once(q, r, gone, n), SubmitPending(q, r, b, held)
    PROVE  /\ Once(pending', requests', gone, n)
           /\ Len(pending') + Len(requests') = Len(q) + Len(r)
<1>1. PICK m : m = Postable(q, b, held)
  OBVIOUS
<1>2. m \in 0 .. Len(q) /\ Len(q) \in Nat /\ Len(r) \in Nat
  BY <1>1, UploaderAssumption DEF QueueInv, Postable, Lesser
<1>3. PICK p : p = [i \in 1 .. m |-> Attempted(q[i])]
  OBVIOUS
<1>4. pending' = SubSeq(q, m + 1, Len(q)) /\ requests' = r \o p
  BY <1>1, <1>3 DEF SubmitPending
<1>5. \A i \in 1 .. Len(q) :
         Attempted(q[i]) \in Frame /\ Attempted(q[i]).id = q[i].id
  <2> TAKE i \in 1 .. Len(q)
  <2>1. PICK f : f = q[i]
    OBVIOUS
  <2>2. f \in Frame /\ f.attempts < MaxAttempts
    BY <2>1 DEF QueueInv
  <2>3. f.attempts + 1 \in 0 .. MaxAttempts
    BY <2>2, FrameAttempts
  <2>4. \A x \in 0 .. MaxAttempts :
           [f EXCEPT !.attempts = x] \in Frame /\ [f EXCEPT !.attempts = x].id = f.id
    BY <2>2 DEF Frame
  <2> QED
    BY <2>1, <2>3, <2>4 DEF Attempted
<1>6. /\ Len(p) = m /\ \A i \in 1 .. m : p[i].id = q[i].id
      /\ p \in Seq(Frame)
  BY <1>2, <1>3, <1>5
<1>7. /\ Len(pending') = Len(q) - m
      /\ \A i \in 1 .. Len(q) - m : pending'[i] = q[m + i]
  <2>1. m + 1 \in Int /\ Len(q) \in Int /\ \A i \in m + 1 .. Len(q) : q[i] \in Frame
    BY <1>2 DEF QueueInv
  <2>2. /\ Len(pending') = IF m + 1 <= Len(q) THEN Len(q) - (m + 1) + 1 ELSE 0
        /\ \A i \in 1 .. Len(q) - (m + 1) + 1 : pending'[i] = q[(m + 1) + i - 1]
    BY <2>1, <1>4, SubSeqProperties
  <2> QED
    BY <2>2, <1>2
<1>8. /\ Len(requests') = Len(r) + m
      /\ \A i \in 1 .. Len(r) + m : requests'[i] =
            IF i <= Len(r) THEN r[i] ELSE p[i - Len(r)]
  BY <1>4, <1>6, ConcatProperties DEF QueueInv
<1>16. /\ \A x, y \in 1 .. Len(q) : q[x].id = q[y].id => x = y
       /\ \A x, y \in 1 .. Len(r) : r[x].id = r[y].id => x = y
  BY DEF Once, Distinct
\* Where a posted frame was.
<1>9. \A i \in 1 .. Len(requests') :
         \/ i <= Len(r) /\ requests'[i] = r[i]
         \/ /\ i > Len(r) /\ i - Len(r) \in 1 .. m
            /\ requests'[i].id = q[i - Len(r)].id
  BY <1>2, <1>6, <1>8
<1>10. \A i \in 1 .. Len(pending') : m + i \in m + 1 .. Len(q) /\ pending'[i] = q[m + i]
  BY <1>2, <1>7
<1>11. Distinct(pending')
  <2> SUFFICES ASSUME NEW i \in 1 .. Len(pending'), NEW j \in 1 .. Len(pending'),
                      pending'[i].id = pending'[j].id
               PROVE  i = j
    BY DEF Distinct
  <2>1. m + i = m + j
    <3>1. /\ m + i \in 1 .. Len(q) /\ m + j \in 1 .. Len(q)
          /\ q[m + i].id = q[m + j].id
      BY <1>2, <1>10, SMTT(30)
    <3> QED
      BY <1>16, <3>1
  <2> QED
    BY <1>2, <2>1
<1>12. Distinct(requests')
  <2> SUFFICES ASSUME NEW i \in 1 .. Len(requests'), NEW j \in 1 .. Len(requests'),
                      requests'[i].id = requests'[j].id
               PROVE  i = j
    BY DEF Distinct
  <2>1. CASE i <= Len(r) /\ j <= Len(r)
    BY <1>2, <1>9, <1>16, <2>1
  <2>2. CASE i > Len(r) /\ j > Len(r)
    <3>1. i - Len(r) = j - Len(r)
      <4>1. /\ i - Len(r) \in 1 .. Len(q) /\ j - Len(r) \in 1 .. Len(q)
            /\ q[i - Len(r)].id = q[j - Len(r)].id
        BY <1>2, <1>9, <2>2
      <4> QED
        BY <1>16, <4>1
    <3> QED
      BY <1>2, <3>1
  <2>3. ASSUME NEW x \in 1 .. Len(r), NEW y \in 1 .. Len(q) PROVE r[x].id # q[y].id
    BY DEF Once, Names
  <2>4. CASE i <= Len(r) /\ j > Len(r)
    <3>1. i \in 1 .. Len(r) /\ requests'[i].id = r[i].id
      BY <1>2, <1>9, <2>4
    <3>2. j - Len(r) \in 1 .. Len(q) /\ requests'[j].id = q[j - Len(r)].id
      BY <1>2, <1>9, <2>4
    <3> QED
      BY <2>3, <3>1, <3>2
  <2>5. CASE i > Len(r) /\ j <= Len(r)
    <3>1. j \in 1 .. Len(r) /\ requests'[j].id = r[j].id
      BY <1>2, <1>9, <2>5
    <3>2. i - Len(r) \in 1 .. Len(q) /\ requests'[i].id = q[i - Len(r)].id
      BY <1>2, <1>9, <2>5
    <3> QED
      BY <2>3, <3>1, <3>2
  <2> QED
    BY <1>2, <2>1, <2>2, <2>4, <2>5
<1>13. Names(requests') = Names(r) \cup {q[i].id : i \in 1 .. m}
  <2>1. Names(requests') \subseteq Names(r) \cup {q[i].id : i \in 1 .. m}
    BY <1>2, <1>9, SMTT(30) DEF Names
  <2>2. ASSUME NEW i \in 1 .. Len(r) PROVE r[i].id \in Names(requests')
    <3>1. i \in 1 .. Len(requests') /\ requests'[i] = r[i]
      BY <1>2, <1>8
    <3> QED
      BY <3>1 DEF Names
  <2>3. ASSUME NEW i \in 1 .. m PROVE q[i].id \in Names(requests')
    <3>1. i + Len(r) \in 1 .. Len(requests') /\ requests'[i + Len(r)] = p[i]
      BY <1>2, <1>8
    <3> QED
      BY <1>6, <3>1 DEF Names
  <2> QED
    BY <2>1, <2>2, <2>3 DEF Names
<1>14. Names(pending') = {q[i].id : i \in m + 1 .. Len(q)}
  <2>1. Names(pending') \subseteq {q[i].id : i \in m + 1 .. Len(q)}
    BY <1>10 DEF Names
  <2>2. ASSUME NEW i \in m + 1 .. Len(q) PROVE q[i].id \in Names(pending')
    <3>1. i - m \in 1 .. Len(pending') /\ pending'[i - m] = q[i]
      BY <1>2, <1>7
    <3> QED
      BY <3>1 DEF Names
  <2> QED
    BY <2>1, <2>2
<1>15. /\ Names(q) = {q[i].id : i \in 1 .. m} \cup {q[i].id : i \in m + 1 .. Len(q)}
       /\ {q[i].id : i \in 1 .. m} \cap {q[i].id : i \in m + 1 .. Len(q)} = {}
  BY <1>2, SMTT(30) DEF Names, Once, Distinct
<1>17. PICK posted, rest :
         /\ posted = {q[i].id : i \in 1 .. m}
         /\ rest = {q[i].id : i \in m + 1 .. Len(q)}
  OBVIOUS
<1>18. /\ Names(requests') = Names(r) \cup posted /\ Names(pending') = rest
       /\ Names(q) = posted \cup rest /\ posted \cap rest = {}
  BY <1>13, <1>14, <1>15, <1>17
<1>19. Once(pending', requests', gone, n)
  BY <1>11, <1>12, <1>18 DEF Once
<1> QED
  BY <1>2, <1>7, <1>8, <1>19

(* A frame that arrives takes the next number.                             *)
LEMMA NewOnce ==
    ASSUME NEW q \in Seq(Frame), NEW r, NEW gone, NEW n \in Nat, NEW f \in Frame,
           Once(q, r, gone, n), f.id = n + 1
    PROVE  /\ Once(Append(q, f), r, gone, n + 1) /\ Len(Append(q, f)) = Len(q) + 1
           /\ f.id \notin gone
<1>1. n + 1 \notin 1 .. n /\ 1 .. n + 1 = 1 .. n \cup {n + 1}
  OBVIOUS
<1>2. PICK s : s = Append(q, f)
  OBVIOUS
<1>3. f.id \notin Names(q) /\ f.id \notin Names(r) /\ f.id \notin gone
  BY <1>1 DEF Once
<1>4. Distinct(s) /\ Names(s) = Names(q) \cup {f.id} /\ Len(s) = Len(q) + 1
  BY <1>2, <1>3, AppendNames DEF Once
<1>5. Once(s, r, gone, n + 1)
  BY <1>1, <1>3, <1>4 DEF Once
<1> QED
  BY <1>2, <1>3, <1>4, <1>5

(* A frame that is dropped from either end of the queue, or that arrives    *)
(* and is not taken at all.                                                *)
LEMMA DropOnce ==
    ASSUME NEW q \in Seq(Frame), NEW r, NEW gone, NEW n, q # <<>>,
           Once(q, r, gone, n)
    PROVE  /\ Once(Tail(q), r, gone \cup {Head(q).id}, n)
           /\ Once(Front(q), r, gone \cup {Last(q).id}, n)
           /\ Head(q).id \notin gone /\ Last(q).id \notin gone
<1>1. PICK t, h, e, l : t = Tail(q) /\ h = Head(q).id /\ e = Front(q) /\ l = Last(q).id
  OBVIOUS
<1>2. /\ Distinct(t) /\ Distinct(e) /\ h \in Names(q) /\ l \in Names(q)
      /\ Names(t) = Names(q) \ {h} /\ Names(e) = Names(q) \ {l}
  BY <1>1, EndNames DEF Once
<1>3. h \notin gone /\ l \notin gone
  BY <1>2 DEF Once
<1>4. Once(t, r, gone \cup {h}, n)
  BY <1>2 DEF Once
<1>5. Once(e, r, gone \cup {l}, n)
  BY <1>2 DEF Once
<1> QED
  BY <1>1, <1>3, <1>4, <1>5

LEMMA RefuseOnce ==
    ASSUME NEW q, NEW r, NEW gone, NEW n \in Nat, Once(q, r, gone, n)
    PROVE  Once(q, r, gone \cup {n + 1}, n + 1) /\ n + 1 \notin gone
<1>1. n + 1 \notin 1 .. n /\ 1 .. n + 1 = 1 .. n \cup {n + 1}
  OBVIOUS
<1> QED
  BY <1>1 DEF Once

(* A request that finishes: its frame is resolved, or goes back in front.  *)
LEMMA FinishOnce ==
    ASSUME NEW q \in Seq(Frame), NEW r \in Seq(Frame), NEW gone, NEW n,
           Once(q, r, gone, n), NEW k \in 1 .. Len(r)
    PROVE  /\ Once(q, RemoveAt(r, k), gone \cup {r[k].id}, n)
           /\ Once(<<r[k]>> \o q, RemoveAt(r, k), gone, n)
           /\ Len(RemoveAt(r, k)) = Len(r) - 1 /\ Len(<<r[k]>> \o q) = Len(q) + 1
           /\ r[k].id \notin gone
<1>1. PICK f, s, t : f = r[k] /\ s = RemoveAt(r, k) /\ t = <<r[k]>> \o q
  OBVIOUS
<1>2. /\ Distinct(s) /\ Names(s) = Names(r) \ {f.id}
      /\ f.id \in Names(r) /\ Len(s) = Len(r) - 1
  BY <1>1, RemoveNames DEF Once
<1>3. f \in Frame /\ f.id \notin Names(q) /\ f.id \notin gone
  BY <1>1, <1>2 DEF Once
<1>4. Distinct(t) /\ Names(t) = Names(q) \cup {f.id} /\ Len(t) = Len(q) + 1
  BY <1>1, <1>3, ConsNames DEF Once
<1>5. Once(q, s, gone \cup {f.id}, n)
  BY <1>2, <1>3 DEF Once
<1>6. Once(t, s, gone, n)
  BY <1>2, <1>3, <1>4 DEF Once
<1> QED
  BY <1>1, <1>2, <1>3, <1>4, <1>5, <1>6

(* A frame that reaches an outcome is counted there.                       *)
LEMMA CountNew ==
    ASSUME NEW A, NEW f, IsFiniteSet(A), f \notin A
    PROVE  /\ IsFiniteSet(A \cup {f}) /\ Cardinality(A) \in Nat
           /\ Cardinality(A \cup {f}) = Cardinality(A) + 1
  BY FS_AddElement, FS_CardinalityType

LEMMA OnceInit == Init => OnceInv
<1> SUFFICES ASSUME Init PROVE OnceInv
  OBVIOUS
<1>1. /\ pending = <<>> /\ requests = <<>> /\ received = 0
      /\ accepted = {} /\ failed = {} /\ dropped = {}
  BY DEF Init
<1>2. IsFiniteSet({}) /\ Cardinality({}) = 0
  BY FS_EmptySet
<1>3. Once(<<>>, <<>>, {}, 0)
  BY DEF Once, Names, Distinct
<1>4. Gone = {}
  BY <1>1 DEF Gone
<1> QED
  BY <1>1, <1>2, <1>3, <1>4 DEF OnceInv

LEMMA OnceEnqueue == UploadInv /\ OnceInv /\ EnqueueFrame => OnceInv'
<1> SUFFICES ASSUME UploadInv, OnceInv, EnqueueFrame PROVE OnceInv'
  OBVIOUS
<1>1. PICK new : new = [id |-> received + 1, attempts |-> 0]
  OBVIOUS
<1>2. /\ received \in Nat /\ new \in Frame /\ new.id = received + 1
      /\ pending \in Seq(Frame) /\ requests \in Seq(Frame)
      /\ QueueInv(pending, requests, inFlight) /\ TimerActive \in BOOLEAN
      /\ Once(pending, requests, Gone, received) /\ new.attempts = 0
  BY <1>1, UploaderAssumption DEF UploadInv, OnceInv, QueueInv, Frame, TimerActive
<1>3. /\ IsFiniteSet(dropped) /\ Cardinality(dropped) \in Nat
      /\ Cardinality(accepted) \in Nat /\ Cardinality(failed) \in Nat
      /\ Len(pending) \in Nat /\ Len(requests) \in Nat
      /\ Len(pending) + Len(requests) + Cardinality(accepted)
           + Cardinality(failed) + Cardinality(dropped) = received
  BY <1>2, FS_CardinalityType DEF OnceInv
<1>4. \A f : f.id \notin Gone => f \notin dropped
  BY DEF Gone
<1>5. /\ received' = received + 1 /\ UNCHANGED <<accepted, failed>>
      /\ IsFiniteSet(accepted') /\ IsFiniteSet(failed')
  BY DEF EnqueueFrame, OnceInv
<1>6. \A f : dropped' = dropped \cup {f} => Gone' = Gone \cup {f.id}
  BY <1>5 DEF Gone
<1>7. CASE /\ ~Full(pending)
           /\ SubmitPending(Append(pending, new), requests, inFlight, TimerActive)
           /\ UNCHANGED dropped
  <2>1. PICK q : q = Append(pending, new)
    OBVIOUS
  <2>2. Len(pending) < MaxPending
    BY <1>2, <1>7, UploaderAssumption DEF Full, QueueInv
  <2>3. QueueInv(q, requests, inFlight)
    BY <1>2, <2>1, <2>2, AppendKeeps
  <2>4. Once(q, requests, Gone, received + 1) /\ Len(q) = Len(pending) + 1
    BY <1>2, <2>1, NewOnce
  <2>5. /\ Once(pending', requests', Gone, received + 1)
        /\ Len(pending') + Len(requests') = Len(q) + Len(requests)
    BY <1>2, <1>7, <2>1, <2>3, <2>4, SubmitOnce
  <2>6. Gone' = Gone /\ IsFiniteSet(dropped') /\ Cardinality(dropped') = Cardinality(dropped)
    BY <1>3, <1>5, <1>7 DEF Gone
  <2>7. /\ Len(pending') + Len(requests') + Cardinality(accepted')
             + Cardinality(failed') + Cardinality(dropped') = received'
    BY <1>3, <1>5, <2>4, <2>5, <2>6, SMTT(30)
  <2> QED
    BY <1>5, <2>5, <2>6, <2>7 DEF OnceInv
<1>8. CASE /\ Full(pending) /\ HoldsRetry(pending)
           /\ dropped' = dropped \cup {new}
           /\ UNCHANGED <<pending, requests, inFlight>>
  <2>1. /\ Once(pending, requests, Gone \cup {received + 1}, received + 1)
        /\ received + 1 \notin Gone
    BY <1>2, RefuseOnce
  <2>2. /\ IsFiniteSet(dropped') /\ Cardinality(dropped') = Cardinality(dropped) + 1
        /\ Gone' = Gone \cup {received + 1}
    BY <1>2, <1>3, <1>4, <1>6, <1>8, <2>1, CountNew
  <2>3. Once(pending', requests', Gone', received')
    BY <1>5, <1>8, <2>1, <2>2
  <2>4. Len(pending') + Len(requests') + Cardinality(accepted')
          + Cardinality(failed') + Cardinality(dropped') = received'
    BY <1>3, <1>5, <1>8, <2>2
  <2> QED
    BY <1>5, <2>2, <2>3, <2>4 DEF OnceInv
<1>9. CASE /\ Full(pending) /\ ~HoldsRetry(pending)
           /\ dropped' = dropped \cup {Head(pending)}
           /\ SubmitPending(Append(Tail(pending), new), requests, inFlight, TimerActive)
  <2>1. pending # <<>> /\ Len(pending) = MaxPending
    BY <1>2, <1>9, UploaderAssumption DEF Full, QueueInv
  <2>2. PICK t, h : t = Tail(pending) /\ h = Head(pending)
    OBVIOUS
  <2>3. /\ QueueInv(t, requests, inFlight) /\ Len(t) = Len(pending) - 1
        /\ t \in Seq(Frame)
    BY <1>2, <1>9, <2>1, <2>2, TailKeeps DEF QueueInv
  <2>4. Once(t, requests, Gone \cup {h.id}, received) /\ h.id \notin Gone
    BY <1>2, <2>1, <2>2, DropOnce
  <2>5. PICK q : q = Append(t, new)
    OBVIOUS
  <2>6. Len(t) < MaxPending
    BY <1>3, <2>1, <2>3
  <2>7. QueueInv(q, requests, inFlight)
    BY <1>2, <2>3, <2>5, <2>6, AppendKeeps
  <2>8. /\ Once(q, requests, Gone \cup {h.id}, received + 1)
        /\ Len(q) = Len(t) + 1
    BY <1>2, <2>3, <2>4, <2>5, NewOnce
  <2>9. /\ Once(pending', requests', Gone \cup {h.id}, received + 1)
        /\ Len(pending') + Len(requests') = Len(q) + Len(requests)
    BY <1>2, <1>9, <2>2, <2>5, <2>7, <2>8, SubmitOnce
  <2>10. /\ IsFiniteSet(dropped') /\ Cardinality(dropped') = Cardinality(dropped) + 1
         /\ Gone' = Gone \cup {h.id}
    BY <1>3, <1>4, <1>6, <1>9, <2>2, <2>4, CountNew
  <2>11. Len(pending') + Len(requests') + Cardinality(accepted')
           + Cardinality(failed') + Cardinality(dropped') = received'
    BY <1>3, <1>5, <2>3, <2>8, <2>9, <2>10
  <2> QED
    BY <1>5, <2>9, <2>10, <2>11 DEF OnceInv
<1> QED
  BY <1>1, <1>7, <1>8, <1>9 DEF EnqueueFrame

LEMMA OnceFinish == UploadInv /\ OnceInv /\ Finish => OnceInv'
<1> SUFFICES ASSUME UploadInv, OnceInv, Finish PROVE OnceInv'
  OBVIOUS
<1>1. PICK k \in 1 .. Len(requests), error \in BOOLEAN, status \in Statuses,
           retryAfter \in RetryAfters \cup {-1} :
        Finished(k, error, status, retryAfter)
  BY DEF Finish
<1>2. PICK f, s : f = requests[k] /\ s = RemoveAt(requests, k)
  OBVIOUS
<1>3. /\ pending \in Seq(Frame) /\ requests \in Seq(Frame) /\ TimerActive \in BOOLEAN
      /\ QueueInv(pending, requests, inFlight)
      /\ Once(pending, requests, Gone, received)
  BY DEF UploadInv, OnceInv, QueueInv, TimerActive
<1>4. /\ IsFiniteSet(dropped) /\ IsFiniteSet(accepted) /\ IsFiniteSet(failed)
      /\ Cardinality(dropped) \in Nat
      /\ Cardinality(accepted) \in Nat /\ Cardinality(failed) \in Nat
      /\ Len(pending) \in Nat /\ Len(requests) \in Nat /\ received \in Nat
      /\ Len(pending) + Len(requests) + Cardinality(accepted)
           + Cardinality(failed) + Cardinality(dropped) = received
  BY <1>3, FS_CardinalityType DEF OnceInv, UploadInv
<1>5. \A g : g.id \notin Gone => g \notin dropped /\ g \notin accepted /\ g \notin failed
  BY DEF Gone
<1>6. received' = received
  BY <1>1 DEF Finished
<1>7. QueueInv(pending, s, inFlight - 1) /\ inFlight >= 1
  BY <1>2, <1>3, RemoveKeeps
<1>8. Len(s) = Len(requests) - 1 /\ f.id \notin Gone
  BY <1>2, <1>3, FinishOnce
<1>9. CASE RetryFrame(f, retryAfter) /\ requests' = s
  <2>1. UNCHANGED <<accepted, failed>>
    BY <1>9 DEF RetryFrame
  <2>2. CASE Full(pending)
    <3>1. PICK e, l : e = Front(pending) /\ l = Last(pending)
      OBVIOUS
    <3>2. /\ QueueInv(e, requests, inFlight) /\ Len(e) = Len(pending) - 1
          /\ e \in Seq(Frame)
      BY <1>3, <1>7, <2>2, <3>1, FrontKeeps DEF QueueInv
    <3>3. pending # <<>>
      BY <1>3, <1>7, <2>2, UploaderAssumption DEF Full, QueueInv
    <3>4. Once(e, requests, Gone \cup {l.id}, received) /\ l.id \notin Gone
      BY <1>3, <3>1, <3>3, DropOnce
    <3>5. PICK q : q = <<f>> \o e
      OBVIOUS
    <3>6. Once(q, s, Gone \cup {l.id}, received) /\ Len(q) = Len(e) + 1
      BY <1>2, <1>3, <3>2, <3>4, <3>5, FinishOnce, ZenonT(40)
    <3>7. pending' = q /\ dropped' = dropped \cup {l}
      BY <1>9, <2>2, <3>1, <3>5 DEF RetryFrame, QueueInFront
    <3>8. /\ IsFiniteSet(dropped') /\ Cardinality(dropped') = Cardinality(dropped) + 1
          /\ Gone' = Gone \cup {l.id}
      <4>1. Gone' = Gone \cup {l.id}
        BY <2>1, <3>7 DEF Gone
      <4> QED
        BY <1>4, <1>5, <3>4, <3>7, <4>1, CountNew
    <3>9. Len(pending') + Len(requests') + Cardinality(accepted')
            + Cardinality(failed') + Cardinality(dropped') = received'
      <4>1. Len(pending') = Len(pending) /\ Len(requests') = Len(requests) - 1
        BY <1>4, <1>8, <1>9, <3>2, <3>6, <3>7
      <4>2. /\ Cardinality(accepted') = Cardinality(accepted)
            /\ Cardinality(failed') = Cardinality(failed)
        BY <2>1
      <4> QED
        BY <1>4, <1>6, <3>8, <4>1, <4>2
    <3>10. Once(pending', requests', Gone', received')
      BY <1>6, <1>9, <3>6, <3>7, <3>8
    <3> QED
      BY <1>4, <2>1, <3>8, <3>9, <3>10 DEF OnceInv
  <2>3. CASE ~Full(pending)
    <3>1. PICK q : q = <<f>> \o pending
      OBVIOUS
    <3>2. Once(q, s, Gone, received) /\ Len(q) = Len(pending) + 1
      BY <1>2, <1>3, <3>1, FinishOnce
    <3>3. pending' = q /\ dropped' = dropped
      BY <1>9, <2>3, <3>1 DEF RetryFrame, QueueInFront
    <3>4. Gone' = Gone
      BY <2>1, <3>3 DEF Gone
    <3>5. Len(pending') + Len(requests') + Cardinality(accepted')
            + Cardinality(failed') + Cardinality(dropped') = received'
      <4>1. Len(pending') = Len(pending) + 1 /\ Len(requests') = Len(requests) - 1
        BY <1>8, <1>9, <3>2, <3>3
      <4>2. /\ Cardinality(accepted') = Cardinality(accepted)
            /\ Cardinality(failed') = Cardinality(failed)
            /\ Cardinality(dropped') = Cardinality(dropped)
        BY <2>1, <3>3
      <4> QED
        BY <1>4, <1>6, <4>1, <4>2
    <3>6. Once(pending', requests', Gone', received')
      BY <1>6, <1>9, <3>2, <3>3, <3>4
    <3> QED
      BY <1>4, <2>1, <3>3, <3>5, <3>6 DEF OnceInv
  <2> QED
    BY <2>2, <2>3
<1>10. CASE Resolve(f, error, k) /\ UNCHANGED dropped
  <2>1. SubmitPending(pending, s, inFlight - 1, TimerActive)
    BY <1>2, <1>10 DEF Resolve
  <2>2. Once(pending, s, Gone \cup {f.id}, received)
    BY <1>2, <1>3, FinishOnce
  <2>3. /\ Once(pending', requests', Gone \cup {f.id}, received)
        /\ Len(pending') + Len(requests') = Len(pending) + Len(s)
    BY <1>3, <1>7, <2>1, <2>2, SubmitOnce
  <2>4. \/ accepted' = accepted \cup {f} /\ failed' = failed
        \/ failed' = failed \cup {f} /\ accepted' = accepted
    BY <1>10 DEF Resolve
  <2>5. Gone' = Gone \cup {f.id}
    BY <1>10, <2>4 DEF Gone
  <2>6. /\ IsFiniteSet(accepted') /\ IsFiniteSet(failed') /\ IsFiniteSet(dropped')
        /\ Cardinality(accepted') + Cardinality(failed')
             = Cardinality(accepted) + Cardinality(failed) + 1
        /\ Cardinality(accepted') \in Nat /\ Cardinality(failed') \in Nat
        /\ Cardinality(dropped') = Cardinality(dropped)
    <3>1. f \notin accepted /\ f \notin failed /\ dropped' = dropped
      BY <1>5, <1>8, <1>10
    <3>2. CASE accepted' = accepted \cup {f} /\ failed' = failed
      <4>1. IsFiniteSet(accepted') /\ Cardinality(accepted') = Cardinality(accepted) + 1
        BY <1>4, <3>1, <3>2, CountNew
      <4>2. /\ IsFiniteSet(failed') /\ IsFiniteSet(dropped')
            /\ Cardinality(failed') = Cardinality(failed)
            /\ Cardinality(dropped') = Cardinality(dropped)
        BY <1>4, <3>1, <3>2
      <4> QED
        BY <1>4, <4>1, <4>2, SMTT(30)
    <3>3. CASE failed' = failed \cup {f} /\ accepted' = accepted
      <4>1. IsFiniteSet(failed') /\ Cardinality(failed') = Cardinality(failed) + 1
        BY <1>4, <3>1, <3>3, CountNew
      <4>2. /\ IsFiniteSet(accepted') /\ IsFiniteSet(dropped')
            /\ Cardinality(accepted') = Cardinality(accepted)
            /\ Cardinality(dropped') = Cardinality(dropped)
        BY <1>4, <3>1, <3>3
      <4> QED
        BY <1>4, <4>1, <4>2, SMTT(30)
    <3> QED
      BY <2>4, <3>2, <3>3
  <2>7. Len(pending') \in Nat /\ Len(requests') \in Nat
    <3>1. QueueInv(pending', requests', inFlight')
      BY <1>3, <1>7, <2>1, SubmitKeeps
    <3> QED
      BY <3>1 DEF QueueInv
  <2>8. Len(pending') + Len(requests') + Cardinality(accepted')
          + Cardinality(failed') + Cardinality(dropped') = received'
    <3>1. Len(pending') + Len(requests') = Len(pending) + Len(requests) - 1
      BY <1>4, <1>8, <2>3
    <3> QED
      <4>1. PICK x, y, u, v, w, z :
              /\ x = Len(pending') /\ y = Len(requests') /\ u = Cardinality(accepted')
              /\ v = Cardinality(failed') /\ w = Cardinality(dropped') /\ z = received'
        OBVIOUS
      <4>2. /\ x \in Nat /\ y \in Nat /\ u \in Nat /\ v \in Nat /\ w \in Nat
            /\ x + y = Len(pending) + Len(requests) - 1
            /\ u + v = Cardinality(accepted) + Cardinality(failed) + 1
            /\ w = Cardinality(dropped) /\ z = received
        BY <1>4, <1>6, <2>6, <2>7, <3>1, <4>1
      <4>3. PICK p, q, a, b, d :
              /\ p = Len(pending) /\ q = Len(requests) /\ a = Cardinality(accepted)
              /\ b = Cardinality(failed) /\ d = Cardinality(dropped)
        OBVIOUS
      <4>4. /\ p \in Nat /\ q \in Nat /\ a \in Nat /\ b \in Nat /\ d \in Nat
            /\ z \in Nat /\ p + q + a + b + d = z
        BY <1>4, <4>2, <4>3
      <4>5. x + y = p + q - 1 /\ u + v = a + b + 1 /\ w = d
        BY <4>2, <4>3
      <4>6. /\ x \in Nat /\ y \in Nat /\ u \in Nat /\ v \in Nat /\ w \in Nat
        BY <4>2
      <4>7. x + y + u + v + w = z
        BY <4>4, <4>5, <4>6
      <4> QED
        BY <4>1, <4>7
  <2> QED
    BY <1>6, <2>3, <2>5, <2>6, <2>8 DEF OnceInv
<1> QED
  BY <1>1, <1>2, <1>9, <1>10 DEF Finished

LEMMA OnceStep == UploadInv /\ OnceInv /\ [Next]_vars => OnceInv'
<1> SUFFICES ASSUME UploadInv, OnceInv, [Next]_vars PROVE OnceInv'
  OBVIOUS
<1>1. CASE EnqueueFrame
  BY <1>1, OnceEnqueue
<1>2. CASE Finish
  BY <1>2, OnceFinish
<1>3. CASE TimerFires
  <2>1. /\ QueueInv(pending, requests, inFlight)
        /\ Once(pending, requests, Gone, received)
    BY DEF UploadInv, OnceInv
  <2>2. /\ Once(pending', requests', Gone, received)
        /\ Len(pending') + Len(requests') = Len(pending) + Len(requests)
    BY <1>3, <2>1, SubmitOnce DEF TimerFires
  <2>3. UNCHANGED <<received, accepted, failed, dropped>>
    BY <1>3 DEF TimerFires, history
  <2>4. Gone' = Gone
    BY <2>3 DEF Gone
  <2>5. Len(pending') + Len(requests') + Cardinality(accepted')
          + Cardinality(failed') + Cardinality(dropped') = received'
    BY <2>2, <2>3 DEF OnceInv
  <2> QED
    BY <2>2, <2>3, <2>4, <2>5 DEF OnceInv
<1>4. CASE Tick \/ Quiet \/ UNCHANGED vars
  <2>1. UNCHANGED <<received, pending, requests, accepted, failed, dropped>>
    BY <1>4 DEF Tick, Quiet, vars, history
  <2>2. Gone' = Gone
    BY <2>1 DEF Gone
  <2> QED
    BY <2>1, <2>2 DEF OnceInv
<1> QED
  BY <1>1, <1>2, <1>3, <1>4 DEF Next

LEMMA NamesAreIds ==
    ASSUME NEW s \in Seq(Frame)
    PROVE  {f.id : f \in ToSet(s)} = Names(s)
<1>1. ToSet(s) = {s[i] : i \in DOMAIN s} /\ DOMAIN s = 1 .. Len(s)
  BY DEF ToSet
<1> QED
  BY <1>1 DEF Names

(* Every frame that was received is in exactly one place: the queue, one    *)
(* request, or one outcome, and it is there once.                           *)
THEOREM FramesOnce == Spec => []EachFrameOnce
<1>1. UploadInv /\ OnceInv => EachFrameOnce
  <2> SUFFICES ASSUME UploadInv, OnceInv PROVE EachFrameOnce
    OBVIOUS
  <2>1. TypeOK
    BY DEF UploadInv, QueueInv, TypeOK
  <2>2. /\ {f.id : f \in ToSet(pending)} = Names(pending)
        /\ {f.id : f \in ToSet(requests)} = Names(requests)
    BY NamesAreIds DEF UploadInv, QueueInv
  <2>3. Gone = {f.id : f \in accepted} \cup {f.id : f \in failed} \cup {f.id : f \in dropped}
    BY DEF Gone
  <2>4. PICK a, b, c, d, e :
          /\ a = {f.id : f \in ToSet(pending)} /\ b = {f.id : f \in ToSet(requests)}
          /\ c = {f.id : f \in accepted} /\ d = {f.id : f \in failed}
          /\ e = {f.id : f \in dropped}
    OBVIOUS
  <2>5. ToSet(<<a, b, c, d, e>>) = {a, b, c, d, e}
    <3>1. DOMAIN <<a, b, c, d, e>> = 1 .. 5
      OBVIOUS
    <3>2. 1 .. 5 = {1, 2, 3, 4, 5}
      OBVIOUS
    <3> QED
      BY <3>1, <3>2 DEF ToSet
  <2>6. a \cup b \cup (c \cup d \cup e) = 1 .. received
    BY <2>2, <2>3, <2>4 DEF OnceInv, Once
  <2>7. UNION {a, b, c, d, e} = 1 .. received
    BY <2>6
  <2>8. /\ UNION ToSet(<<a, b, c, d, e>>) = 1 .. received
        /\ Len(pending) + Len(requests) + Cardinality(accepted)
             + Cardinality(failed) + Cardinality(dropped) = received
    BY <2>5, <2>7 DEF OnceInv
  <2> QED
    BY <2>1, <2>4, <2>8 DEF EachFrameOnce
<1>2. Spec => []OnceInv
  BY OnceInit, OnceStep, UploadInvHolds, PTL DEF Spec
<1> QED
  BY <1>1, <1>2, UploadInvHolds, PTL
=============================================================================
