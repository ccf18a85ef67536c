---------------------------- MODULE ToolCalls_proof ---------------------------
(***************************************************************************)
(* However many workers handle calls, and however many documents a call    *)
(* reads, what it is answered with, or fails over, is recent, and an       *)
(* answer is a whole one.                                                  *)
(***************************************************************************)
EXTENDS ToolCalls, TLAPS

Requests == [url : URLs, start : Nat]
Bodies   == [url : URLs, ver : Nat \ {0}]
Docs     == {Fetched(u, v) : u \in URLs, v \in Nat} \cup {Cached(u, v) : u \in URLs, v \in Nat}
Read     == [url : URLs, ver : Nat \ {0}, doc : Docs]

IsCall(c) ==
  /\ c = [target |-> c.target, reads |-> c.reads, outcome |-> c.outcome]
  /\ c.reads \in Seq(Read)

Typed ==
  /\ now \in Nat
  /\ published \in [URLs -> Seq(Nat)]
  /\ request \in [Workers -> Requests \cup {None}]
  /\ answer \in [Workers -> Bodies \cup {Failed, None}]
  /\ call = [w \in Workers |-> call[w]]
  /\ \A w \in Workers : call[w] = None \/ IsCall(call[w])

\* Only a call that is reading has a request, and no request is older than the
\* timeout.
Pending(w) ==
  /\ answer[w] # None => request[w] # None
  /\ request[w] # None =>
       Reading(w) /\ request[w].start <= now /\ now <= request[w].start + Timeout

\* Whether a version was current less than a time before the moment since.
CurrentSince(p, since, url, v, time) == v < Len(p[url]) => since < p[url][v + 1] + time

Slack(reads, i) == PromisedTTL[reads[i].url] + (Len(reads) - i + 2) * Timeout

\* Up to when it is known how old the documents of a call are: while a request is
\* under way, they are as recent as they were when it was made.
Since(w) == IF request[w] = None THEN now ELSE request[w].start

AnswerRecent(w) ==
  answer[w] \notin {None, Failed} =>
    /\ answer[w].url = request[w].url
    /\ CurrentSince(published, request[w].start, answer[w].url, answer[w].ver,
                    PromisedTTL[answer[w].url] + Timeout)

CallRecent(w) ==
  call[w] # None /\ call[w].outcome # "failed" =>
    \A i \in DOMAIN call[w].reads :
      CurrentSince(published, Since(w), call[w].reads[i].url, call[w].reads[i].ver,
                   Slack(call[w].reads, i))

WorkerInv(w) == Pending(w) /\ AnswerRecent(w) /\ CallRecent(w)

Inv == Typed /\ \A w \in Workers : WorkerInv(w)

-----------------------------------------------------------------------------
\* A version that is published later does not make an older moment too late.
LEMMA StaysCurrent ==
  ASSUME Typed, NEW u \in URLs, Publish(u), NEW url \in URLs, NEW v \in Nat,
         NEW since \in Nat, since <= now, NEW time \in Nat \ {0},
         CurrentSince(published, since, url, v, time)
  PROVE  CurrentSince(published', since, url, v, time)
<1>1. CASE url # u
  BY <1>1 DEF Typed, Publish, CurrentSince
<1>2. CASE url = u
  <2>1. published'[url] = Append(published[url], now)
    BY <1>2 DEF Typed, Publish
  <2>2. /\ Len(published'[url]) = Len(published[url]) + 1
        /\ \A j \in 1..Len(published[url]) : published'[url][j] = published[url][j]
        /\ published'[url][Len(published[url]) + 1] = now
    BY <2>1 DEF Typed
  <2>3. CASE v < Len(published[url])
    <3>1. published[url] \in Seq(Nat) /\ v + 1 \in 1..Len(published[url])
      BY <2>3 DEF Typed
    <3>2. published'[url][v + 1] = published[url][v + 1]
      BY <2>2, <3>1
    <3>. QED  BY <2>3, <3>2 DEF CurrentSince
  <2>4. CASE ~(v < Len(published[url]))
    <3>1. published[url] \in Seq(Nat)
      BY DEF Typed
    <3>2. CASE v = Len(published[url])
      BY <2>2, <3>1, <3>2 DEF CurrentSince, Typed
    <3>3. CASE v > Len(published[url])
      BY <2>2, <3>1, <3>3 DEF CurrentSince
    <3>. QED  BY <2>4, <3>1, <3>2, <3>3
  <2>. QED  BY <2>3, <2>4
<1>. QED  BY <1>1, <1>2

\* What an answer may have when it is given was recent when it was asked for.
LEMMA AllowedIsCurrent ==
  ASSUME Typed, NEW url \in URLs, NEW v \in Allowed(url), NEW since \in Nat, since <= now
  PROVE  CurrentSince(published, since, url, v, PromisedTTL[url] + Timeout)
<1>1. published[url] \in Seq(Nat) /\ v \in 1..Len(published[url]) /\ now \in Nat
  BY DEF Allowed, Typed
<1>2. PromisedTTL[url] \in Nat /\ Timeout \in Nat
  BY ToolsAssumption
<1>3. CASE v < Len(published[url])
  <2>1. published[url][v + 1] \in Nat
    BY <1>1, <1>3
  <2>2. now < published[url][v + 1] + PromisedTTL[url] + Timeout
    BY <1>3 DEF Allowed
  <2>. QED  BY <1>1, <1>2, <2>1, <2>2 DEF CurrentSince
<1>. QED  BY <1>3 DEF CurrentSince

\* Once the moment is later by some time, that time is to be added.
LEMMA LaterCurrent ==
  ASSUME Typed, NEW url \in URLs, NEW v \in Nat, NEW since \in Nat, NEW later \in Nat,
         NEW time \in Nat, NEW more \in Nat, later <= since + more,
         CurrentSince(published, since, url, v, time)
  PROVE  CurrentSince(published, later, url, v, time + more)
<1>1. CASE v < Len(published[url])
  <2>1. published[url][v + 1] \in Nat
    BY <1>1 DEF Typed
  <2>. QED  BY <1>1, <2>1 DEF CurrentSince
<1>. QED  BY <1>1 DEF CurrentSince

\* A read has at least one timeout to spare, and one more with every read after it.
LEMMA SlackGrows ==
  ASSUME NEW reads \in Seq(Read), NEW i \in DOMAIN reads
  PROVE  /\ Slack(reads, i) \in Nat \ {0}
         /\ \A read \in Read :
              Slack(Append(reads, read), i) = Slack(reads, i) + Timeout
<1>. DEFINE k == Len(reads) - i + 2
<1>1. k \in Nat /\ k >= 2 /\ i \in 1..Len(reads) /\ reads[i] \in Read
  OBVIOUS
<1>2. k * Timeout \in Nat \ {0}
  BY <1>1, ToolsAssumption
<1>3. (k + 1) * Timeout = k * Timeout + Timeout
  BY <1>1, ToolsAssumption
<1>4. PromisedTTL[reads[i].url] \in Nat
  BY <1>1, ToolsAssumption DEF Read
<1>5. Slack(reads, i) = PromisedTTL[reads[i].url] + k * Timeout
  BY DEF Slack
<1>6. ASSUME NEW read \in Read
      PROVE  Slack(Append(reads, read), i) = PromisedTTL[reads[i].url] + (k + 1) * Timeout
  <2>1. Len(Append(reads, read)) - i + 2 = k + 1 /\ Append(reads, read)[i] = reads[i]
    BY <1>1
  <2>. QED  BY <2>1 DEF Slack
<1>. HIDE DEF k
<1>. QED  BY <1>2, <1>3, <1>4, <1>5, <1>6, ToolsAssumption
-----------------------------------------------------------------------------
LEMMA Initially == ToolsInit => Inv
<1>. SUFFICES ASSUME ToolsInit PROVE Inv
  OBVIOUS
<1>1. Typed
  BY DEF ToolsInit, Init, Typed
<1>2. ASSUME NEW w \in Workers PROVE WorkerInv(w)
  BY DEF ToolsInit, Init, WorkerInv, Pending, AnswerRecent, CallRecent
<1>. QED  BY <1>1, <1>2 DEF Inv

\* What a worker's steps leave alone for the others.
LEMMA OthersKeep ==
  ASSUME Inv, NEW x \in Workers, UNCHANGED <<now, published>>,
         request'[x] = request[x], answer'[x] = answer[x], call'[x] = call[x]
  PROVE  WorkerInv(x)'
<1>1. WorkerInv(x)
  BY DEF Inv
<1>2. Pending(x)'
  BY <1>1 DEF WorkerInv, Pending, Reading
<1>3. AnswerRecent(x)'
  BY <1>1 DEF WorkerInv, AnswerRecent, CurrentSince
<1>4. CallRecent(x)'
  BY <1>1 DEF WorkerInv, CallRecent, CurrentSince, Slack, Since
<1>. QED  BY <1>2, <1>3, <1>4 DEF WorkerInv

LEMMA BeginKeeps ==
  ASSUME Inv, NEW w \in Workers, NEW input \in Inputs, Begin(w, input)
  PROVE  Inv'
<1>1. /\ call[w] = None
      /\ UNCHANGED <<now, published, request, answer>>
      /\ \E target, outcome :
           call' = [call EXCEPT ![w] = [target |-> target, reads |-> <<>>, outcome |-> outcome]]
  BY DEF Begin, vars
<1>2. Typed'
  BY <1>1 DEF Inv, Typed, IsCall
<1>3. request[w] = None /\ answer[w] = None
  BY <1>1 DEF Inv, WorkerInv, Pending, Reading
<1>4. call'[w].reads = <<>> /\ \A x \in Workers : x # w => call'[x] = call[x]
  BY <1>1 DEF Inv, Typed
<1>5. WorkerInv(w)'
  BY <1>1, <1>3, <1>4 DEF WorkerInv, Pending, AnswerRecent, CallRecent
<1>6. ASSUME NEW x \in Workers, x # w PROVE WorkerInv(x)'
  BY <1>1, <1>4, <1>6, OthersKeep
<1>. QED  BY <1>2, <1>5, <1>6 DEF Inv

\* The call as it is, with a request made now and perhaps answered at once.
LEMMA FetchKeeps ==
  ASSUME Inv, NEW w \in Workers, Fetch(w)
  PROVE  Inv'
<1>1. PICK url \in URLs : Ask(w, url) \/ AskAndAnswer(w, url)
  BY DEF Fetch
<1>2. /\ Reading(w) /\ request[w] = None /\ answer[w] = None
      /\ UNCHANGED <<now, published, listed, call>>
      /\ request' = [request EXCEPT ![w] = [url |-> url, start |-> now]]
  BY <1>1 DEF Fetch, Ask, AskAndAnswer, Inv, WorkerInv, Pending
<1>3. \/ answer' = answer
      \/ \E v \in Allowed(url) : answer' = [answer EXCEPT ![w] = [url |-> url, ver |-> v]]
  BY <1>1 DEF Ask, AskAndAnswer
<1>4. Typed'
  BY <1>2, <1>3 DEF Inv, Typed, Requests, Bodies, Allowed, IsCall
<1>5. request'[w] = [url |-> url, start |-> now] /\ request'[w] # None
  BY <1>2, ToolsAssumption DEF Inv, Typed
<1>6. WorkerInv(w)'
  <2>1. Pending(w)'
    BY <1>2, <1>5, ToolsAssumption DEF Pending, Reading, Inv, Typed
  <2>2. AnswerRecent(w)'
    <3>1. CASE answer' = answer
      BY <1>2, <3>1 DEF AnswerRecent
    <3>2. CASE \E v \in Allowed(url) : answer' = [answer EXCEPT ![w] = [url |-> url, ver |-> v]]
      <4>1. PICK v \in Allowed(url) : answer' = [answer EXCEPT ![w] = [url |-> url, ver |-> v]]
        BY <3>2
      <4>2. answer'[w].url = url /\ answer'[w].ver = v
        BY <4>1 DEF Inv, Typed
      <4>3. CurrentSince(published, now, url, v, PromisedTTL[url] + Timeout)
        BY AllowedIsCurrent DEF Inv, Typed
      <4>. QED  BY <1>2, <1>5, <4>2, <4>3 DEF AnswerRecent
    <3>. QED  BY <1>3, <3>1, <3>2
  <2>3. CallRecent(w)'
    BY <1>2, <1>5 DEF Inv, WorkerInv, CallRecent, CurrentSince, Slack, Since
  <2>. QED  BY <2>1, <2>2, <2>3 DEF WorkerInv
<1>7. ASSUME NEW x \in Workers, x # w PROVE WorkerInv(x)'
  <2>1. request'[x] = request[x] /\ answer'[x] = answer[x] /\ call'[x] = call[x]
    BY <1>2, <1>3, <1>7 DEF Inv, Typed
  <2>. QED  BY <1>2, <2>1, OthersKeep
<1>. QED  BY <1>4, <1>6, <1>7 DEF Inv

LEMMA RespondKeeps ==
  ASSUME Inv, NEW w \in Workers, Respond(w)
  PROVE  Inv'
<1>1. /\ request[w] # None /\ answer[w] = None
      /\ UNCHANGED <<now, published, request, listed, call>>
      /\ \/ \E v \in Allowed(request[w].url) :
              answer' = [answer EXCEPT ![w] = [url |-> request[w].url, ver |-> v]]
         \/ answer' = [answer EXCEPT ![w] = Failed]
  BY DEF Respond, Answer
<1>2. request[w] \in Requests
  BY <1>1 DEF Inv, Typed
<1>3. Typed'
  BY <1>1, <1>2 DEF Inv, Typed, Requests, Bodies, Allowed, IsCall
<1>4. WorkerInv(w)'
  <2>1. Pending(w)'
    BY <1>1 DEF Inv, WorkerInv, Pending, Reading
  <2>2. AnswerRecent(w)'
    <3>1. ASSUME NEW v \in Allowed(request[w].url),
                 answer' = [answer EXCEPT ![w] = [url |-> request[w].url, ver |-> v]]
          PROVE  AnswerRecent(w)'
      <4>1. request[w].start <= now /\ request[w].start \in Nat /\ request[w].url \in URLs
        BY <1>1, <1>2 DEF Inv, WorkerInv, Pending, Requests
      <4>2. answer'[w].url = request[w].url /\ answer'[w].ver = v
        BY <3>1 DEF Inv, Typed
      <4>3. CurrentSince(published, request[w].start, request[w].url, v,
                         PromisedTTL[request[w].url] + Timeout)
        BY <4>1, AllowedIsCurrent DEF Inv
      <4>. QED  BY <1>1, <4>2, <4>3 DEF AnswerRecent
    <3>2. CASE answer' = [answer EXCEPT ![w] = Failed]
      BY <3>2 DEF AnswerRecent, Inv, Typed
    <3>. QED  BY <1>1, <3>1, <3>2
  <2>3. CallRecent(w)'
    BY <1>1 DEF Inv, WorkerInv, CallRecent, CurrentSince, Slack, Since
  <2>. QED  BY <2>1, <2>2, <2>3 DEF WorkerInv
<1>5. ASSUME NEW x \in Workers, x # w PROVE WorkerInv(x)'
  <2>1. answer'[x] = answer[x]
    BY <1>1, <1>5 DEF Inv, Typed
  <2>. QED  BY <1>1, <2>1, OthersKeep
<1>. QED  BY <1>3, <1>4, <1>5 DEF Inv

\* The answer comes within the timeout of the request, so what is known to be recent
\* at the request is so now, with one timeout more.
LEMMA ReceiveKeeps ==
  ASSUME Inv, NEW w \in Workers, Receive(w)
  PROVE  Inv'
<1>1. /\ Reading(w) /\ answer[w] # None /\ request[w] # None
      /\ request' = [request EXCEPT ![w] = None]
      /\ answer' = [answer EXCEPT ![w] = None]
      /\ UNCHANGED <<now, published, listed>>
  BY DEF Receive, Return, Inv, WorkerInv, Pending
<1>2. /\ request[w] \in Requests /\ IsCall(call[w])
      /\ request[w].start <= now /\ now <= request[w].start + Timeout
  BY <1>1 DEF Inv, Typed, WorkerInv, Pending, Reading
<1>3. /\ request'[w] = None /\ answer'[w] = None
      /\ \A x \in Workers : x # w => request'[x] = request[x] /\ answer'[x] = answer[x]
  BY <1>1 DEF Inv, Typed
<1>4. CASE answer[w] = Failed
  <2>1. call' = [call EXCEPT ![w].outcome = "failed"]
    BY <1>4 DEF Receive
  <2>2. /\ call'[w].outcome = "failed" /\ IsCall(call'[w])
        /\ call' = [x \in Workers |-> call'[x]]
        /\ \A x \in Workers : x # w => call'[x] = call[x]
    BY <1>2, <2>1 DEF Inv, Typed, IsCall
  <2>3. Typed'
    BY <1>1, <2>2 DEF Inv, Typed, IsCall
  <2>4. WorkerInv(w)'
    BY <1>3, <2>2 DEF WorkerInv, Pending, AnswerRecent, CallRecent
  <2>5. ASSUME NEW x \in Workers, x # w PROVE WorkerInv(x)'
    BY <1>1, <1>3, <2>2, <2>5, OthersKeep
  <2>. QED  BY <2>3, <2>4, <2>5 DEF Inv
<1>5. CASE answer[w] # Failed
  <2>1. PICK doc \in Decoded(answer[w]) : Extend(w, doc)
    BY <1>5 DEF Receive
  <2>. DEFINE read  == [url |-> request[w].url, ver |-> answer[w].ver, doc |-> doc]
              reads == call[w].reads
              new   == Append(reads, read)
  <2>2. /\ answer[w] \in Bodies /\ answer[w].url = request[w].url
        /\ CurrentSince(published, request[w].start, read.url, read.ver,
                        PromisedTTL[read.url] + Timeout)
    BY <1>1, <1>5 DEF Inv, Typed, WorkerInv, AnswerRecent
  <2>3. read \in Read /\ reads \in Seq(Read) /\ new \in Seq(Read)
    <3>1. doc \in Docs
      <4>1. answer[w].url \in URLs /\ answer[w].ver \in Nat
        BY <2>2 DEF Bodies
      <4>2. doc = Fetched(answer[w].url, answer[w].ver) \/ doc = Cached(answer[w].url, answer[w].ver)
        BY <2>1 DEF Decoded
      <4>. QED  BY <4>1, <4>2 DEF Docs
    <3>. QED  BY <1>2, <2>2, <3>1 DEF Read, Bodies, Requests, IsCall
  <2>4. PICK outcome :
          call' = [call EXCEPT ![w].reads = new, ![w].outcome = outcome]
    BY <2>1 DEF Extend
  <2>5. /\ call'[w].reads = new /\ IsCall(call'[w])
        /\ call' = [x \in Workers |-> call'[x]]
        /\ \A x \in Workers : x # w => call'[x] = call[x]
    <3>1. call'[w] = [call[w] EXCEPT !.reads = new, !.outcome = outcome]
      BY <2>4 DEF Inv, Typed
    <3>2. call'[w] = [target |-> call[w].target, reads |-> new, outcome |-> outcome]
      BY <1>2, <3>1 DEF IsCall
    <3>3. call'[w].reads = new /\ IsCall(call'[w])
      BY <2>3, <3>2 DEF IsCall
    <3>. QED  BY <2>4, <3>3 DEF Inv, Typed
  <2>6. Typed'
    BY <1>1, <2>5 DEF Inv, Typed, IsCall
  <2>7. WorkerInv(w)'
    <3>1. Pending(w)' /\ AnswerRecent(w)'
      BY <1>3 DEF Pending, AnswerRecent
    <3>2. ASSUME NEW i \in DOMAIN new
          PROVE  CurrentSince(published, now, new[i].url, new[i].ver, Slack(new, i))
      <4>1. CASE i \in DOMAIN reads
        <5>1. new[i] = reads[i] /\ reads[i] \in Read
          BY <2>3, <4>1
        <5>2. CurrentSince(published, request[w].start, reads[i].url, reads[i].ver, Slack(reads, i))
          BY <1>1, <4>1 DEF Inv, WorkerInv, CallRecent, Since, Reading
        <5>3. Slack(reads, i) \in Nat /\ Slack(new, i) = Slack(reads, i) + Timeout
          BY <2>3, <4>1, SlackGrows
        <5>4. CurrentSince(published, now, reads[i].url, reads[i].ver, Slack(reads, i) + Timeout)
          BY <1>2, <5>1, <5>2, <5>3, LaterCurrent, ToolsAssumption
             DEF Inv, Typed, Read, Requests
        <5>. QED  BY <5>1, <5>3, <5>4
      <4>2. CASE i = Len(new)
        <5>1. new[i] = read
          BY <2>3, <4>2
        <5>2. Len(new) - i + 2 = 2
          BY <2>3, <4>2
        <5>3. Slack(new, i) = PromisedTTL[read.url] + 2 * Timeout
          BY <5>1, <5>2 DEF Slack
        <5>4. PromisedTTL[read.url] \in Nat /\ Timeout \in Nat
          BY <2>3, ToolsAssumption DEF Read
        <5>5. CurrentSince(published, now, read.url, read.ver,
                           (PromisedTTL[read.url] + Timeout) + Timeout)
          <6>1. /\ read.url \in URLs /\ read.ver \in Nat /\ request[w].start \in Nat
                /\ PromisedTTL[read.url] + Timeout \in Nat
            BY <1>2, <2>3, <5>4 DEF Read, Requests
          <6>2. Typed /\ now \in Nat
            BY DEF Inv, Typed
          <6>. HIDE DEF read
          <6>. QED  BY <1>2, <2>2, <5>4, <6>1, <6>2, LaterCurrent
        <5>6. (PromisedTTL[read.url] + Timeout) + Timeout = PromisedTTL[read.url] + 2 * Timeout
          BY <5>4
        <5>. QED  BY <5>1, <5>3, <5>5, <5>6
      <4>. QED  BY <2>3, <4>1, <4>2
    <3>3. CallRecent(w)'
      <4>1. Since(w)' = now
        BY <1>1, <1>3 DEF Since
      <4>. QED  BY <1>1, <2>5, <3>2, <4>1 DEF CallRecent, CurrentSince, Slack
    <3>. QED  BY <3>1, <3>3 DEF WorkerInv
  <2>8. ASSUME NEW x \in Workers, x # w PROVE WorkerInv(x)'
    BY <1>1, <1>3, <2>5, <2>8, OthersKeep
  <2>. QED  BY <2>6, <2>7, <2>8 DEF Inv
<1>. QED  BY <1>4, <1>5

\* Ends a call, or forgets one that has ended: nothing becomes older by it.
LEMMA EndKeeps ==
  ASSUME Inv, NEW w \in Workers, Finish(w) \/ Reply(w)
  PROVE  Inv'
<1>1. /\ call[w] # None /\ request[w] = None /\ answer[w] = None
      /\ UNCHANGED <<now, published, request, answer>>
      /\ \/ call[w].outcome = "reading" /\ call' = [call EXCEPT ![w].outcome = "answered"]
         \/ call' = [call EXCEPT ![w] = None]
  BY DEF Finish, Reply, Reading, vars, Inv, WorkerInv, Pending
<1>2. IsCall(call[w])
  BY <1>1 DEF Inv, Typed
<1>3. /\ call' = [x \in Workers |-> call'[x]]
      /\ \A x \in Workers : x # w => call'[x] = call[x]
      /\ \/ call'[w] = None
         \/ /\ IsCall(call'[w]) /\ call'[w].reads = call[w].reads
            /\ call[w].outcome # "failed"
  BY <1>1, <1>2 DEF Inv, Typed, IsCall
<1>4. Typed'
  BY <1>1, <1>3 DEF Inv, Typed, IsCall
<1>5. WorkerInv(w)'
  <2>1. Pending(w)' /\ AnswerRecent(w)'
    BY <1>1 DEF Pending, AnswerRecent
  <2>2. CallRecent(w)'
    BY <1>1, <1>3 DEF Inv, WorkerInv, CallRecent, CurrentSince, Slack, Since
  <2>. QED  BY <2>1, <2>2 DEF WorkerInv
<1>6. ASSUME NEW x \in Workers, x # w PROVE WorkerInv(x)'
  BY <1>1, <1>3, <1>6, OthersKeep
<1>. QED  BY <1>4, <1>5, <1>6 DEF Inv

LEMMA RepublishKeeps ==
  ASSUME Inv, NEW u \in URLs, Republish(u)
  PROVE  Inv'
<1>1. /\ Publish(u) /\ Typed
      /\ UNCHANGED <<now, request, answer, listed, call>>
  BY DEF Republish, Publish, Inv
<1>2. Typed'
  BY <1>1 DEF Typed, Publish, IsCall
<1>3. ASSUME NEW w \in Workers PROVE WorkerInv(w)'
  <2>1. WorkerInv(w)
    BY DEF Inv
  <2>2. Pending(w)'
    BY <1>1, <2>1 DEF WorkerInv, Pending, Reading
  <2>3. AnswerRecent(w)'
    <3>1. SUFFICES ASSUME answer[w] \notin {None, Failed}
                   PROVE  AnswerRecent(w)'
      BY <1>1 DEF AnswerRecent
    <3>2. /\ answer[w] \in Bodies /\ request[w] \in Requests /\ request[w].start <= now
          /\ answer[w].url = request[w].url
          /\ CurrentSince(published, request[w].start, answer[w].url, answer[w].ver,
                          PromisedTTL[answer[w].url] + Timeout)
      BY <1>1, <2>1, <3>1 DEF Typed, WorkerInv, AnswerRecent, Pending
    <3>3. PromisedTTL[answer[w].url] + Timeout \in Nat \ {0}
      BY <3>2, ToolsAssumption DEF Bodies
    <3>4. CurrentSince(published', request[w].start, answer[w].url, answer[w].ver,
                       PromisedTTL[answer[w].url] + Timeout)
      BY <1>1, <3>2, <3>3, StaysCurrent DEF Bodies, Requests
    <3>. QED  BY <1>1, <3>2, <3>4 DEF AnswerRecent
  <2>4. CallRecent(w)'
    <3>1. SUFFICES ASSUME call[w] # None, call[w].outcome # "failed",
                          NEW i \in DOMAIN call[w].reads
                   PROVE  CurrentSince(published', Since(w), call[w].reads[i].url,
                                       call[w].reads[i].ver, Slack(call[w].reads, i))
      BY <1>1 DEF CallRecent, CurrentSince, Slack, Since
    <3>2. call[w].reads \in Seq(Read) /\ call[w].reads[i] \in Read
      BY <1>1, <3>1 DEF Typed, IsCall
    <3>3. Slack(call[w].reads, i) \in Nat \ {0}
      BY <3>2, SlackGrows
    <3>4. Since(w) \in Nat /\ Since(w) <= now
      BY <1>1, <2>1 DEF Since, WorkerInv, Pending, Typed, Requests
    <3>5. CurrentSince(published, Since(w), call[w].reads[i].url, call[w].reads[i].ver,
                       Slack(call[w].reads, i))
      BY <2>1, <3>1 DEF WorkerInv, CallRecent
    <3>. QED  BY <1>1, <3>2, <3>3, <3>4, <3>5, StaysCurrent DEF Read
  <2>. QED  BY <2>2, <2>3, <2>4 DEF WorkerInv
<1>. QED  BY <1>2, <1>3 DEF Inv

\* Time passes only while every call waits, and never past a request's timeout.
LEMMA WaitKeeps == ASSUME Inv, Wait PROVE Inv'
<1>1. /\ now' = now + 1 /\ now \in Nat
      /\ UNCHANGED <<published, request, answer, listed, call>>
      /\ \A w \in Workers : /\ call[w] # None => request[w] # None
                            /\ request[w] # None => now < request[w].start + Timeout
  BY DEF Wait, Tick, Inv, Typed
<1>2. Typed'
  BY <1>1 DEF Inv, Typed, IsCall
<1>3. ASSUME NEW w \in Workers PROVE WorkerInv(w)'
  <2>1. WorkerInv(w)
    BY DEF Inv
  <2>2. Pending(w)'
    <3>1. request[w] # None => request[w].start \in Nat
      BY DEF Inv, Typed, Requests
    <3>. QED  BY <1>1, <2>1, <3>1, ToolsAssumption DEF WorkerInv, Pending, Reading
  <2>3. AnswerRecent(w)'
    BY <1>1, <2>1 DEF WorkerInv, AnswerRecent, CurrentSince
  <2>4. CallRecent(w)'
    BY <1>1, <2>1 DEF WorkerInv, CallRecent, CurrentSince, Slack, Since
  <2>. QED  BY <2>2, <2>3, <2>4 DEF WorkerInv
<1>. QED  BY <1>2, <1>3 DEF Inv

LEMMA RestartKeeps == ASSUME Inv, Restart PROVE Inv'
<1>1. /\ request' = [w \in Workers |-> None] /\ answer' = [w \in Workers |-> None]
      /\ call' = [w \in Workers |-> None] /\ UNCHANGED <<now, published>>
  BY DEF Restart, Abandon
<1>2. Typed'
  BY <1>1 DEF Inv, Typed
<1>3. ASSUME NEW w \in Workers PROVE WorkerInv(w)'
  BY <1>1 DEF WorkerInv, Pending, AnswerRecent, CallRecent
<1>. QED  BY <1>2, <1>3 DEF Inv

LEMMA Invariant == ToolsSpec => []Inv
<1>1. Inv /\ UNCHANGED toolVars => Inv'
  <2>. SUFFICES ASSUME Inv, UNCHANGED toolVars PROVE Inv'
    OBVIOUS
  <2>1. Typed'
    BY DEF toolVars, vars, Inv, Typed, IsCall
  <2>2. ASSUME NEW w \in Workers PROVE WorkerInv(w)'
    BY OthersKeep DEF toolVars, vars
  <2>. QED  BY <2>1, <2>2 DEF Inv
<1>2. Inv /\ ToolsNext => Inv'
  BY BeginKeeps, FetchKeeps, RespondKeeps, ReceiveKeeps, EndKeeps, RepublishKeeps,
     WaitKeeps, RestartKeeps DEF ToolsNext, Handle
<1>. QED  BY Initially, <1>1, <1>2, PTL DEF ToolsSpec

\* Whatever a call has read is recent when it ends without a failed request.
LEMMA EndedRecent ==
  ASSUME Inv, NEW w \in Workers,
         Ended(w, "answered") \/ Ended(w, "undecodable") \/ Ended(w, "missing"),
         NEW i \in DOMAIN call[w].reads
  PROVE  CurrentWithin(call[w].reads[i].url, call[w].reads[i].ver, Slack(call[w].reads, i))
<1>1. call[w] # None /\ call[w].outcome # "failed" /\ Since(w) = now
  BY DEF Ended, Inv, WorkerInv, Pending, Reading, Since
<1>2. CurrentSince(published, now, call[w].reads[i].url, call[w].reads[i].ver,
                   Slack(call[w].reads, i))
  BY <1>1 DEF Inv, WorkerInv, CallRecent
<1>. QED  BY <1>2 DEF CurrentSince, CurrentWithin

\* Over the promise of StaleReads, what an answer joins is recent when it is given:
\* the property that tool_calls checks, for any number of workers, URLs and documents
\* per call.
THEOREM AnswersRecent == ToolsSpec => []ReadsAreRecent
<1>1. Inv => ReadsAreRecent
  BY EndedRecent DEF ReadsAreRecent, Slack
<1>. QED  BY <1>1, Invariant, PTL

-----------------------------------------------------------------------------
(* A call that fails over a document, because it does not decode or lacks  *)
(* the set asked for, fails over the one it wanted next, which the         *)
(* upstream has or had until recently.                                     *)

OfSetInsights == {"analyze_set_insights", "set-insights"}

SetsURL(w) == GetCategorySets(ToString(call[w].target.category))

AnswerExists(w) ==
  answer[w] \notin {None, Failed} => answer[w].ver \in DOMAIN published[answer[w].url]

\* What was read is what a version decodes to.
ReadsExist(w) ==
  call[w] # None =>
    \A i \in DOMAIN call[w].reads :
      LET read == call[w].reads[i]
      IN  read.ver \in DOMAIN published[read.url] /\ read.doc \in Decoded(read)

LastUndecodable(w) ==
  Ended(w, "undecodable") =>
    LET reads == call[w].reads
        n     == Len(reads)
    IN  /\ reads # <<>> /\ reads[n].doc = Error
        /\ reads[n].url = Wanted(call[w].target, SubSeq(reads, 1, n - 1))[n]

\* A call asks for the next of the documents it wants.
AsksNext(w) ==
  call[w] # None /\ request[w] # None =>
    request[w].url = Wanted(call[w].target, call[w].reads)[Len(call[w].reads) + 1]

NotListed(w) ==
  Ended(w, "missing") =>
    /\ Len(call[w].reads) = 1
    /\ call[w].reads[1].url = SetsURL(w)
    /\ call[w].reads[1].doc # Error
    /\ \A i \in DOMAIN mapSets(call[w].reads[1].doc) :
         mapSets(call[w].reads[1].doc)[i].ID # call[w].target.set

FailureInv(w) ==
  AnswerExists(w) /\ ReadsExist(w) /\ LastUndecodable(w) /\ AsksNext(w) /\ NotListed(w)

AllFailures == \A w \in Workers : FailureInv(w)

-----------------------------------------------------------------------------
\* What a sequence over S holds is in S.
LEMMA ElementsOf ==
  ASSUME NEW S, NEW s \in Seq(S), NEW i \in DOMAIN s
  PROVE  s[i] \in S
  OBVIOUS

LEMMA FailuresInitially == ToolsInit => AllFailures
  BY DEF ToolsInit, Init, AllFailures, FailureInv, AnswerExists, ReadsExist, LastUndecodable,
         AsksNext, NotListed, Ended

\* What a call wants depends on what the server was started with, and on nothing else
\* that changes.
LEMMA WantedKept ==
  ASSUME listed' = listed
  PROVE  \A target, reads : Wanted(target, reads)' = Wanted(target, reads)
  BY DEF Wanted, CategoriesOf, AskCategories

\* What a worker's steps leave alone for the others.
LEMMA OthersFail ==
  ASSUME AllFailures, NEW x \in Workers, UNCHANGED <<published, listed>>,
         request'[x] = request[x], answer'[x] = answer[x], call'[x] = call[x]
  PROVE  FailureInv(x)'
<1>1. FailureInv(x)
  BY DEF AllFailures
<1>2. AnswerExists(x)' /\ ReadsExist(x)'
  BY <1>1 DEF FailureInv, AnswerExists, ReadsExist
<1>3. NotListed(x)'
  BY <1>1 DEF FailureInv, NotListed, Ended, SetsURL
<1>4. LastUndecodable(x)' /\ AsksNext(x)'
  BY <1>1, WantedKept DEF FailureInv, LastUndecodable, AsksNext, Ended
<1>. QED  BY <1>2, <1>3, <1>4 DEF FailureInv

\* The documents read before the one read last.
LEMMA BeforeLast ==
  ASSUME NEW S, NEW s \in Seq(S), NEW e \in S
  PROVE  SubSeq(Append(s, e), 1, Len(Append(s, e)) - 1) = s
<1>1. Len(Append(s, e)) - 1 = Len(s) /\ Append(s, e) \in Seq(S) /\ Len(s) \in Nat
  OBVIOUS
<1>2. /\ SubSeq(Append(s, e), 1, Len(s)) \in Seq(S)
      /\ Len(SubSeq(Append(s, e), 1, Len(s))) = Len(s)
      /\ \A i \in 1..Len(s) : SubSeq(Append(s, e), 1, Len(s))[i] = s[i]
  BY <1>1
<1>. QED  BY <1>1, <1>2

LEMMA OneBefore ==
  ASSUME NEW S, NEW s \in Seq(S), NEW a, NEW i \in 1..Len(s)
  PROVE  /\ Len(<<a>> \o s) = Len(s) + 1 /\ Len(s) \in Nat
         /\ (<<a>> \o s)[i + 1] = s[i]
<1>1. <<a>> \in Seq(S \cup {a}) /\ s \in Seq(S \cup {a}) /\ Len(<<a>>) = 1
  OBVIOUS
<1>. QED  BY <1>1

\* The first URL that an insights call wants.
LEMMA WantedFirst ==
  ASSUME NEW target, NEW reads, target.op \in OfSetInsights
  PROVE  Wanted(target, reads)[1] = GetCategorySets(ToString(target.category))
  BY DEF Wanted, OfSetInsights

LEMMA FetchFails ==
  ASSUME Inv, AllFailures, NEW w \in Workers, Fetch(w)
  PROVE  AllFailures'
<1>. DEFINE url == Wanted(call[w].target, call[w].reads)[Len(call[w].reads) + 1]
<1>1. url \in URLs /\ Reading(w) /\ (Ask(w, url) \/ AskAndAnswer(w, url))
      /\ UNCHANGED <<listed, call>>
  BY DEF Fetch
<1>2. /\ UNCHANGED published
      /\ request' = [request EXCEPT ![w] = [url |-> url, start |-> now]]
      /\ \/ answer' = answer
         \/ \E v \in Allowed(url) : answer' = [answer EXCEPT ![w] = [url |-> url, ver |-> v]]
  BY <1>1 DEF Ask, AskAndAnswer
<1>3. FailureInv(w)
  BY DEF AllFailures
<1>. HIDE DEF url
<1>4. AnswerExists(w)'
  <2>1. CASE answer' = answer
    BY <1>2, <1>3, <2>1 DEF FailureInv, AnswerExists
  <2>2. ASSUME NEW v \in Allowed(url), answer' = [answer EXCEPT ![w] = [url |-> url, ver |-> v]]
        PROVE  AnswerExists(w)'
    <3>1. published[url] \in Seq(Nat)
      BY <1>1 DEF Inv, Typed
    <3>. QED  BY <1>2, <2>2, <3>1 DEF AnswerExists, Allowed, Inv, Typed
  <2>. QED  BY <1>2, <2>1, <2>2
<1>5. ReadsExist(w)' /\ LastUndecodable(w)' /\ NotListed(w)'
  <2>1. ReadsExist(w)'
    BY <1>1, <1>2, <1>3 DEF FailureInv, ReadsExist
  <2>2. LastUndecodable(w)' /\ NotListed(w)'
    BY <1>1 DEF LastUndecodable, NotListed, Ended, Reading
  <2>. QED  BY <2>1, <2>2
<1>6. AsksNext(w)'
  <2>1. request'[w].url = Wanted(call[w].target, call[w].reads)[Len(call[w].reads) + 1]
    BY <1>2 DEF url, Inv, Typed
  <2>. QED  BY <1>1, <2>1, WantedKept DEF AsksNext
<1>7. ASSUME NEW x \in Workers, x # w PROVE FailureInv(x)'
  BY <1>1, <1>2, <1>7, OthersFail DEF Inv, Typed
<1>. QED  BY <1>4, <1>5, <1>6, <1>7 DEF AllFailures, FailureInv

LEMMA RespondFails ==
  ASSUME Inv, AllFailures, NEW w \in Workers, Respond(w)
  PROVE  AllFailures'
<1>1. /\ request[w] # None
      /\ UNCHANGED <<now, published, request, listed, call>>
      /\ \/ \E v \in Allowed(request[w].url) :
              answer' = [answer EXCEPT ![w] = [url |-> request[w].url, ver |-> v]]
         \/ answer' = [answer EXCEPT ![w] = Failed]
  BY DEF Respond, Answer
<1>2. request[w].url \in URLs /\ FailureInv(w)
  BY <1>1 DEF Inv, Typed, Requests, AllFailures
<1>3. AnswerExists(w)'
  <2>1. published[request[w].url] \in Seq(Nat)
    BY <1>2 DEF Inv, Typed
  <2>. QED  BY <1>1, <2>1 DEF AnswerExists, Allowed, Inv, Typed
<1>4. ReadsExist(w)' /\ LastUndecodable(w)' /\ NotListed(w)' /\ AsksNext(w)'
  <2>1. ReadsExist(w)' /\ NotListed(w)'
    BY <1>1, <1>2 DEF FailureInv, ReadsExist, NotListed, Ended, SetsURL
  <2>2. LastUndecodable(w)' /\ AsksNext(w)'
    BY <1>1, <1>2, WantedKept DEF FailureInv, LastUndecodable, AsksNext, Ended
  <2>. QED  BY <2>1, <2>2
<1>5. ASSUME NEW x \in Workers, x # w PROVE FailureInv(x)'
  BY <1>1, <1>5, OthersFail DEF Inv, Typed
<1>. QED  BY <1>3, <1>4, <1>5 DEF AllFailures, FailureInv

LEMMA ReceiveFails ==
  ASSUME Inv, AllFailures, NEW w \in Workers, Receive(w)
  PROVE  AllFailures'
<1>1. /\ Reading(w) /\ answer[w] # None /\ request[w] # None
      /\ request' = [request EXCEPT ![w] = None]
      /\ answer' = [answer EXCEPT ![w] = None]
      /\ UNCHANGED <<now, published, listed>>
  BY DEF Receive, Return, Inv, WorkerInv, Pending
<1>2. IsCall(call[w]) /\ FailureInv(w)
  BY <1>1 DEF Inv, Typed, Reading, AllFailures
<1>3. AnswerExists(w)' /\ AsksNext(w)'
  BY <1>1 DEF AnswerExists, AsksNext, Inv, Typed
<1>4. CASE answer[w] = Failed
  <2>1. call' = [call EXCEPT ![w].outcome = "failed"]
    BY <1>4 DEF Receive
  <2>2. call'[w].outcome = "failed" /\ call'[w].reads = call[w].reads
    BY <1>2, <2>1 DEF Inv, Typed, IsCall
  <2>3. ReadsExist(w)' /\ LastUndecodable(w)' /\ NotListed(w)'
    BY <1>1, <1>2, <2>2 DEF FailureInv, ReadsExist, LastUndecodable, NotListed, Ended, Reading
  <2>4. ASSUME NEW x \in Workers, x # w PROVE FailureInv(x)'
    BY <1>1, <2>1, <2>4, OthersFail DEF Inv, Typed
  <2>. QED  BY <1>3, <2>3, <2>4 DEF AllFailures, FailureInv
<1>5. CASE answer[w] # Failed
  <2>1. PICK doc \in Decoded(answer[w]) : Extend(w, doc)
    BY <1>5 DEF Receive
  <2>. DEFINE read  == [url |-> request[w].url, ver |-> answer[w].ver, doc |-> doc]
              reads == call[w].reads
              new   == Append(reads, read)
              outcome == IF doc = Error THEN "undecodable"
                         ELSE IF SetMissing(call[w].target, new) THEN "missing" ELSE "reading"
  <2>2. /\ answer[w].url = request[w].url
        /\ answer[w].ver \in DOMAIN published[answer[w].url]
    BY <1>1, <1>2, <1>5 DEF Inv, WorkerInv, AnswerRecent, FailureInv, AnswerExists
  <2>3. read.ver \in DOMAIN published[read.url] /\ read.doc \in Decoded(read)
    BY <2>1, <2>2 DEF Decoded
  <2>4. call' = [call EXCEPT ![w].reads = new, ![w].outcome = outcome]
    BY <1>1, <2>1 DEF Extend, Reading
  <2>5. /\ call'[w] = [target |-> call[w].target, reads |-> new, outcome |-> outcome]
        /\ \A x \in Workers : x # w => call'[x] = call[x]
    <3>1. call'[w] = [call[w] EXCEPT !.reads = new, !.outcome = outcome]
      BY <2>4 DEF Inv, Typed
    <3>. QED  BY <1>2, <2>4, <3>1 DEF IsCall, Inv, Typed
  <2>6. /\ reads \in Seq(Read) /\ Len(new) = Len(reads) + 1 /\ new[Len(new)] = read
        /\ \A i \in DOMAIN new : i = Len(new) \/ (i \in DOMAIN reads /\ new[i] = reads[i])
    BY <1>2 DEF IsCall
  <2>. HIDE DEF read, new, outcome
  <2>7. ReadsExist(w)'
    BY <1>1, <1>2, <2>3, <2>5, <2>6 DEF FailureInv, ReadsExist, Reading, Decoded
  <2>8. LastUndecodable(w)'
    <3>1. SUFFICES ASSUME outcome = "undecodable"
                   PROVE  /\ new # <<>> /\ new[Len(new)].doc = Error
                          /\ new[Len(new)].url =
                               Wanted(call[w].target, SubSeq(new, 1, Len(new) - 1))[Len(new)]
      BY <1>1, <2>5, WantedKept DEF LastUndecodable, Ended
    <3>2. doc = Error
      BY <3>1 DEF outcome
    <3>3. new # <<>>
      BY <2>6
    <3>4. SubSeq(new, 1, Len(new) - 1) = reads
      <4>1. read \in {read} \cup Read /\ reads \in Seq({read} \cup Read)
        BY <2>6
      <4>. HIDE DEF reads
      <4>. QED  BY <4>1, BeforeLast DEF new
    <3>5. read.url = Wanted(call[w].target, reads)[Len(new)]
      BY <1>1, <1>2, <2>6 DEF FailureInv, AsksNext, Reading, read
    <3>6. new[Len(new)] = read
      BY <2>6
    <3>7. read.doc = Error
      BY <3>2 DEF read
    <3>. HIDE DEF reads
    <3>. QED  BY <3>3, <3>4, <3>5, <3>6, <3>7
  <2>9. NotListed(w)'
    <3>1. SUFFICES ASSUME outcome = "missing"
                   PROVE  /\ Len(new) = 1
                          /\ new[1].url = SetsURL(w)
                          /\ new[1].doc # Error
                          /\ \A i \in DOMAIN mapSets(new[1].doc) :
                               mapSets(new[1].doc)[i].ID # call[w].target.set
      BY <2>5 DEF NotListed, Ended, SetsURL
    <3>2. doc # Error /\ SetMissing(call[w].target, new)
      BY <3>1 DEF outcome
    <3>3. Len(new) = 1 /\ call[w].target.op \in OfSetInsights
      BY <3>2 DEF SetMissing, OfSetInsights
    <3>4. reads = <<>> /\ new[1] = read
      <4>1. new[1] = read
        BY <2>6, <3>3
      <4>. HIDE DEF reads
      <4>2. Len(reads) + 1 = 1
        BY <2>6, <3>3
      <4>3. reads \in Seq(Read) /\ Len(reads) \in Nat
        BY <2>6
      <4>4. Len(reads) = 0
        BY <4>2, <4>3
      <4>5. reads = <<>>
        BY <4>3, <4>4
      <4>. QED  BY <4>1, <4>5
    <3>5. request[w].url = SetsURL(w)
      <4>1. request[w].url = Wanted(call[w].target, reads)[1]
        BY <1>1, <1>2, <3>4 DEF FailureInv, AsksNext, Reading
      <4>. QED  BY <3>3, <4>1, WantedFirst DEF SetsURL
    <3>6. new[1].url = SetsURL(w) /\ new[1].doc # Error
      BY <3>2, <3>4, <3>5 DEF read
    <3>. QED  BY <3>2, <3>3, <3>6 DEF SetMissing
  <2>10. ASSUME NEW x \in Workers, x # w PROVE FailureInv(x)'
    BY <1>1, <2>5, <2>10, OthersFail DEF Inv, Typed
  <2>. QED  BY <1>3, <2>7, <2>8, <2>9, <2>10 DEF AllFailures, FailureInv
<1>. QED  BY <1>4, <1>5

\* Begin, Finish and Reply: a call without documents, an answer, or none.
LEMMA BeginAndEndFail ==
  ASSUME Inv, AllFailures, NEW w \in Workers,
         Finish(w) \/ Reply(w) \/ \E input \in Inputs : Begin(w, input)
  PROVE  AllFailures'
<1>1. /\ UNCHANGED <<now, published, listed, request, answer>> /\ request[w] = None
      /\ \/ call[w] # None /\ call' = [call EXCEPT ![w].outcome = "answered"]
         \/ call' = [call EXCEPT ![w] = None]
         \/ \E target, outcome : /\ outcome \in {"refused", "reading"}
                                 /\ call' = [call EXCEPT ![w] = [target |-> target,
                                      reads |-> <<>>, outcome |-> outcome]]
  BY DEF Finish, Reply, Begin, Reading, vars, Inv, WorkerInv, Pending
<1>2. FailureInv(w) /\ (call[w] = None \/ IsCall(call[w]))
  BY DEF AllFailures, Inv, Typed
<1>3. /\ \A x \in Workers : x # w => call'[x] = call[x]
      /\ \/ call[w] # None /\ call'[w].outcome = "answered" /\ call'[w].reads = call[w].reads
         \/ call'[w] = None
         \/ call'[w].reads = <<>> /\ call'[w].outcome \in {"refused", "reading"}
  BY <1>1, <1>2 DEF Inv, Typed, IsCall
<1>4. AnswerExists(w)' /\ AsksNext(w)'
  BY <1>1, <1>2 DEF FailureInv, AnswerExists, AsksNext
<1>5. ReadsExist(w)' /\ LastUndecodable(w)' /\ NotListed(w)'
  BY <1>1, <1>2, <1>3 DEF FailureInv, ReadsExist, LastUndecodable, NotListed, Ended
<1>6. ASSUME NEW x \in Workers, x # w PROVE FailureInv(x)'
  BY <1>1, <1>3, <1>6, OthersFail
<1>. QED  BY <1>4, <1>5, <1>6 DEF AllFailures, FailureInv

LEMMA RepublishFails ==
  ASSUME Inv, AllFailures, NEW u \in URLs, Republish(u)
  PROVE  AllFailures'
<1>1. /\ published' = [published EXCEPT ![u] = Append(@, now)]
      /\ UNCHANGED <<request, answer, listed, call>>
  BY DEF Republish, Publish
<1>2. \A url \in URLs : DOMAIN published[url] \subseteq DOMAIN published'[url]
  <2>. SUFFICES ASSUME NEW url \in URLs
                PROVE  DOMAIN published[url] \subseteq DOMAIN published'[url]
    OBVIOUS
  <2>1. published[url] \in Seq(Nat) /\ published'[url] \in {published[url], Append(published[url], now)}
    BY <1>1 DEF Inv, Typed
  <2>. QED  BY <2>1
<1>3. ASSUME NEW w \in Workers PROVE FailureInv(w)'
  <2>1. FailureInv(w)
    BY DEF AllFailures
  <2>2. AnswerExists(w)'
    <3>1. answer[w] \notin {None, Failed} => answer[w].url \in URLs
      BY DEF Inv, Typed, Bodies
    <3>. QED  BY <1>1, <1>2, <2>1, <3>1 DEF FailureInv, AnswerExists
  <2>3. ReadsExist(w)'
    <3>1. SUFFICES ASSUME call[w] # None, NEW i \in DOMAIN call[w].reads
                   PROVE  LET read == call[w].reads[i]
                          IN  read.ver \in DOMAIN published'[read.url] /\ read.doc \in Decoded(read)
      BY <1>1 DEF ReadsExist, Decoded
    <3>2. call[w].reads[i] \in Read
      BY <3>1 DEF Inv, Typed, IsCall
    <3>3. call[w].reads[i].url \in URLs
      BY <3>2 DEF Read
    <3>4. /\ call[w].reads[i].ver \in DOMAIN published[call[w].reads[i].url]
          /\ call[w].reads[i].doc \in Decoded(call[w].reads[i])
      BY <2>1, <3>1 DEF FailureInv, ReadsExist
    <3>. QED  BY <1>2, <3>3, <3>4
  <2>4. LastUndecodable(w)' /\ AsksNext(w)' /\ NotListed(w)'
    <3>1. NotListed(w)'
      BY <1>1, <2>1 DEF FailureInv, NotListed, Ended, SetsURL
    <3>2. LastUndecodable(w)' /\ AsksNext(w)'
      BY <1>1, <2>1, WantedKept DEF FailureInv, LastUndecodable, AsksNext, Ended
    <3>. QED  BY <3>1, <3>2
  <2>. QED  BY <2>2, <2>3, <2>4 DEF FailureInv
<1>. QED  BY <1>3 DEF AllFailures

LEMMA RestartFails ==
  ASSUME Restart PROVE AllFailures'
  BY DEF Restart, Abandon, AllFailures, FailureInv, AnswerExists, ReadsExist, LastUndecodable,
         AsksNext, NotListed, Ended

LEMMA FailuresInvariant == ToolsSpec => []AllFailures
<1>1. AllFailures /\ (UNCHANGED toolVars \/ Wait) => AllFailures'
  BY OthersFail DEF toolVars, vars, Wait, Tick, AllFailures
<1>2. Inv /\ AllFailures /\ ToolsNext => AllFailures'
  BY <1>1, FetchFails, RespondFails, ReceiveFails, BeginAndEndFail, RepublishFails,
     RestartFails DEF ToolsNext, Handle
<1>. QED  BY Invariant, FailuresInitially, <1>1, <1>2, PTL DEF ToolsSpec

-----------------------------------------------------------------------------
\* A version that fails to decode from the cache fails from the upstream too: the
\* cache only adds that a document is JSON.
LEMMA CachedIsFetched ==
  ASSUME NEW url, NEW v
  PROVE  /\ Fetched(url, v) \in {Error, Cached(url, v)}
         /\ Cached(url, v) = Error => Fetched(url, v) = Error
  BY DEF Fetched, Cached, Received, Decode

\* Over the promise of StaleReads, a call that fails over a document does so over the
\* one it wanted next, which does not decode as the upstream sent it, or over the list
\* of the sets of its category, and over a version that the upstream has or replaced
\* less than its TTL and two timeouts ago: the property that tool_calls checks, for
\* any number of workers, URLs and documents.
THEOREM FailuresAreTheUpstreams == ToolsSpec => []FailuresHeal
<1>1. ASSUME Inv, NEW w \in Workers, Ended(w, "undecodable") \/ Ended(w, "missing"),
             NEW i \in DOMAIN call[w].reads, i = Len(call[w].reads)
      PROVE  LET read == call[w].reads[i]
             IN  CurrentWithin(read.url, read.ver, PromisedTTL[read.url] + 2 * Timeout)
  <2>1. call[w].reads \in Seq(Read)
    BY <1>1 DEF Ended, Inv, Typed, IsCall
  <2>2. Len(call[w].reads) - i + 2 = 2
    BY <1>1, <2>1
  <2>3. CurrentWithin(call[w].reads[i].url, call[w].reads[i].ver,
          PromisedTTL[call[w].reads[i].url] + (Len(call[w].reads) - i + 2) * Timeout)
    BY <1>1, EndedRecent DEF Slack
  <2>. QED  BY <2>2, <2>3
<1>2. ASSUME Inv, AllFailures, NEW w \in Workers, Ended(w, "undecodable")
      PROVE  LET reads == call[w].reads
                 last  == reads[Len(reads)]
             IN  /\ last.url = Wanted(call[w].target, SubSeq(reads, 1, Len(reads) - 1))[Len(reads)]
                 /\ Fetched(last.url, last.ver) = Error
                 /\ CurrentWithin(last.url, last.ver, PromisedTTL[last.url] + 2 * Timeout)
  <2>. DEFINE reads == call[w].reads
              i     == Len(reads)
              last  == reads[i]
  <2>1. /\ reads # <<>> /\ last.doc = Error
        /\ last.url = Wanted(call[w].target, SubSeq(reads, 1, i - 1))[i]
    BY <1>2 DEF AllFailures, FailureInv, LastUndecodable
  <2>2. i \in DOMAIN reads
    <3>1. reads \in Seq(Read)
      BY <1>2 DEF Ended, Inv, Typed, IsCall
    <3>. QED  BY <2>1, <3>1
  <2>3. last.doc \in Decoded(last)
    BY <1>2, <2>2 DEF Ended, AllFailures, FailureInv, ReadsExist
  <2>4. Fetched(last.url, last.ver) = Error
    BY <2>1, <2>3, CachedIsFetched DEF Decoded
  <2>5. CurrentWithin(last.url, last.ver, PromisedTTL[last.url] + 2 * Timeout)
    BY <1>1, <1>2, <2>2
  <2>. QED  BY <2>1, <2>4, <2>5
<1>3. ASSUME Inv, AllFailures, NEW w \in Workers, Ended(w, "missing")
      PROVE  \E i \in DOMAIN call[w].reads :
               LET read == call[w].reads[i]
                   sets == Cached(read.url, read.ver).sets
               IN  /\ read.url = SetsURL(w)
                   /\ call[w].target.set \notin {sets[j].id : j \in DOMAIN sets}
                   /\ CurrentWithin(read.url, read.ver, PromisedTTL[read.url] + 2 * Timeout)
  <2>. DEFINE read == call[w].reads[1]
  <2>1. /\ Len(call[w].reads) = 1 /\ read.url = SetsURL(w) /\ read.doc # Error
        /\ \A i \in DOMAIN mapSets(read.doc) : mapSets(read.doc)[i].ID # call[w].target.set
    BY <1>3 DEF AllFailures, FailureInv, NotListed
  <2>2. 1 \in DOMAIN call[w].reads
    BY <1>3, <2>1 DEF Ended, Inv, Typed, IsCall
  <2>3. read.doc = Cached(read.url, read.ver)
    <3>1. read.doc \in Decoded(read)
      BY <1>3, <2>2 DEF Ended, AllFailures, FailureInv, ReadsExist
    <3>. QED  BY <2>1, <3>1, CachedIsFetched DEF Decoded
  <2>4. CurrentWithin(read.url, read.ver, PromisedTTL[read.url] + 2 * Timeout)
    BY <1>1, <1>3, <2>1, <2>2
  <2>5. \A i \in DOMAIN read.doc.sets : read.doc.sets[i].id # call[w].target.set
    BY <2>1 DEF mapSets
  <2>6. call[w].target.set \notin
          {Cached(read.url, read.ver).sets[j].id : j \in DOMAIN Cached(read.url, read.ver).sets}
    BY <2>3, <2>5
  <2>. QED  BY <2>1, <2>2, <2>4, <2>6
<1>4. Inv /\ AllFailures => FailuresHeal
  BY <1>2, <1>3 DEF FailuresHeal, SetsURL
<1>. QED  BY <1>4, Invariant, FailuresInvariant, PTL

-----------------------------------------------------------------------------
(* An answer has all of the documents that its call wanted.                *)

Category == [ID : Int, Name : STRING, DisplayName : STRING]

\* The category lists that a server may be started with.
KnownLists ==
  {Categories(doc) :
     doc \in {Cached(GetCategories, v) : v \in 1..Len(Content[GetCategories])} \ {Error}}

OfCategories == {"list_categories", "categories"}
Summaries    == {"summarize_release_counts", "analytics-releases-by-year"}

\* The calls that are about one set, one category or none.
Specific ==
  {"meta", "meta-heuristics", "search_sets", "category-sets",
   "get_set_products", "set-products", "get_set_pricing", "set-pricing",
   "get_set_skus", "set-skus", "analyze_set_insights", "set-insights"}

\* The calls of which the answer shows, or is about, every category.
OfAllCategories(target) ==
  \/ target.op \in OfCategories
  \/ target.op \notin Specific \cup OfCategories /\ target.category = Nil

SetsURLs(categories) ==
  [i \in DOMAIN categories |-> GetCategorySets(ToString(categories[i].ID))]

\* A call has read the URLs it wants, in their order; it has them all when it is
\* answered.
InOrder(w) ==
  call[w] # None /\ call[w].outcome \in {"reading", "answered"} =>
    LET reads  == call[w].reads
        wanted == Wanted(call[w].target, reads)
    IN  /\ \A i \in DOMAIN reads : reads[i].doc # Error /\ reads[i].url = wanted[i]
        /\ call[w].outcome = "answered" => Len(reads) = Len(wanted)
        /\ OfAllCategories(call[w].target) /\ listed = <<>> /\ reads # <<>> =>
             Categories(reads[1].doc) \in KnownLists

WholeInv ==
  /\ listed \in KnownLists
  /\ \A url \in URLs : Len(published[url]) <= Len(Content[url])
  /\ \A w \in Workers : InOrder(w)

-----------------------------------------------------------------------------
LEMMA KnownAreLists ==
  ASSUME NEW list \in KnownLists
  PROVE  list \in Seq(Category)
<1>1. PICK v \in 1..Len(Content[GetCategories]) :
        Cached(GetCategories, v) # Error /\ list = Categories(Cached(GetCategories, v))
  BY DEF KnownLists
<1>. DEFINE told == Cached(GetCategories, v).categories
<1>2. told \in Seq([id : Int, name : STRING, display_name : STRING])
  BY <1>1, CategoriesAssumption
<1>3. list = [i \in DOMAIN told |-> [ID |-> told[i].id, Name |-> told[i].name,
                                    DisplayName |-> told[i].display_name]]
  BY <1>1 DEF Categories
<1>. HIDE DEF told
<1>4. DOMAIN told = 1..Len(told) /\ Len(told) \in Nat
  BY <1>2
<1>5. \A i \in 1..Len(told) : list[i] \in Category
  <2>. SUFFICES ASSUME NEW i \in 1..Len(told) PROVE list[i] \in Category
    OBVIOUS
  <2>1. told[i] \in [id : Int, name : STRING, display_name : STRING]
    BY <1>2, <1>4, ElementsOf
  <2>. QED  BY <1>3, <1>4, <2>1 DEF Category
<1>. QED  BY <1>3, <1>4, <1>5

\* The categories a call reads are a list the server could have been started with.
LEMMA ReadCategories ==
  ASSUME WholeInv, NEW v \in DOMAIN published[GetCategories], Inv,
         NEW doc \in {Fetched(GetCategories, v), Cached(GetCategories, v)}, doc # Error
  PROVE  Categories(doc) \in KnownLists
<1>1. doc = Cached(GetCategories, v)
  BY DEF Fetched, Cached, Received, Decode
<1>2. GetCategories \in URLs /\ Len(Content[GetCategories]) \in Nat
  BY ToolsAssumption
<1>3. published[GetCategories] \in Seq(Nat)
  BY <1>2 DEF Inv, Typed
<1>4. v \in 1..Len(Content[GetCategories])
  BY <1>2, <1>3 DEF WholeInv
<1>. QED  BY <1>1, <1>4 DEF KnownLists

\* The URLs that these calls want.
LEMMA WantedOfAll ==
  ASSUME NEW target, NEW reads
  PROVE  /\ target.op \in OfCategories => Wanted(target, reads) = AskCategories
         /\ target.op \notin Specific \cup OfCategories /\ target.category = Nil =>
              Wanted(target, reads) = AskCategories \o SetsURLs(CategoriesOf(reads))
<1>1. target.op \in OfCategories => Wanted(target, reads) = AskCategories
  BY DEF Wanted, OfCategories
<1>2. ASSUME target.op \notin Specific \cup OfCategories, target.category = Nil
      PROVE  Wanted(target, reads) = AskCategories \o SetsURLs(CategoriesOf(reads))
  <2>1. /\ target.op \notin {"meta", "meta-heuristics", "search_sets", "category-sets"}
        /\ target.op \notin {"list_categories", "categories"}
        /\ target.op \notin {"get_set_products", "set-products"}
        /\ target.op \notin {"get_set_pricing", "set-pricing"}
        /\ target.op \notin {"get_set_skus", "set-skus"}
        /\ target.op \notin {"analyze_set_insights", "set-insights"}
    BY <1>2 DEF Specific, OfCategories
  <2>. QED  BY <1>2, <2>1 DEF Wanted, SetsURLs
<1>. QED  BY <1>1, <1>2

\* What the others want is known before they have read anything.
LEMMA WantedFixed ==
  ASSUME NEW target, ~OfAllCategories(target), NEW before, NEW after
  PROVE  Wanted(target, after) = Wanted(target, before)
<1>1. CASE target.op \in Specific
  BY <1>1 DEF Wanted, Specific
<1>2. CASE target.op \notin Specific
  <2>1. target.category # Nil /\ target.op \notin OfCategories
    BY <1>2 DEF OfAllCategories
  <2>2. /\ target.op \notin {"meta", "meta-heuristics", "search_sets", "category-sets"}
        /\ target.op \notin {"list_categories", "categories"}
        /\ target.op \notin {"get_set_products", "set-products"}
        /\ target.op \notin {"get_set_pricing", "set-pricing"}
        /\ target.op \notin {"get_set_skus", "set-skus"}
        /\ target.op \notin {"analyze_set_insights", "set-insights"}
    BY <1>2, <2>1 DEF Specific, OfCategories
  <2>. QED  BY <2>1, <2>2 DEF Wanted
<1>. QED  BY <1>1, <1>2

\* Neither what has been asked for nor what is next changes with a document read.
LEMMA WantedStable ==
  ASSUME NEW target, listed \in Seq(Category),
         NEW S, NEW reads \in Seq(S), NEW read \in S, NEW i \in 1..(Len(reads) + 1),
         OfAllCategories(target) /\ listed = <<>> /\ reads = <<>> =>
           Categories(read.doc) \in Seq(Category)
  PROVE  Wanted(target, Append(reads, read))[i] = Wanted(target, reads)[i]
<1>1. CASE target.op \in OfCategories
  BY <1>1, WantedOfAll
<1>2. CASE ~OfAllCategories(target)
  BY <1>2, WantedFixed
<1>3. CASE /\ target.op \notin Specific \cup OfCategories /\ target.category = Nil
           /\ listed # <<>> \/ reads # <<>>
  <2>1. reads # <<>> => Append(reads, read) # <<>> /\ Append(reads, read)[1] = reads[1]
    OBVIOUS
  <2>2. CategoriesOf(Append(reads, read)) = CategoriesOf(reads)
    BY <1>3, <2>1 DEF CategoriesOf
  <2>. QED  BY <1>3, <2>2, WantedOfAll
<1>4. CASE /\ target.op \notin Specific \cup OfCategories /\ target.category = Nil
           /\ listed = <<>> /\ reads = <<>>
  <2>1. i = 1 /\ AskCategories = <<GetCategories>>
    BY <1>4 DEF AskCategories
  <2>2. CategoriesOf(reads) = <<>> /\ CategoriesOf(Append(reads, read)) = Categories(read.doc)
    BY <1>4 DEF CategoriesOf
  <2>3. \A list \in Seq(Category) : (<<GetCategories>> \o SetsURLs(list))[1] = GetCategories
    BY DEF SetsURLs
  <2>4. CategoriesOf(reads) \in Seq(Category) /\ Categories(read.doc) \in Seq(Category)
    BY <1>4, <2>2 DEF OfAllCategories
  <2>. QED  BY <1>4, <2>1, <2>2, <2>3, <2>4, WantedOfAll
<1>. QED  BY <1>1, <1>2, <1>3, <1>4 DEF OfAllCategories

-----------------------------------------------------------------------------
\* What a worker's steps leave alone for the others.
LEMMA OthersOrdered ==
  ASSUME WholeInv, NEW x \in Workers, listed' = listed, call'[x] = call[x]
  PROVE  InOrder(x)'
<1>1. Wanted(call[x].target, call[x].reads)' = Wanted(call[x].target, call[x].reads)
  BY WantedKept
<1>. QED  BY <1>1 DEF WholeInv, InOrder

\* A worker's step keeps what all have read in order, if it does so for that worker.
LEMMA OneOrdered ==
  ASSUME WholeInv, NEW w \in Workers, UNCHANGED <<listed, published>>, InOrder(w)',
         \A x \in Workers : x # w => call'[x] = call[x]
  PROVE  WholeInv'
  BY OthersOrdered DEF WholeInv

LEMMA LoadedAreKnown ==
  ASSUME Typed, \A url \in URLs : Len(published[url]) <= Len(Content[url])
  PROVE  LoadedCategories \subseteq KnownLists
<1>1. /\ published[GetCategories] \in Seq(Nat) /\ Len(Content[GetCategories]) \in Nat
      /\ Len(published[GetCategories]) <= Len(Content[GetCategories])
  BY ToolsAssumption DEF Typed
<1>2. Allowed(GetCategories) \subseteq 1..Len(Content[GetCategories])
  BY <1>1 DEF Allowed
<1>. QED  BY <1>2 DEF LoadedCategories, KnownLists

LEMMA WholeInitially == ToolsInit => WholeInv
<1>. SUFFICES ASSUME ToolsInit PROVE WholeInv
  OBVIOUS
<1>1. Inv
  BY Initially
<1>2. ASSUME NEW url \in URLs PROVE Len(published[url]) <= Len(Content[url])
  <2>1. published[url] = <<0>> /\ Len(Content[url]) \in Nat \ {0}
    BY ToolsAssumption DEF ToolsInit, Init
  <2>. QED  BY <2>1
<1>3. listed \in KnownLists
  BY <1>1, <1>2, LoadedAreKnown DEF ToolsInit, Inv
<1>4. \A w \in Workers : InOrder(w)
  BY DEF ToolsInit, InOrder
<1>. QED  BY <1>2, <1>3, <1>4 DEF WholeInv

LEMMA BeginOrdered ==
  ASSUME Inv, WholeInv, NEW w \in Workers, NEW input \in Inputs, Begin(w, input)
  PROVE  WholeInv'
<1>1. /\ call[w] = None /\ UNCHANGED <<now, published, request, answer, listed>>
      /\ \E target, outcome :
           /\ outcome \in {"refused", "reading"}
           /\ call' = [call EXCEPT ![w] = [target |-> target, reads |-> <<>>,
                                          outcome |-> outcome]]
  BY DEF Begin, vars
<1>2. /\ call'[w].reads = <<>> /\ call'[w].outcome # "answered"
      /\ \A x \in Workers : x # w => call'[x] = call[x]
  BY <1>1 DEF Inv, Typed
<1>3. InOrder(w)'
  BY <1>2 DEF InOrder
<1>. QED  BY <1>1, <1>2, <1>3, OneOrdered

LEMMA EndOrdered ==
  ASSUME Inv, WholeInv, NEW w \in Workers, Finish(w) \/ Reply(w)
  PROVE  WholeInv'
<1>1. UNCHANGED <<published, listed>>
  BY DEF Finish, Reply, vars
<1>2. CASE Reply(w)
  <2>1. call'[w] = None /\ \A x \in Workers : x # w => call'[x] = call[x]
    BY <1>2 DEF Reply, Inv, Typed
  <2>2. InOrder(w)'
    BY <2>1 DEF InOrder
  <2>. QED  BY <1>1, <2>1, <2>2, OneOrdered
<1>3. CASE Finish(w)
  <2>1. /\ Reading(w) /\ request[w] = None /\ ReadAll(w) /\ IsCall(call[w])
        /\ call' = [call EXCEPT ![w].outcome = "answered"]
    BY <1>3 DEF Finish, Reading, Inv, Typed
  <2>2. /\ call'[w].target = call[w].target /\ call'[w].reads = call[w].reads
        /\ \A x \in Workers : x # w => call'[x] = call[x]
    BY <2>1 DEF IsCall, Inv, Typed
  <2>3. Wanted(call[w].target, call[w].reads)' = Wanted(call[w].target, call[w].reads)
    BY <1>1, <2>2, WantedKept
  <2>4. InOrder(w)'
    BY <1>1, <2>1, <2>2, <2>3 DEF WholeInv, InOrder, Reading, ReadAll
  <2>. QED  BY <1>1, <2>2, <2>4, OneOrdered
<1>. QED  BY <1>2, <1>3

\* The document that comes in is the next one of those wanted.
LEMMA ReceiveOrdered ==
  ASSUME Inv, AllFailures, WholeInv, NEW w \in Workers, Receive(w)
  PROVE  WholeInv'
<1>1. /\ Reading(w) /\ answer[w] # None /\ request[w] # None /\ IsCall(call[w])
      /\ request' = [request EXCEPT ![w] = None]
      /\ UNCHANGED <<now, published, listed>>
  BY DEF Receive, Return, Inv, WorkerInv, Pending, Reading, Typed
<1>2. CASE answer[w] = Failed
  <2>1. call' = [call EXCEPT ![w].outcome = "failed"]
    BY <1>2 DEF Receive
  <2>2. /\ call'[w].outcome = "failed"
        /\ \A x \in Workers : x # w => call'[x] = call[x]
    BY <1>1, <2>1 DEF Inv, Typed, IsCall
  <2>3. InOrder(w)'
    BY <2>2 DEF InOrder
  <2>. QED  BY <1>1, <2>2, <2>3, OneOrdered
<1>3. CASE answer[w] # Failed
  <2>1. PICK doc \in Decoded(answer[w]) : Extend(w, doc)
    BY <1>3 DEF Receive
  <2>. DEFINE read   == [url |-> request[w].url, ver |-> answer[w].ver, doc |-> doc]
              reads  == call[w].reads
              target == call[w].target
              new    == Append(reads, read)
  <2>2. PICK outcome :
          /\ call' = [call EXCEPT ![w].reads = new, ![w].outcome = outcome]
          /\ doc = Error => outcome = "undecodable"
          /\ outcome # "answered"
    <3>1. call' = [call EXCEPT
            ![w].reads = new,
            ![w].outcome = IF doc = Error THEN "undecodable"
                           ELSE IF SetMissing(target, new) THEN "missing" ELSE call[w].outcome]
      BY <2>1 DEF Extend
    <3>. QED  BY <1>1, <3>1 DEF Reading
  <2>3. /\ call'[w] = [target |-> target, reads |-> new, outcome |-> outcome]
        /\ \A x \in Workers : x # w => call'[x] = call[x]
    <3>1. call'[w] = [call[w] EXCEPT !.reads = new, !.outcome = outcome]
      BY <2>2 DEF Inv, Typed
    <3>. QED  BY <1>1, <2>2, <3>1 DEF IsCall, Inv, Typed
  <2>4. /\ answer[w] \in Bodies /\ answer[w].url = request[w].url
        /\ answer[w].ver \in DOMAIN published[answer[w].url]
    BY <1>1, <1>3 DEF Inv, Typed, WorkerInv, AnswerRecent, AllFailures, FailureInv, AnswerExists
  <2>5. reads \in Seq(Read) /\ read \in Read
    <3>1. doc \in Docs
      <4>1. answer[w].url \in URLs /\ answer[w].ver \in Nat
        BY <2>4 DEF Bodies
      <4>. QED  BY <2>1, <4>1 DEF Decoded, Docs
    <3>. QED  BY <1>1, <2>4, <3>1 DEF IsCall, Read, Bodies
  <2>6. /\ Len(new) = Len(reads) + 1 /\ new[Len(reads) + 1] = read
        /\ \A i \in 1..Len(reads) : new[i] = reads[i]
        /\ DOMAIN new = 1..(Len(reads) + 1) /\ DOMAIN reads = 1..Len(reads)
        /\ Len(reads) \in Nat
    <3>. HIDE DEF reads, read
    <3>. QED  BY <2>5
  <2>7. /\ \A i \in DOMAIN reads :
             reads[i].doc # Error /\ reads[i].url = Wanted(target, reads)[i]
        /\ request[w].url = Wanted(target, reads)[Len(reads) + 1]
    BY <1>1 DEF WholeInv, InOrder, AllFailures, FailureInv, AsksNext, Reading
  <2>8. SUFFICES ASSUME doc # Error PROVE InOrder(w)'
    <3>1. doc = Error => InOrder(w)'
      BY <2>2, <2>3 DEF InOrder
    <3>. QED  BY <1>1, <2>3, <3>1, <2>8, OneOrdered
  <2>9. \A i \in DOMAIN new : new[i].doc # Error
    <3>1. read.doc # Error
      BY <2>8
    <3>. HIDE DEF new, read, reads
    <3>. QED  BY <2>6, <2>7, <3>1
  <2>10. ASSUME OfAllCategories(target), listed = <<>>, reads = <<>>
         PROVE  Categories(doc) \in KnownLists
    <3>1. Wanted(target, reads)[1] = GetCategories
      <4>1. AskCategories = <<GetCategories>> /\ CategoriesOf(reads) = <<>>
        BY <2>10 DEF AskCategories, CategoriesOf
      <4>2. (<<GetCategories>> \o SetsURLs(<<>>))[1] = GetCategories
        BY DEF SetsURLs
      <4>. QED  BY <2>10, <4>1, <4>2, WantedOfAll DEF OfAllCategories
    <3>2. request[w].url = GetCategories
      <4>1. Len(reads) + 1 = 1
        BY <2>10
      <4>. QED  BY <2>7, <2>10, <3>1, <4>1
    <3>3. answer[w].url = GetCategories /\ answer[w].ver \in DOMAIN published[GetCategories]
      BY <2>4, <3>2
    <3>4. doc \in {Fetched(GetCategories, answer[w].ver), Cached(GetCategories, answer[w].ver)}
      BY <2>1, <3>3 DEF Decoded
    <3>. QED  BY <2>8, <3>3, <3>4, ReadCategories
  <2>11. ASSUME NEW i \in DOMAIN new
         PROVE  new[i].url = Wanted(target, new)[i]
    <3>1. listed \in Seq(Category)
      BY KnownAreLists DEF WholeInv
    <3>2. OfAllCategories(target) /\ listed = <<>> /\ reads = <<>> =>
            Categories(read.doc) \in Seq(Category)
      BY <2>10, KnownAreLists
    <3>3. i \in 1..(Len(reads) + 1)
      BY <2>6
    <3>4. Wanted(target, new)[i] = Wanted(target, reads)[i]
      <4>. HIDE DEF target, reads, read
      <4>. QED  BY <2>5, <3>1, <3>2, <3>3, WantedStable
    <3>5. CASE i = Len(reads) + 1
      BY <2>6, <2>7, <3>4, <3>5
    <3>6. CASE i \in 1..Len(reads)
      BY <2>6, <2>7, <3>4, <3>6
    <3>. HIDE DEF reads, new
    <3>. QED  BY <2>6, <3>3, <3>5, <3>6
  <2>12. ASSUME NEW i \in DOMAIN new
         PROVE  new[i].url = Wanted(call[w].target, call[w].reads)'[i]
    <3>1. Wanted(call[w].target, call[w].reads)' = Wanted(target, new)
      <4>. HIDE DEF new, target
      <4>. QED  BY <1>1, <2>3, WantedKept
    <3>. QED  BY <2>11, <3>1
  <2>13. ASSUME OfAllCategories(target), listed = <<>>
         PROVE  Categories(new[1].doc) \in KnownLists
    <3>1. CASE reads = <<>>
      <4>1. new[1] = read
        BY <2>6, <3>1
      <4>. QED  BY <2>10, <2>13, <3>1, <4>1
    <3>2. CASE reads # <<>>
      <4>1. new[1] = reads[1]
        BY <2>5, <2>6, <3>2
      <4>2. Categories(reads[1].doc) \in KnownLists
        BY <1>1, <2>13, <3>2 DEF WholeInv, InOrder, Reading
      <4>. QED  BY <4>1, <4>2
    <3>. QED  BY <3>1, <3>2
  <2>. HIDE DEF new, target
  <2>14. call'[w].target = target /\ call'[w].reads = new /\ call'[w].outcome # "answered"
    <3>1. outcome # "answered"
      BY <2>2
    <3>. QED  BY <2>3, <3>1
  <2>. QED  BY <1>1, <2>9, <2>12, <2>13, <2>14 DEF InOrder, OfAllCategories
<1>. QED  BY <1>2, <1>3

LEMMA RepublishOrdered ==
  ASSUME Inv, WholeInv, NEW u \in URLs, Republish(u)
  PROVE  WholeInv'
<1>1. /\ published' = [published EXCEPT ![u] = Append(@, now)]
      /\ Len(published[u]) < Len(Content[u])
      /\ UNCHANGED <<request, listed, call>>
  BY DEF Republish, Publish
<1>2. ASSUME NEW url \in URLs PROVE Len(published'[url]) <= Len(Content[url])
  <2>1. CASE url = u
    <3>1. published[u] \in Seq(Nat) /\ Len(Content[u]) \in Nat
      BY ToolsAssumption DEF Inv, Typed
    <3>2. published'[u] = Append(published[u], now)
      BY <1>1 DEF Inv, Typed
    <3>. QED  BY <1>1, <2>1, <3>1, <3>2
  <2>2. CASE url # u
    BY <1>1, <2>2 DEF WholeInv, Inv, Typed
  <2>. QED  BY <2>1, <2>2
<1>3. \A w \in Workers : InOrder(w)'
  <2>. SUFFICES ASSUME NEW w \in Workers PROVE InOrder(w)'
    OBVIOUS
  <2>. QED  BY <1>1, OthersOrdered
<1>. QED  BY <1>1, <1>2, <1>3 DEF WholeInv

LEMMA RestartOrdered ==
  ASSUME Inv, WholeInv, Restart
  PROVE  WholeInv'
<1>1. /\ call' = [w \in Workers |-> None] /\ published' = published
      /\ listed' \in LoadedCategories
  BY DEF Restart, Abandon
<1>2. listed' \in KnownLists
  BY <1>1, LoadedAreKnown DEF Inv, WholeInv
<1>3. \A w \in Workers : InOrder(w)'
  BY <1>1 DEF InOrder
<1>. QED  BY <1>1, <1>2, <1>3 DEF WholeInv

LEMMA WholeInvariant == ToolsSpec => []WholeInv
<1>1. ASSUME WholeInv,
             UNCHANGED toolVars \/ Wait \/ \E w \in Workers : Fetch(w) \/ Respond(w)
      PROVE  WholeInv'
  <2>1. UNCHANGED <<published, listed, call>>
    BY <1>1 DEF toolVars, vars, Wait, Tick, Fetch, Ask, AskAndAnswer, Respond, Answer
  <2>2. \A w \in Workers : InOrder(w)'
    BY <1>1, <2>1, OthersOrdered
  <2>. QED  BY <1>1, <2>1, <2>2 DEF WholeInv
<1>2. Inv /\ AllFailures /\ WholeInv /\ ToolsNext => WholeInv'
  BY <1>1, BeginOrdered, EndOrdered, ReceiveOrdered, RepublishOrdered,
     RestartOrdered DEF ToolsNext, Handle
<1>3. WholeInv /\ UNCHANGED toolVars => WholeInv'
  BY <1>1
<1>. QED  BY Invariant, FailuresInvariant, WholeInitially, <1>2, <1>3, PTL DEF ToolsSpec

LEMMA ShortSequences ==
  /\ \E S : <<>> \in Seq(S)
  /\ \A a : \E S : <<a>> \in Seq(S)
  /\ \A a, b : \E S : <<a, b>> \in Seq(S)
<1>1. <<>> \in Seq({})
  OBVIOUS
<1>2. \A a : <<a>> \in Seq({a})
  OBVIOUS
<1>3. \A a, b : <<a, b>> \in Seq({a, b})
  OBVIOUS
<1>. QED  BY <1>1, <1>2, <1>3

\* The URLs that a call wants are a sequence.
LEMMA WantedIsSeq ==
  ASSUME NEW target, NEW reads,
         OfAllCategories(target) => CategoriesOf(reads) \in Seq(Category)
  PROVE  \E S : Wanted(target, reads) \in Seq(S)
<1>1. AskCategories = <<>> \/ AskCategories = <<GetCategories>>
  BY DEF AskCategories
<1>2. CASE target.op \in OfCategories
  <2>1. Wanted(target, reads) = AskCategories
    BY <1>2, WantedOfAll
  <2>2. CASE AskCategories = <<>>
    BY <2>1, <2>2, ShortSequences
  <2>3. CASE AskCategories = <<GetCategories>>
    BY <2>1, <2>3, ShortSequences
  <2>. QED  BY <1>1, <2>2, <2>3
<1>3. CASE target.op \notin Specific \cup OfCategories /\ target.category = Nil
  <2>. DEFINE categories == CategoriesOf(reads)
              wants == SetsURLs(categories)
              S == {wants[i] : i \in DOMAIN wants}
  <2>1. Wanted(target, reads) = AskCategories \o wants
    BY <1>3, WantedOfAll
  <2>2. categories \in Seq(Category)
    BY <1>3 DEF OfAllCategories
  <2>3. wants \in Seq(S)
    <3>. HIDE DEF categories
    <3>. QED  BY <2>2 DEF SetsURLs
  <2>. HIDE DEF S, wants
  <2>4. CASE AskCategories = <<>>
    BY <2>1, <2>3, <2>4
  <2>5. CASE AskCategories = <<GetCategories>>
    <3>. DEFINE T == S \cup {GetCategories}
    <3>1. wants \in Seq(T)
      BY <2>3
    <3>2. <<GetCategories>> \in Seq(T)
      <4>1. GetCategories \in T
        OBVIOUS
      <4>. HIDE DEF T
      <4>. QED  BY <4>1
    <3>. HIDE DEF T
    <3>. QED  BY <2>1, <2>5, <3>1, <3>2
  <2>. QED  BY <1>1, <2>4, <2>5
<1>4. CASE target.op \in Specific
  <2>1. \/ Wanted(target, reads) = <<>>
        \/ \E a : Wanted(target, reads) = <<a>>
        \/ \E a, b : Wanted(target, reads) = <<a, b>>
        \/ \E a, b, c, d : Wanted(target, reads) = <<a, b, c, d>>
    BY <1>4 DEF Wanted, Specific
  <2>2. CASE Wanted(target, reads) = <<>>
    BY <2>2, ShortSequences
  <2>3. ASSUME NEW a, Wanted(target, reads) = <<a>>
        PROVE  \E S : Wanted(target, reads) \in Seq(S)
    BY <2>3, ShortSequences
  <2>4. ASSUME NEW a, NEW b, Wanted(target, reads) = <<a, b>>
        PROVE  \E S : Wanted(target, reads) \in Seq(S)
    BY <2>4, ShortSequences
  <2>5. ASSUME NEW a, NEW b, NEW c, NEW d, Wanted(target, reads) = <<a, b, c, d>>
        PROVE  \E S : Wanted(target, reads) \in Seq(S)
    <3>1. <<a, b, c, d>> \in Seq({a, b, c, d})
      OBVIOUS
    <3>. QED  BY <2>5, <3>1
  <2>. QED  BY <2>1, <2>2, <2>3, <2>4, <2>5
<1>5. CASE target.op \notin Specific \cup OfCategories /\ target.category # Nil
  <2>1. /\ target.op \notin {"meta", "meta-heuristics", "search_sets", "category-sets"}
        /\ target.op \notin {"list_categories", "categories"}
        /\ target.op \notin {"get_set_products", "set-products"}
        /\ target.op \notin {"get_set_pricing", "set-pricing"}
        /\ target.op \notin {"get_set_skus", "set-skus"}
        /\ target.op \notin {"analyze_set_insights", "set-insights"}
    BY <1>5 DEF Specific, OfCategories
  <2>2. Wanted(target, reads) = <<GetCategorySets(ToString(target.category))>>
    BY <1>5, <2>1 DEF Wanted
  <2>. QED  BY <2>2, ShortSequences
<1>. QED  BY <1>2, <1>3, <1>4, <1>5

\* The categories that an answered call is about are a list of them.
LEMMA AnsweredCategories ==
  ASSUME WholeInv, NEW w \in Workers, Ended(w, "answered"), OfAllCategories(call[w].target)
  PROVE  CategoriesOf(call[w].reads) \in Seq(Category)
<1>1. CASE listed # <<>>
  BY <1>1, KnownAreLists DEF WholeInv, CategoriesOf
<1>2. CASE listed = <<>> /\ call[w].reads = <<>>
  BY <1>2 DEF CategoriesOf
<1>3. CASE listed = <<>> /\ call[w].reads # <<>>
  <2>1. Categories(call[w].reads[1].doc) \in KnownLists
    BY <1>3 DEF Ended, WholeInv, InOrder
  <2>. QED  BY <1>3, <2>1, KnownAreLists DEF CategoriesOf
<1>. QED  BY <1>1, <1>2, <1>3

\* An answered call has read every document that it wants, in that order, none of
\* them failed or was skipped, and a summary of all categories has the sets of each,
\* whichever documents fail or change while the others are read: the property that
\* tool_calls checks, for any categories and any number of workers.
THEOREM AnswersWhole == ToolsSpec => []AnswersAreWhole
<1>1. ASSUME Inv, WholeInv, NEW w \in Workers, Ended(w, "answered")
      PROVE  \A i \in DOMAIN call[w].reads :
               call[w].reads[i].ver # Failed.ver /\ call[w].reads[i].doc # Error
  <2>1. call[w].reads \in Seq(Read)
    BY <1>1 DEF Ended, Inv, Typed, IsCall
  <2>2. ASSUME NEW i \in DOMAIN call[w].reads PROVE call[w].reads[i].ver # 0
    <3>1. call[w].reads[i] \in Read
      BY <2>1, ElementsOf
    <3>. QED  BY <3>1 DEF Read
  <2>3. \A i \in DOMAIN call[w].reads : call[w].reads[i].doc # Error
    BY <1>1 DEF Ended, WholeInv, InOrder
  <2>. QED  BY <2>2, <2>3 DEF Failed
<1>2. ASSUME Inv, WholeInv, NEW w \in Workers, Ended(w, "answered")
      PROVE  LET reads == call[w].reads
             IN  [i \in DOMAIN reads |-> reads[i].url] = Wanted(call[w].target, reads)
  <2>. DEFINE reads  == call[w].reads
              wanted == Wanted(call[w].target, reads)
  <2>1. /\ reads \in Seq(Read) /\ Len(reads) = Len(wanted)
        /\ \A j \in DOMAIN reads : reads[j].url = wanted[j]
    BY <1>2 DEF Ended, Inv, Typed, IsCall, WholeInv, InOrder
  <2>2. wanted = [i \in 1..Len(wanted) |-> wanted[i]]
    <3>1. PICK S : wanted \in Seq(S)
      BY <1>2, WantedIsSeq, AnsweredCategories
    <3>. HIDE DEF wanted
    <3>. QED  BY <3>1
  <2>3. DOMAIN reads = 1..Len(reads)
    BY <2>1
  <2>. HIDE DEF reads, wanted
  <2>4. [i \in DOMAIN reads |-> reads[i].url] = [i \in 1..Len(wanted) |-> wanted[i]]
    BY <2>1, <2>3
  <2>5. [i \in DOMAIN reads |-> reads[i].url] = wanted
    BY <2>2, <2>4
  <2>. QED  BY <2>5 DEF reads, wanted
<1>3. ASSUME Inv, WholeInv, NEW w \in Workers, Ended(w, "answered"),
             call[w].target.op \in Summaries, call[w].target.category = Nil,
             NEW i \in DOMAIN CategoriesOf(call[w].reads)
      PROVE  \E j \in DOMAIN call[w].reads :
               call[w].reads[j].url =
                 GetCategorySets(ToString(CategoriesOf(call[w].reads)[i].ID))
  <2>. DEFINE reads      == call[w].reads
              categories == CategoriesOf(reads)
              wanted     == Wanted(call[w].target, reads)
  <2>1. /\ reads \in Seq(Read) /\ Len(reads) = Len(wanted)
        /\ \A j \in DOMAIN reads : reads[j].url = wanted[j]
    BY <1>3 DEF Ended, Inv, Typed, IsCall, WholeInv, InOrder
  <2>2. call[w].target.op \notin Specific \cup OfCategories
    BY <1>3 DEF Summaries, Specific, OfCategories
  <2>3. wanted = AskCategories \o SetsURLs(categories)
    BY <1>3, <2>2, WantedOfAll
  <2>4. categories \in Seq(Category)
    BY <1>3, <2>2, AnsweredCategories DEF OfAllCategories
  <2>5. AskCategories = <<>> \/ AskCategories = <<GetCategories>>
    BY DEF AskCategories
  <2>. DEFINE wants == SetsURLs(categories)
  <2>6. /\ wants \in Seq({wants[k] : k \in DOMAIN wants}) /\ Len(wants) = Len(categories)
        /\ i \in 1..Len(wants)
        /\ wants[i] = GetCategorySets(ToString(categories[i].ID))
    <3>1. i \in DOMAIN categories
      BY <1>3
    <3>. HIDE DEF categories
    <3>2. DOMAIN categories = 1..Len(categories) /\ Len(categories) \in Nat
      BY <2>4
    <3>. QED  BY <3>1, <3>2 DEF SetsURLs
  <2>. HIDE DEF wants, wanted, categories, reads
  <2>7. CASE AskCategories = <<>>
    <3>1. Len(wanted) = Len(wants) /\ wanted[i] = wants[i]
      BY <2>3, <2>6, <2>7 DEF wants
    <3>2. i \in DOMAIN reads /\ reads[i].url = wants[i]
      BY <2>1, <2>6, <3>1
    <3>. QED  BY <2>6, <3>2 DEF reads, categories
  <2>8. CASE AskCategories = <<GetCategories>>
    <3>1. Len(wanted) = Len(wants) + 1 /\ wanted[i + 1] = wants[i] /\ Len(wants) \in Nat
      BY <2>3, <2>6, <2>8, OneBefore DEF wants
    <3>2. i + 1 \in DOMAIN reads /\ reads[i + 1].url = wants[i]
      BY <2>1, <2>6, <3>1
    <3>. QED  BY <2>6, <3>2 DEF reads, categories
  <2>. QED  BY <2>5, <2>7, <2>8
<1>4. Inv /\ WholeInv => AnswersAreWhole
  BY <1>1, <1>2, <1>3 DEF AnswersAreWhole, Summaries
<1>. QED  BY <1>4, WholeInvariant, Invariant, PTL

\* The ids of a list tell its categories apart (openapi/tcgtracking-openapi.yaml:
\* "Unique category ID"), and the decimal form of an id is read as that id.
IDsAreUsable ==
  \A list \in KnownLists : \A i \in DOMAIN list :
    LET id   == list[i].ID
        text == ToString(id)
    IN  /\ \A j \in DOMAIN list : list[j].ID = id => j = i
        /\ id # Error
        /\ normalize(text) = text /\ text # "" /\ Atoi(text) = id

LEMMA MaxOfOne ==
  ASSUME NEW i \in Int
  PROVE  Max({i}) = i
  BY DEF Max

LEMMA IDResolves ==
  ASSUME IDsAreUsable, NEW list \in KnownLists, NEW i \in DOMAIN list
  PROVE  ResolveCategory(list, ToString(list[i].ID)) = list[i]
<1>1. ResolveCategoryID(list, ToString(list[i].ID)) = list[i].ID /\ list[i].ID # Error
  BY DEF IDsAreUsable, ResolveCategoryID
<1>2. {j \in DOMAIN list : list[j].ID = list[i].ID} = {i}
  BY DEF IDsAreUsable
<1>3. i \in Int
  <2>1. DOMAIN list = 1..Len(list)
    BY KnownAreLists
  <2>. QED  BY <2>1
<1>. QED  BY <1>1, <1>2, <1>3, MaxOfOne DEF ResolveCategory

\* What list_categories shows, every other tool accepts (tools.go:100), provided that
\* the server was started with at least one category: what it shows is then what it
\* was started with, whatever the upstream has changed since.
THEOREM ListedCategoriesResolve ==
  ASSUME IDsAreUsable
  PROVE  ToolsSpec => []ListedResolve
<1>1. Inv /\ WholeInv => ListedResolve
  <2>. SUFFICES ASSUME Inv, WholeInv, NEW w \in Workers, Ended(w, "answered"), listed # <<>>,
                       call[w].target.op \in OfCategories
                PROVE  /\ call[w].reads = <<>>
                       /\ \A i \in DOMAIN listed :
                            ResolveCategory(listed, ToString(listed[i].ID)) = listed[i]
    BY DEF ListedResolve, OfCategories
  <2>1. Wanted(call[w].target, call[w].reads) = <<>>
    BY WantedOfAll DEF AskCategories
  <2>2. call[w].reads \in Seq(Read) /\ Len(call[w].reads) = 0
    BY <2>1 DEF Ended, Inv, Typed, IsCall, WholeInv, InOrder
  <2>3. call[w].reads = <<>>
    BY <2>2
  <2>. QED  BY <2>3, IDResolves DEF WholeInv
<1>. QED  BY <1>1, WholeInvariant, Invariant, PTL
=============================================================================
