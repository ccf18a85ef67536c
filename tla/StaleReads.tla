------------------------------ MODULE StaleReads -----------------------------
(***************************************************************************)
(* What the caching transport promises a tool handler, without a cache:    *)
(* a request is over within the timeout, and its answer, if it has a body, *)
(* is a version of the very URL it asked for that the upstream replaced    *)
(* less than the URL's TTL plus one timeout ago, or not at all.            *)
(***************************************************************************)
EXTENDS Naturals, Sequences

CONSTANTS
  Workers, URLs,
  PromisedTTL,  \* per URL, the age a cached answer may reach
  Timeout,      \* http.Client.Timeout
  MaxVersion,   \* bound on the versions of a URL
  MaxTime,      \* bound on the clock
  None          \* no request, or no answer

VARIABLES
  now,
  published,  \* per URL, when each version replaced the one before
  request,    \* per worker, the URL and the time it was asked for
  answer      \* per worker, the URL and version of a body, or Failed

vars == <<now, published, request, answer>>

Failed == [ver |-> 0]

\* The versions of url that an answer given now may have.
Allowed(url) ==
  {v \in 1..Len(published[url]) :
     v < Len(published[url]) =>
       now < published[url][v + 1] + PromisedTTL[url] + Timeout}

Init ==
  /\ now = 0
  /\ published = [u \in URLs |-> <<0>>]
  /\ request = [w \in Workers |-> None]
  /\ answer = [w \in Workers |-> None]

Ask(w, url) ==
  /\ request[w] = None
  /\ request' = [request EXCEPT ![w] = [url |-> url, start |-> now]]
  /\ UNCHANGED <<now, published, answer>>

Answer(w) ==
  /\ request[w] # None /\ answer[w] = None
  /\ \/ \E v \in Allowed(request[w].url) :
          answer' = [answer EXCEPT ![w] = [url |-> request[w].url, ver |-> v]]
     \/ answer' = [answer EXCEPT ![w] = Failed]
  /\ UNCHANGED <<now, published, request>>

\* A request that is answered as soon as it is made.
AskAndAnswer(w, url) ==
  /\ request[w] = None
  /\ request' = [request EXCEPT ![w] = [url |-> url, start |-> now]]
  /\ \E v \in Allowed(url) : answer' = [answer EXCEPT ![w] = [url |-> url, ver |-> v]]
  /\ UNCHANGED <<now, published>>

Return(w) ==
  /\ answer[w] # None
  /\ request' = [request EXCEPT ![w] = None]
  /\ answer' = [answer EXCEPT ![w] = None]
  /\ UNCHANGED <<now, published>>

\* The server stops, and starts again: nobody waits for an answer any more.
Abandon ==
  /\ request' = [w \in Workers |-> None]
  /\ answer' = [w \in Workers |-> None]
  /\ UNCHANGED <<now, published>>

Publish(url) ==
  /\ Len(published[url]) < MaxVersion
  /\ published' = [published EXCEPT ![url] = Append(@, now)]
  /\ UNCHANGED <<now, request, answer>>

\* No request gets older than the timeout.
Tick ==
  /\ now < MaxTime
  /\ \A w \in Workers : request[w] # None => now < request[w].start + Timeout
  /\ now' = now + 1
  /\ UNCHANGED <<published, request, answer>>

Next ==
  \/ \E w \in Workers, url \in URLs : Ask(w, url) \/ AskAndAnswer(w, url)
  \/ \E w \in Workers : Answer(w) \/ Return(w)
  \/ Abandon
  \/ \E url \in URLs : Publish(url)
  \/ Tick

Spec == Init /\ [][Next]_vars
=============================================================================
