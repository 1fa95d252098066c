-------------------------- MODULE UpdatesPageProofs --------------------------
(***************************************************************************)
(* Proofs about UpdatesPage for any number of retries, jobs, outages and   *)
(* presses.                                                                *)
(*                                                                         *)
(* One chain of polls is, while the page watches, either its timer or one  *)
(* request: Chain says so of the bag of requests, and PageType what the    *)
(* page's variables are.  With them PageSettles is inductive.              *)
(***************************************************************************)
EXTENDS UpdatesPage, TLAPS

Job == {None} \cup [self : BOOLEAN, state : {"running", "succeeded", "failed"}]

Page == [at : {"page", "login"}, watching : BOOLEAN, timer : BOOLEAN, self : BOOLEAN,
         last : Job, busy : BOOLEAN, fail : BOOLEAN, tries : 0..MaxTries,
         retry : BOOLEAN, reload : BOOLEAN]

PageType == job \in Job /\ page \in Page

Bag(B) == B \in [DOMAIN B -> Nat \ {0}]

\* What is answered, and what is asked.
RequestType(r) ==
    /\ r \in [what : {"load", "check", "post", "poll"}, self : BOOLEAN,
              answer : {None} \cup [result : {"ok", "error", "unreachable", "denied", "refused"},
                                    job : Job]]

NetType == Bag(net) /\ \A r \in DOMAIN net : RequestType(r)

NoPoll(B) == \A r \in DOMAIN B : r.what # "poll"

OnePoll(B) == \E r \in DOMAIN B :
    /\ r.what = "poll" /\ B[r] = 1
    /\ \A q \in DOMAIN B : q.what = "poll" => q = r

HasLoad(B) == \E r \in DOMAIN B : r.what \in {"load", "check"}

Chain(p, B) ==
    \/ p.watching /\ p.timer /\ NoPoll(B)
    \/ p.watching /\ ~p.timer /\ OnePoll(B)
    \/ ~p.watching /\ ~p.timer /\ NoPoll(B)

\* A row is left as being updated only where something is to come, or the page says
\* that it gave up.
Tidy(p, B) ==
    ~p.watching /\ ~p.retry /\ ~HasLoad(B) => ~p.busy \/ (p.fail /\ p.tries = MaxTries)

PageInv == PageType /\ NetType /\ Chain(page, net) /\ Tidy(page, net)

-----------------------------------------------------------------------------
(* Bags *)

\* One more request.
LEMMA AddOne ==
    ASSUME NEW B, Bag(B), NEW x
    PROVE  /\ Bag(B (+) One(x)) /\ DOMAIN (B (+) One(x)) = DOMAIN B \cup {x}
           /\ \A e \in DOMAIN B : e # x => (B (+) One(x))[e] = B[e]
           /\ x \notin DOMAIN B => (B (+) One(x))[x] = 1
BY DEF Bag, One, SetToBag, (+)

\* One less.
LEMMA DropOne ==
    ASSUME NEW B, Bag(B), NEW x \in DOMAIN B
    PROVE  /\ Bag(B (-) One(x)) /\ DOMAIN (B (-) One(x)) \subseteq DOMAIN B
           /\ \A e \in DOMAIN B : e # x => e \in DOMAIN (B (-) One(x)) /\ (B (-) One(x))[e] = B[e]
           /\ B[x] = 1 => DOMAIN (B (-) One(x)) = DOMAIN B \ {x}
BY DEF Bag, One, SetToBag, (-)

\* A request that is no poll leaves the chain as it is.
LEMMA AddOther ==
    ASSUME NEW B, Bag(B), NEW x, x.what # "poll"
    PROVE  /\ NoPoll(B) => NoPoll(B (+) One(x))
           /\ OnePoll(B) => OnePoll(B (+) One(x))
<1> DEFINE C == B (+) One(x)
<1>1. /\ DOMAIN C = DOMAIN B \cup {x}
      /\ \A e \in DOMAIN B : e # x => C[e] = B[e]
    BY AddOne
<1> HIDE DEF C
<1>2. NoPoll(B) => NoPoll(C)
    BY <1>1 DEF NoPoll
<1>3. OnePoll(B) => OnePoll(C)
    BY <1>1 DEF OnePoll
<1>4. QED
    BY <1>2, <1>3 DEF C

\* A poll where there is none.
LEMMA AddPoll ==
    ASSUME NEW B, Bag(B), NoPoll(B), NEW x, x.what = "poll"
    PROVE  OnePoll(B (+) One(x))
<1> DEFINE C == B (+) One(x)
<1>1. x \notin DOMAIN B
    BY DEF NoPoll
<1>2. DOMAIN C = DOMAIN B \cup {x} /\ C[x] = 1
    BY <1>1, AddOne
<1> HIDE DEF C
<1>3. OnePoll(C)
    BY <1>2 DEF OnePoll, NoPoll
<1>4. QED
    BY <1>3 DEF C

\* An answer that is of no poll.
LEMMA DropOther ==
    ASSUME NEW B, Bag(B), NEW x \in DOMAIN B, x.what # "poll"
    PROVE  /\ NoPoll(B) => NoPoll(B (-) One(x))
           /\ OnePoll(B) => OnePoll(B (-) One(x))
<1> DEFINE C == B (-) One(x)
<1>1. /\ DOMAIN C \subseteq DOMAIN B
      /\ \A e \in DOMAIN B : e # x => e \in DOMAIN C /\ C[e] = B[e]
    BY DropOne
<1> HIDE DEF C
<1>2. NoPoll(B) => NoPoll(C)
    BY <1>1 DEF NoPoll
<1>3. OnePoll(B) => OnePoll(C)
    BY <1>1 DEF OnePoll
<1>4. QED
    BY <1>2, <1>3 DEF C

\* The answer of the one poll.
LEMMA DropPoll ==
    ASSUME NEW B, Bag(B), OnePoll(B), NEW x \in DOMAIN B, x.what = "poll"
    PROVE  NoPoll(B (-) One(x))
<1> DEFINE C == B (-) One(x)
<1>1. B[x] = 1 /\ \A q \in DOMAIN B : q.what = "poll" => q = x
    BY DEF OnePoll
<1>2. DOMAIN C = DOMAIN B \ {x}
    BY <1>1, DropOne
<1> HIDE DEF C
<1>3. NoPoll(C)
    BY <1>1, <1>2 DEF NoPoll
<1>4. QED
    BY <1>3 DEF C

\* Loads among the requests.
LEMMA AddLoads ==
    ASSUME NEW B, Bag(B), NEW x
    PROVE  /\ HasLoad(B) => HasLoad(B (+) One(x))
           /\ x.what \in {"load", "check"} => HasLoad(B (+) One(x))
<1> DEFINE C == B (+) One(x)
<1>1. DOMAIN C = DOMAIN B \cup {x}
    BY AddOne
<1> HIDE DEF C
<1>2. /\ HasLoad(B) => HasLoad(C)
      /\ x.what \in {"load", "check"} => HasLoad(C)
    BY <1>1 DEF HasLoad
<1>3. QED
    BY <1>2 DEF C

LEMMA DropLoads ==
    ASSUME NEW B, Bag(B), NEW x \in DOMAIN B, x.what \notin {"load", "check"}
    PROVE  HasLoad(B) => HasLoad(B (-) One(x))
BY DropOne DEF HasLoad

\* The requests keep their types.
LEMMA AddType ==
    ASSUME NEW B, Bag(B), \A r \in DOMAIN B : RequestType(r), NEW x, RequestType(x)
    PROVE  Bag(B (+) One(x)) /\ \A r \in DOMAIN (B (+) One(x)) : RequestType(r)
<1>1. Bag(B (+) One(x)) /\ DOMAIN (B (+) One(x)) = DOMAIN B \cup {x}
    BY AddOne
<1>2. QED
    BY <1>1

LEMMA DropType ==
    ASSUME NEW B, Bag(B), \A r \in DOMAIN B : RequestType(r), NEW x \in DOMAIN B
    PROVE  Bag(B (-) One(x)) /\ \A r \in DOMAIN (B (-) One(x)) : RequestType(r)
BY DropOne

\* What a request is when it is made.
LEMMA RequestIs ==
    ASSUME NEW what \in {"load", "check", "post", "poll"}
    PROVE  RequestType(Request(what)) /\ Request(what).what = what
BY DEF RequestType, Request

-----------------------------------------------------------------------------
(* Steps *)

\* What a chain and a tidy page ask of a page is what they say of three of its
\* variables.
LEMMA ChainKept ==
    ASSUME NEW p, NEW B, NEW q, NEW C, Chain(p, B),
           q.watching = p.watching, q.timer = p.timer,
           NoPoll(B) => NoPoll(C), OnePoll(B) => OnePoll(C)
    PROVE  Chain(q, C)
BY DEF Chain

\* A document that was just loaded.
LEMMA FreshInv ==
    ASSUME page' = FreshPage, net' = One(Request("load")), job' \in Job
    PROVE  PageInv'
<1> DEFINE x == Request("load")
<1>1. RequestType(x) /\ x.what = "load"
    BY RequestIs
<1> HIDE DEF x
<1>2. net' \in [{x} -> Nat \ {0}] /\ DOMAIN net' = {x}
    BY DEF One, SetToBag, x
<1>3. NetType'
    BY <1>1, <1>2 DEF NetType, Bag
<1>4. PageType'
    BY PageAssumption DEF PageType, Page, FreshPage, Job
<1>5. NoPoll(net')
    BY <1>1, <1>2 DEF NoPoll
<1>6. Chain(page', net') /\ Tidy(page', net')
    BY <1>5 DEF Chain, Tidy, FreshPage
<1>7. QED
    BY <1>3, <1>4, <1>6 DEF PageInv

\* The login page.
LEMMA LoginInv ==
    ASSUME page' = Login, net' = EmptyBag, job' \in Job
    PROVE  PageInv'
<1>1. DOMAIN net' = {} /\ net' \in [{} -> Nat \ {0}]
    BY DEF EmptyBag, SetToBag
<1>2. NetType' /\ NoPoll(net')
    BY <1>1 DEF NetType, Bag, NoPoll
<1>3. PageType'
    <2>1. FreshPage \in Page
        BY PageAssumption DEF Page, FreshPage, Job
    <2>2. Login \in Page
        BY <2>1 DEF Page, Login
    <2>3. QED
        BY <2>2 DEF PageType
<1>4. Chain(page', net') /\ Tidy(page', net')
    BY <1>2 DEF Chain, Tidy, Login, FreshPage
<1>5. QED
    BY <1>2, <1>3, <1>4 DEF PageInv

LEMMA PageInit == Init => PageInv
<1> SUFFICES ASSUME Init PROVE PageInv
    OBVIOUS
<1> DEFINE x == Request("load")
<1>1. RequestType(x) /\ x.what = "load"
    BY RequestIs
<1> HIDE DEF x
<1>2. net \in [{x} -> Nat \ {0}] /\ DOMAIN net = {x}
    BY DEF Init, One, SetToBag, x
<1>3. NetType
    BY <1>1, <1>2 DEF NetType, Bag
<1>4. PageType
    BY PageAssumption DEF Init, PageType, Page, FreshPage, Job
<1>5. NoPoll(net)
    BY <1>1, <1>2 DEF NoPoll
<1>6. Chain(page, net) /\ Tidy(page, net)
    BY <1>5 DEF Init, Chain, Tidy, FreshPage
<1>7. QED
    BY <1>3, <1>4, <1>6 DEF PageInv

\* A request that is no poll is made; the page may only lose its wish to retry.
LEMMA Asking ==
    ASSUME PageInv, NEW x, RequestType(x), x.what # "poll",
           net' = net (+) One(x), job' = job,
           \/ page' = page
           \/ page' = [page EXCEPT !.retry = FALSE] /\ x.what = "load"
    PROVE  PageInv'
<1>1. Bag(net) /\ \A r \in DOMAIN net : RequestType(r)
    BY DEF PageInv, NetType
<1>2. NetType'
    BY <1>1, AddType DEF NetType
<1>3. PageType'
    BY DEF PageInv, PageType, Page
<1>4. page'.watching = page.watching /\ page'.timer = page.timer
    BY DEF PageInv, PageType, Page
<1>5. Chain(page', net')
    <2>1. NoPoll(net) => NoPoll(net')
        BY <1>1, AddOther
    <2>2. OnePoll(net) => OnePoll(net')
        BY <1>1, AddOther
    <2>3. QED
        BY <1>4, <2>1, <2>2, ChainKept DEF PageInv
<1>6. Tidy(page', net')
    <2>1. HasLoad(net) => HasLoad(net')
        BY <1>1, AddLoads
    <2>2. x.what = "load" => HasLoad(net')
        BY <1>1, AddLoads
    <2>3. QED
        BY <2>1, <2>2 DEF PageInv, Tidy
<1>7. QED
    BY <1>2, <1>3, <1>5, <1>6 DEF PageInv

\* The timer of the chain becomes its request.
LEMMA PollTimerStep == PageInv /\ PollTimer => PageInv'
<1> SUFFICES ASSUME PageInv, PollTimer PROVE PageInv'
    OBVIOUS
<1> DEFINE x == Request("poll")
<1>1. RequestType(x) /\ x.what = "poll"
    BY RequestIs
<1>2. /\ page.timer /\ page' = [page EXCEPT !.timer = FALSE]
      /\ net' = net (+) One(x) /\ job' = job
    BY DEF PollTimer, hostVars
<1> HIDE DEF x
<1>3. Bag(net) /\ \A r \in DOMAIN net : RequestType(r)
    BY DEF PageInv, NetType
<1>4. NetType'
    BY <1>1, <1>2, <1>3, AddType DEF NetType
<1>5. PageType'
    BY <1>2 DEF PageInv, PageType, Page
<1>6. page.watching /\ NoPoll(net)
    BY <1>2 DEF PageInv, Chain
<1>7. page'.watching /\ ~page'.timer
    BY <1>2, <1>6 DEF PageInv, PageType, Page
<1>8. OnePoll(net')
    BY <1>1, <1>2, <1>3, <1>6, AddPoll
<1>9. QED
    BY <1>4, <1>5, <1>7, <1>8 DEF PageInv, Chain, Tidy

\* A request that is served is the same request, with an answer.
LEMMA ServeStep ==
    ASSUME PageInv, NEW r \in DOMAIN net, Serve(r)
    PROVE  PageInv'
<1> DEFINE answer == IF service = "down" THEN "unreachable"
                     ELSE IF ~session THEN "denied" ELSE Relayed
           granted == answer = "ok" /\ r.what = "post" /\ ~Running(job) /\ jobs < MaxJobs
           told == [result |-> IF r.what = "post" /\ answer = "ok" /\ ~granted
                               THEN "refused" ELSE answer,
                    job |-> job]
           x == [r EXCEPT !.answer = told]
           B == net (-) One(r)
<1>1. /\ net' = B (+) One(x) /\ page' = page
      /\ job' = job \/ job' = [self |-> r.self, state |-> "running"]
    BY DEF Serve, Others, StartJob
<1>2. Bag(net) /\ \A e \in DOMAIN net : RequestType(e)
    BY DEF PageInv, NetType
<1>3. answer \in {"ok", "error", "unreachable", "denied"}
    BY DEF Relayed
<1> HIDE DEF answer
<1>4. told \in [result : {"ok", "error", "unreachable", "denied", "refused"}, job : Job]
    BY <1>3 DEF PageInv, PageType, Page
<1> HIDE DEF told
<1>5. RequestType(x) /\ x.what = r.what
    BY <1>2, <1>4 DEF RequestType
<1> HIDE DEF x
<1>6. Bag(B) /\ \A e \in DOMAIN B : RequestType(e)
    BY <1>2, DropType
<1>7. /\ r.what # "poll" /\ NoPoll(net) => NoPoll(B)
      /\ r.what # "poll" /\ OnePoll(net) => OnePoll(B)
    BY <1>2, DropOther
<1>8. r.what = "poll" => OnePoll(net) /\ NoPoll(B)
    <2>1. r.what = "poll" => OnePoll(net)
        BY DEF PageInv, Chain, NoPoll
    <2>2. QED
        BY <1>2, <2>1, DropPoll
<1>9. r.what \notin {"load", "check"} /\ HasLoad(net) => HasLoad(B)
    BY <1>2, DropLoads
<1> HIDE DEF B
<1>10. Bag(net') /\ \A e \in DOMAIN net' : RequestType(e)
    BY <1>1, <1>5, <1>6, AddType
<1>11. PageType'
    BY <1>1, <1>2 DEF PageInv, PageType, Page, Job, RequestType
<1>12. Chain(page', net')
    <2>1. CASE r.what # "poll"
        <3>1. NoPoll(net) => NoPoll(net')
            BY <1>1, <1>5, <1>6, <1>7, <2>1, AddOther
        <3>2. OnePoll(net) => OnePoll(net')
            BY <1>1, <1>5, <1>6, <1>7, <2>1, AddOther
        <3>3. QED
            BY <1>1, <3>1, <3>2, ChainKept DEF PageInv
    <2>2. CASE r.what = "poll"
        <3>1. OnePoll(net')
            BY <1>1, <1>5, <1>6, <1>8, <2>2, AddPoll
        <3>2. ~NoPoll(net)
            BY <2>2 DEF NoPoll
        <3>3. QED
            BY <1>1, <3>1, <3>2 DEF PageInv, Chain
    <2>3. QED
        BY <2>1, <2>2
<1>13. HasLoad(net) => HasLoad(net')
    BY <1>1, <1>5, <1>6, <1>9, AddLoads
<1>14. QED
    BY <1>1, <1>10, <1>11, <1>12, <1>13 DEF PageInv, NetType, Tidy

-----------------------------------------------------------------------------
(* The page's functions *)

\* startWatch begins a chain where there is none.
LEMMA StartWatchIs ==
    ASSUME NEW p \in Page, NEW self \in BOOLEAN
    PROVE  /\ StartWatch(p, self) \in Page /\ StartWatch(p, self).watching
           /\ StartWatch(p, self).timer <=> p.timer \/ ~p.watching
BY DEF StartWatch, Page

\* A table that could be read.
LEMMA PaintIs ==
    ASSUME NEW p \in Page, NEW j \in Job
    PROVE  /\ Paint(p, j) \in Page
           /\ Paint(p, j).watching <=> p.watching \/ Running(j)
           /\ Paint(p, j).timer <=> p.timer \/ (Running(j) /\ ~p.watching)
           /\ ~Paint(p, j).busy \/ Paint(p, j).watching
<1> DEFINE q == [p EXCEPT !.tries = 0, !.retry = FALSE, !.fail = FALSE, !.busy = FALSE]
           s == ShowJob(q, j)
<1>0. 0 \in 0..MaxTries
    BY PageAssumption
<1>1. q \in Page /\ q.watching = p.watching /\ q.timer = p.timer /\ ~q.busy
    BY <1>0 DEF Page
<1> HIDE DEF q
<1>2. /\ s \in Page /\ s.watching = p.watching /\ s.timer = p.timer
      /\ s.busy <=> Running(j)
    BY <1>1 DEF ShowJob, Page, Running
<1>3. Running(j) => j.self \in BOOLEAN
    BY DEF Running, Job
<1>4. Paint(p, j) = IF j = None THEN q ELSE IF Running(j) THEN StartWatch(s, j.self) ELSE s
    BY DEF Paint, q
<1> HIDE DEF s
<1>5. CASE j = None
    BY <1>1, <1>4, <1>5 DEF Running
<1>6. CASE j # None /\ Running(j)
    BY <1>2, <1>3, <1>4, <1>6, StartWatchIs
<1>7. CASE j # None /\ ~Running(j)
    BY <1>2, <1>4, <1>7 DEF Page
<1>8. QED
    BY <1>5, <1>6, <1>7

\* One that could not: it is tried again, or the page says that it gave up.
LEMMA UnreachableIs ==
    ASSUME NEW p \in Page
    PROVE  /\ Unreachable(p) \in Page
           /\ Unreachable(p).watching = p.watching /\ Unreachable(p).timer = p.timer
           /\ Unreachable(p).fail
           /\ Unreachable(p).retry \/ Unreachable(p).tries = MaxTries
<1>1. p.tries \in 0..MaxTries /\ MaxTries \in Nat
    BY PageAssumption DEF Page
<1> DEFINE tries == IF p.tries < MaxTries THEN p.tries + 1 ELSE p.tries
           retry == p.retry \/ p.tries < MaxTries
<1>2. tries \in 0..MaxTries /\ retry \in BOOLEAN /\ (retry \/ tries = MaxTries)
    BY <1>1
<1>3. Unreachable(p) = [p EXCEPT !.fail = TRUE, !.tries = tries, !.retry = retry]
    BY DEF Unreachable
<1> HIDE DEF tries, retry
<1>4. QED
    BY <1>2, <1>3 DEF Page

\* A poll without an answer goes on.
LEMMA UnreachableJobIs ==
    ASSUME NEW p \in Page
    PROVE  /\ UnreachableJob(p) \in Page
           /\ UnreachableJob(p).watching = p.watching /\ UnreachableJob(p).timer
BY DEF UnreachableJob, ShowJob, Page, Running

\* A watch that ends.
LEMMA WatchStops ==
    ASSUME NEW p \in Page, NEW j \in Job, j # None
    PROVE  /\ FinishJob(p, j) \in Page /\ ~FinishJob(p, j).watching /\ ~FinishJob(p, j).timer
           /\ StopWatch(p) \in Page /\ ~StopWatch(p).watching /\ ~StopWatch(p).timer
<1>1. ShowJob(p, j) \in Page
    BY DEF ShowJob, Page, Running
<1>2. \A s \in Page : StopWatch(s) \in Page /\ ~StopWatch(s).watching /\ ~StopWatch(s).timer
    BY DEF StopWatch, Page
<1> DEFINE s == StopWatch(ShowJob(p, j))
           again == s.reload \/ (j.state = "succeeded" /\ (p.self \/ j.self))
<1>3. s \in Page /\ ~s.watching /\ ~s.timer /\ again \in BOOLEAN
    BY <1>1, <1>2 DEF Page
<1>4. FinishJob(p, j) = [s EXCEPT !.self = FALSE, !.reload = again]
    BY DEF FinishJob
<1> HIDE DEF s, again
<1>5. QED
    BY <1>2, <1>3, <1>4 DEF Page

-----------------------------------------------------------------------------
(* Answers *)

\* What an answered request holds.
LEMMA Answered ==
    ASSUME PageInv, NEW r \in DOMAIN net, r.answer # None
    PROVE  /\ Bag(net) /\ \A e \in DOMAIN net : RequestType(e)
           /\ page \in Page /\ job \in Job
           /\ r.self \in BOOLEAN /\ r.answer.job \in Job
BY DEF PageInv, NetType, RequestType, PageType

LEMMA LoadAnsweredStep ==
    ASSUME PageInv, NEW r \in DOMAIN net, LoadAnswered(r)
    PROVE  PageInv'
<1> DEFINE a == r.answer
           B == net (-) One(r)
<1>1. /\ r.what \in {"load", "check"} /\ a # None /\ net' = B /\ job' = job
      /\ page' = IF a.result = "ok" THEN Paint(page, a.job) ELSE Unreachable(page)
    BY DEF LoadAnswered, Loads, Pending, Others, hostVars
<1>2. /\ Bag(net) /\ \A e \in DOMAIN net : RequestType(e)
      /\ page \in Page /\ job \in Job /\ a.job \in Job
    BY <1>1, Answered
<1>3. Bag(B) /\ \A e \in DOMAIN B : RequestType(e)
    BY <1>2, DropType
<1>4. (NoPoll(net) => NoPoll(B)) /\ (OnePoll(net) => OnePoll(B))
    BY <1>1, <1>2, DropOther
<1> HIDE DEF a, B
<1>5. CASE a.result = "ok"
    <2>1. page' = Paint(page, a.job)
        BY <1>1, <1>5
    <2>2. /\ page' \in Page
          /\ page'.watching <=> page.watching \/ Running(a.job)
          /\ page'.timer <=> page.timer \/ (Running(a.job) /\ ~page.watching)
          /\ ~page'.busy \/ page'.watching
        BY <1>2, <2>1, PaintIs
    <2>3. Chain(page', B)
        BY <1>4, <2>2 DEF PageInv, Chain
    <2>4. Tidy(page', B)
        BY <2>2 DEF Tidy
    <2>5. QED
        BY <1>1, <1>2, <1>3, <2>2, <2>3, <2>4 DEF PageInv, NetType, PageType
<1>6. CASE a.result # "ok"
    <2>1. page' = Unreachable(page)
        BY <1>1, <1>6
    <2>2. /\ page' \in Page
          /\ page'.watching = page.watching /\ page'.timer = page.timer
          /\ page'.fail /\ (page'.retry \/ page'.tries = MaxTries)
        BY <1>2, <2>1, UnreachableIs
    <2>3. Chain(page', B)
        BY <1>4, <2>2, ChainKept DEF PageInv
    <2>4. Tidy(page', B)
        BY <2>2 DEF Tidy
    <2>5. QED
        BY <1>1, <1>2, <1>3, <2>2, <2>3, <2>4 DEF PageInv, NetType, PageType
<1>7. QED
    BY <1>5, <1>6

LEMMA PostAnsweredStep ==
    ASSUME PageInv, NEW r \in DOMAIN net, PostAnswered(r)
    PROVE  PageInv'
<1> DEFINE a == r.answer
           B == net (-) One(r)
<1>1. /\ r.what = "post" /\ a # None /\ net' = B /\ job' = job
      /\ page' = IF a.result = "ok" THEN StartWatch(page, r.self) ELSE page
    BY DEF PostAnswered, Others, hostVars
<1>2. /\ Bag(net) /\ \A e \in DOMAIN net : RequestType(e)
      /\ page \in Page /\ job \in Job /\ r.self \in BOOLEAN
    BY <1>1, Answered
<1>3. Bag(B) /\ \A e \in DOMAIN B : RequestType(e)
    BY <1>2, DropType
<1>4. (NoPoll(net) => NoPoll(B)) /\ (OnePoll(net) => OnePoll(B))
    BY <1>1, <1>2, DropOther
<1>5. HasLoad(net) => HasLoad(B)
    BY <1>1, <1>2, DropLoads
<1> HIDE DEF a, B
<1>6. CASE a.result = "ok"
    <2>1. page' = StartWatch(page, r.self)
        BY <1>1, <1>6
    <2>2. /\ page' \in Page /\ page'.watching
          /\ page'.timer <=> page.timer \/ ~page.watching
        BY <1>2, <2>1, StartWatchIs
    <2>3. Chain(page', B) /\ Tidy(page', B)
        BY <1>4, <2>2 DEF PageInv, Chain, Tidy
    <2>4. QED
        BY <1>1, <1>2, <1>3, <2>2, <2>3 DEF PageInv, NetType, PageType
<1>7. CASE a.result # "ok"
    <2>1. page' = page
        BY <1>1, <1>7
    <2>2. Chain(page', B)
        BY <1>4, <2>1, ChainKept DEF PageInv
    <2>3. Tidy(page', B)
        BY <1>5, <2>1 DEF PageInv, Tidy
    <2>4. QED
        BY <1>1, <1>2, <1>3, <2>1, <2>2, <2>3 DEF PageInv, NetType, PageType
<1>8. QED
    BY <1>6, <1>7

\* While a poll is under way it is the chain; its answer goes on with the chain, or
\* ends the watch and reads the table again, or loads the page again.
LEMMA PollAnsweredStep ==
    ASSUME PageInv, NEW r \in DOMAIN net, PollAnswered(r)
    PROVE  PageInv'
<1> DEFINE a == r.answer
           B == net (-) One(r)
           x == Request("load")
<1>1. /\ r.what = "poll" /\ a # None /\ job' = job
      /\ \/ Reload
         \/ page' = UnreachableJob(page) /\ net' = B
         \/ a.job = None /\ page' = StopWatch(page) /\ net' = B (+) One(x)
         \/ /\ Running(a.job)
            /\ page' = [ShowJob(page, a.job) EXCEPT !.timer = TRUE, !.self = @ \/ a.job.self]
            /\ net' = B
         \/ a.job # None /\ page' = FinishJob(page, a.job) /\ net' = B (+) One(x)
    BY DEF PollAnswered, Others, hostVars
<1>2. /\ Bag(net) /\ \A e \in DOMAIN net : RequestType(e)
      /\ page \in Page /\ job \in Job /\ a.job \in Job
    BY <1>1, Answered
<1>3. OnePoll(net) /\ page.watching
    BY <1>1 DEF PageInv, Chain, NoPoll
<1>4. Bag(B) /\ (\A e \in DOMAIN B : RequestType(e)) /\ NoPoll(B)
    BY <1>1, <1>2, <1>3, DropType, DropPoll
<1>5. RequestType(x) /\ x.what = "load"
    BY RequestIs
<1> HIDE DEF a, B, x
<1>6. /\ Bag(B (+) One(x)) /\ \A e \in DOMAIN (B (+) One(x)) : RequestType(e)
      /\ NoPoll(B (+) One(x)) /\ HasLoad(B (+) One(x))
    BY <1>4, <1>5, AddType, AddOther, AddLoads
<1>7. ASSUME page' \in Page, page'.watching, page'.timer, net' = B
      PROVE  PageInv'
    BY <1>1, <1>2, <1>4, <1>7 DEF PageInv, PageType, NetType, Chain, Tidy
<1>8. ASSUME page' \in Page, ~page'.watching, ~page'.timer, net' = B (+) One(x)
      PROVE  PageInv'
    BY <1>1, <1>2, <1>6, <1>8 DEF PageInv, PageType, NetType, Chain, Tidy
<1>9. CASE Reload
    BY <1>1, <1>2, <1>9, FreshInv, LoginInv DEF Reload
<1>10. CASE page' = UnreachableJob(page) /\ net' = B
    BY <1>2, <1>3, <1>7, <1>10, UnreachableJobIs
<1>11. CASE a.job = None /\ page' = StopWatch(page) /\ net' = B (+) One(x)
    <2>1. \A s \in Page : StopWatch(s) \in Page /\ ~StopWatch(s).watching /\ ~StopWatch(s).timer
        BY DEF StopWatch, Page
    <2>2. QED
        BY <1>2, <1>8, <1>11, <2>1
<1>12. CASE /\ Running(a.job)
            /\ page' = [ShowJob(page, a.job) EXCEPT !.timer = TRUE, !.self = @ \/ a.job.self]
            /\ net' = B
    <2> DEFINE s == ShowJob(page, a.job)
               self == s.self \/ a.job.self
    <2>1. s \in Page /\ s.watching = page.watching
        BY <1>2 DEF ShowJob, Page, Running
    <2>2. page' = [s EXCEPT !.timer = TRUE, !.self = self] /\ self \in BOOLEAN
        BY <1>12
    <2> HIDE DEF s, self
    <2>3. page' \in Page /\ page'.watching /\ page'.timer
        BY <1>3, <2>1, <2>2 DEF Page
    <2>4. QED
        BY <1>7, <1>12, <2>3
<1>13. CASE a.job # None /\ page' = FinishJob(page, a.job) /\ net' = B (+) One(x)
    BY <1>2, <1>8, <1>13, WatchStops
<1>14. QED
    BY <1>1, <1>9, <1>10, <1>11, <1>12, <1>13

\* What the host does by itself touches neither page nor requests.
LEMMA HostStep ==
    ASSUME PageInv, page' = page, net' = net, job' \in Job
    PROVE  PageInv'
BY DEF PageInv, PageType, NetType

\* Every step keeps one chain, and a tidy page.
LEMMA PageStep == PageInv /\ [Next]_vars => PageInv'
<1> SUFFICES ASSUME PageInv, [Next]_vars PROVE PageInv'
    OBVIOUS
<1>0. job \in Job
    BY DEF PageInv, PageType
<1>1. CASE UNCHANGED vars
    BY <1>0, <1>1, HostStep DEF vars, hostVars
<1>2. ASSUME NEW self \in BOOLEAN, OtherConsole(self) PROVE PageInv'
    BY <1>2, HostStep DEF OtherConsole, StartJob, Job
<1>3. ASSUME NEW self \in BOOLEAN, PressUpdate(self) PROVE PageInv'
    <2> DEFINE x == [Request("post") EXCEPT !.self = self]
    <2>1. RequestType(x) /\ x.what = "post"
        BY RequestIs DEF RequestType
    <2>2. net' = net (+) One(x) /\ page' = page /\ job' = job
        BY <1>3 DEF PressUpdate, hostVars
    <2> HIDE DEF x
    <2>3. QED
        BY <2>1, <2>2, Asking
<1>4. ASSUME NEW outcome \in {"succeeded", "failed"}, JobEnds(outcome) PROVE PageInv'
    <2>1. job' \in Job
        BY <1>0, <1>4 DEF JobEnds, Running, Job
    <2>2. QED
        BY <1>4, <2>1, HostStep DEF JobEnds
<1>5. CASE ResultAgesOut
    BY <1>5, HostStep DEF ResultAgesOut, Job
<1>6. ASSUME NEW what, Outage(what) PROVE PageInv'
    BY <1>0, <1>6, HostStep DEF Outage
<1>7. ASSUME NEW jobKept, NEW sessionKept, ServiceReturns(jobKept, sessionKept) PROVE PageInv'
    <2>1. job' \in Job
        BY <1>0, <1>7 DEF ServiceReturns, Job
    <2>2. QED
        BY <1>7, <2>1, HostStep DEF ServiceReturns
<1>8. CASE CheckNow
    <2>1. net' = net (+) One(Request("check")) /\ page' = page /\ job' = job
        BY <1>8 DEF CheckNow, hostVars
    <2>2. RequestType(Request("check")) /\ Request("check").what = "check"
        BY RequestIs
    <2>3. QED
        BY <2>1, <2>2, Asking
<1>9. CASE RetryTimer
    <2>1. /\ net' = net (+) One(Request("load")) /\ job' = job
          /\ page' = [page EXCEPT !.retry = FALSE]
        BY <1>9 DEF RetryTimer, hostVars
    <2>2. RequestType(Request("load")) /\ Request("load").what = "load"
        BY RequestIs
    <2>3. QED
        BY <2>1, <2>2, Asking
<1>10. CASE ReloadTimer
    BY <1>0, <1>10, FreshInv, LoginInv DEF ReloadTimer, Reload, hostVars
<1>11. CASE SignIn
    BY <1>0, <1>11, FreshInv DEF SignIn
<1>12. ASSUME NEW r \in BagToSet(net),
              Serve(r) \/ LoadAnswered(r) \/ PostAnswered(r) \/ PollAnswered(r)
       PROVE  PageInv'
    BY <1>12, ServeStep, LoadAnsweredStep, PostAnsweredStep, PollAnsweredStep DEF BagToSet
<1>13. QED
    BY <1>1, <1>2, <1>3, <1>4, <1>5, <1>6, <1>7, <1>8, <1>9, <1>10, <1>11, <1>12,
       PollTimerStep DEF Next

-----------------------------------------------------------------------------
(* Result *)

\* However late and in whatever order answers come, for any number of retries, jobs,
\* outages and presses: a page that watches a job has one chain of polls, one that
\* does not has none, and no row is left "Updating..." on a page that is done, unless
\* the page says that it gave up (_updates_page: startWatch, pollOnce, paint,
\* unreachable).
THEOREM PageAlwaysSettles == Spec => []PageSettles
<1>1. PageInv => PageSettles
    <2> SUFFICES ASSUME PageInv PROVE PageSettles
        OBVIOUS
    <2>1. NoPoll(net) <=> Pending("poll") = {}
        BY DEF NoPoll, Pending, BagToSet
    <2>2. HasLoad(net) <=> Loads # {}
        BY DEF HasLoad, Loads, Pending, BagToSet
    <2>3. OnePoll(net) => Pending("poll") # {} /\ \A r, q \in Pending("poll") : r = q /\ net[r] = 1
        BY DEF OnePoll, Pending, BagToSet
    <2>4. page \in Page
        BY DEF PageInv, PageType
    <2>5. QED
        BY <2>1, <2>2, <2>3, <2>4 DEF PageInv, Chain, Tidy, PageSettles, Page
<1>2. QED
    BY PageInit, PageStep, <1>1, PTL DEF Spec

=============================================================================
