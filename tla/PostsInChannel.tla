--------------------------- MODULE PostsInChannel ---------------------------
(***************************************************************************)
(* The posts of one channel in the web client.  The Redux state keeps, for *)
(* every channel, blocks of post IDs, the newest first; a block stands for *)
(* a run of the channel without a gap, `recent' says that it reaches the   *)
(* newest post and `oldest' that it reaches the first one.  Three sources  *)
(* fill them and nothing orders one against another: the events of the     *)
(* websocket, the pages loaded over HTTP, and the synchronisation after a  *)
(* reconnection or on a return to the channel.                             *)
(*                                                                         *)
(* Post n is the n-th post of the channel, a time n of the server is that  *)
(* of its creation.  A time of the client is taken as the number of posts  *)
(* that exist when its clock shows it, and as the number of disconnections *)
(* so far, with which lastDisconnectAt is compared; its clock may show any *)
(* time, and the server compares `since' with its own.                     *)
(*                                                                         *)
(* The server computes an answer from the posts it sees.  It may miss some *)
(* of them: a replica lags, a cache is old, or a post was created in the   *)
(* millisecond of the one at the edge of a page, which no page then has.   *)
(*                                                                         *)
(* Other users post and delete; the user's own pending posts and edits     *)
(* are left out, collapsed threads are off, a page has PageSize posts.     *)
(***************************************************************************)
EXTENDS Naturals, Sequences, FiniteSets, FiniteSetsExt, SequencesExt

CONSTANTS
    MaxPosts,        \* bound: posts of the channel
    InitialPosts,    \* bound: posts that exist when the client starts
    RootOf,          \* RootOf[p]: the post that p replies to, 0 for a root
    PageSize,        \* posts of a page
    SinceLimit,      \* LIMIT of GetPostsSince: posts of an answer to `since'
    FaultKinds,      \* "stale": answers that miss posts, "skew": the clock of
                     \* the client shows another time than the server's
    MaxActions,      \* bound: what the user does and what goes wrong: visits,
                     \* prefetches, scrolls, deletions, failures, disconnections,
                     \* answers that miss posts and times off the server's
    MaxPending       \* bound: requests on their way when one of these happens

Post == 1..MaxPosts

ASSUME PostsAssumption ==
    /\ MaxPosts \in Nat /\ InitialPosts \in 0..MaxPosts
    /\ PageSize \in Nat \ {0} /\ MaxActions \in Nat /\ MaxPending \in Nat
    /\ SinceLimit \in Nat /\ FaultKinds \subseteq {"stale", "skew"}
    /\ RootOf \in [Post -> 0..MaxPosts]
    /\ \A p \in Post : RootOf[p] < p /\ (RootOf[p] # 0 => RootOf[RootOf[p]] = 0)

VARIABLES
    posted,     \* server: number of posts created
    deleted,    \* server: the deleted ones
    leftOut,    \* history: posts that an answer should have had and had not
    events,     \* server to client: events not yet handled, sent or queued
    socket,     \* the websocket: "ready", "closed", or "open" before the hello
    drops,      \* number of disconnections (the time of lastDisconnectAt)
    known,      \* client: IDs in state.entities.posts.posts
    loaded,     \* client: postsInChannel[channelId] is defined
    blocks,     \* client: postsInChannel[channelId]
    lastApi,    \* client: lastGetPosts[channelId], a set with at most one time
    prefetch,   \* client: channelPrefetchStatus[channelId], "none" when not there
    viewing,    \* client: the channel is the current one
    requests,   \* HTTP requests sent, with their answers
    awaiting,   \* replies that wait for the thread of a root post not in store
    lost,       \* history: posts whose event a new connection never delivers
    dropped,    \* history: posts whose event the client ignored, when an answer
                \* that may not have them is on its way or already there
    acts,       \* number of the actions that MaxActions bounds
    calm        \* history: the user looks at the newest posts since before the first
                \* disconnection, nothing failed or was deleted, no answer or
                \* event was wasted or came too late, and no time that the client
                \* has stamped was ahead of the server's

vars == <<posted, deleted, leftOut, events, socket, drops, known, loaded, blocks, lastApi,
          prefetch, viewing, requests, awaiting, lost, dropped, acts, calm>>

history == <<acts, calm>>
server == <<posted, deleted, leftOut>>
link == <<events, socket, drops, lost>>
client == <<known, loaded, blocks, lastApi>>

-----------------------------------------------------------------------------
\* Sequences by rank, not by SelectSeq and SortSeq, which proofs cannot expand.

\* The elements of D, each after those before it
InOrder(D, before) ==
    [k \in 1..Cardinality(D) |->
        CHOOSE x \in D : Cardinality({y \in D : <<y, x>> \in before}) = k - 1]

Desc(S) == InOrder(S, {x \in S \X S : x[1] > x[2]})

\* filter: the elements of s that are in S
Keep(s, S) ==
    LET D == {i \in DOMAIN s : s[i] \in S}
        at == InOrder(D, {x \in D \X D : x[1] < x[2]})
    IN  [k \in DOMAIN at |-> s[at[k]]]

-----------------------------------------------------------------------------
\* What the server answers.

Live == (1..posted) \ deleted
Newest(S) == {p \in S : Cardinality({q \in S : q > p}) < PageSize}
Oldest(S, n) == {p \in S : Cardinality({q \in S : q < p}) < n}
Below(V, p) == {q \in V : q < p}
Above(V, p) == {q \in V : q > p}
Root(p) == IF RootOf[p] = 0 THEN p ELSE RootOf[p]

\* The posts that a query sees: those that exist or, with a replica that lags, a
\* cache that is old or create_at that are equal, any others.
Views == {Live} \union IF "stale" \in FaultKinds THEN SUBSET (1..posted) ELSE {}

\* The threads of the posts in S, as seen in V; a post refers to its root.
Threads(V, S) ==
    {p \in V \union {q \in Live : RootOf[q] = 0} : \E q \in S : Root(p) = Root(q)}

\* A page in order, with next_post_id = '' and prev_post_id = ''.  These are looked
\* up on the master, unless a page is short: M is what that sees.
Page(V, M, S) ==
    [order |-> Desc(S), posts |-> Threads(V, S),
     recent |-> \A p \in M \ S : \E q \in S : q > p,
     oldest |-> \A p \in M \ S : \E q \in S : q < p]
Pages(V, S) == {Page(V, M, S) : M \in {V, Live}}

NoReply == [order |-> <<>>, posts |-> {}, recent |-> FALSE, oldest |-> FALSE]
Window(V, p, after) == Newest(Below(V, p)) \union {p} \union Oldest(Above(V, p), after)

\* Posts updated since n: the newer ones, the roots that these reply to, and perhaps
\* those deleted later.  When they are more than the limit any of them are taken, with
\* the roots of what is taken.
UpdatedSince(V, n) ==
    LET seen == V \union deleted
        updated == {p \in seen : p > n \/ \E q \in seen : q > n /\ RootOf[q] = p}
        taken(U) == {C \in SUBSET U : Cardinality(C) = Min({Cardinality(U), SinceLimit})}
        rooted(U) == {C \union {p \in U : \E q \in C : RootOf[q] = p} : C \in taken(U)}
    IN  {[NoReply EXCEPT !.order = Desc(S), !.posts = Threads(V, S)] :
            S \in rooted(updated) \union rooted(updated \union deleted)}

Answers(r, V) ==
    CASE r.kind \in {"latest", "page0"} -> Pages(V, Newest(V))
      [] r.kind \in {"unread", "prefetch"} ->
            Pages(V, Newest(V)) \union UNION {Pages(V, Window(V, p, PageSize - 1)) : p \in V}
      [] r.kind = "around" ->
            UNION {Pages(V, Window(V, p, PageSize)) : p \in V \intersect {r.arg}}
      [] r.kind = "before" -> Pages(V, Newest(Below(V, r.arg)))
      [] r.kind = "after" -> Pages(V, Oldest(Above(V, r.arg), PageSize))
      [] r.kind = "since" -> UpdatedSince(V, r.arg)

\* The posts that answer a to r should have had: a synchronisation all since its
\* time, a page those that it was computed without.
Omitted(r, V, a) ==
    {p \in Live \ ToSet(a.order) : IF r.kind = "since" THEN p > r.arg ELSE p \notin V}

-----------------------------------------------------------------------------
\* The reducers.

Block(order, recent, oldest) == [order |-> order, recent |-> recent, oldest |-> oldest]
Has(b, p) == p \in ToSet(b.order)

\* findIndex: the first recent block, 0 when there is none
RecentIndex(bs) ==
    LET R == {i \in DOMAIN bs : bs[i].recent} IN IF R = {} THEN 0 ELSE Min(R)

removeNonRecentEmptyPostBlocks(bs) ==
    Keep(bs, {b \in ToSet(bs) : b.order # <<>> \/ b.recent})

\* A stable sort by the newest post
NewestFirst(bs) ==
    LET D == DOMAIN bs
        head(i) == Head(bs[i].order)
        at == InOrder(D, {x \in D \X D : \/ head(x[1]) > head(x[2])
                                        \/ /\ head(x[1]) = head(x[2])
                                           /\ x[1] < x[2]})
    IN  [k \in DOMAIN at |-> bs[at[k]]]

mergePostOrder(left, right) ==
    IF ToSet(right) \subseteq ToSet(left) THEN left
    ELSE Desc(ToSet(left) \union ToSet(right))

\* Mutants of MergeInto: blocks that do not meet are joined; the joined block
\* keeps the mark of the newer block only.
MergeIntoApart(acc, b, kn) ==
    LET a == Last(acc.blocks)
    IN  IF acc.blocks = <<>> THEN [acc EXCEPT !.blocks = <<b>>]
        ELSE [acc EXCEPT !.blocks = Append(Front(@), Block(mergePostOrder(a.order, b.order),
                                           a.recent \/ b.recent, a.oldest \/ b.oldest))]

MergeIntoNewer(acc, b, kn) ==
    LET a == Last(acc.blocks)
    IN  IF acc.blocks = <<>> THEN [acc EXCEPT !.blocks = <<b>>]
        ELSE IF Last(a.order) > Head(b.order) THEN [acc EXCEPT !.blocks = Append(@, b)]
        ELSE [acc EXCEPT !.blocks = Append(Front(@), Block(mergePostOrder(a.order, b.order),
                                           a.recent, a.oldest \/ b.oldest))]

\* One step of the loop that merges adjacent blocks.  `ok' is FALSE once the
\* code has read create_at of a post that is not in the store: a TypeError.
MergeInto(acc, b, kn) ==
    LET a == Last(acc.blocks)
        all == mergePostOrder(a.order, b.order)
        joined == Block(all, a.recent \/ b.recent, a.oldest \/ b.oldest)
    IN  IF acc.blocks = <<>> THEN [acc EXCEPT !.blocks = <<b>>]
        ELSE IF Last(a.order) \notin kn THEN [acc EXCEPT !.ok = FALSE]
        ELSE IF Last(a.order) > Head(b.order) THEN [acc EXCEPT !.blocks = Append(@, b)]
        ELSE [ok |-> acc.ok /\ (all = a.order \/ ToSet(all) \subseteq kn),
              blocks |-> Append(Front(acc.blocks), joined)]

mergePostBlocks(bs, kn) ==
    LET kept == removeNonRecentEmptyPostBlocks(bs)
        readable == \A i \in DOMAIN kept :
                        kept[i].order # <<>> /\ Head(kept[i].order) \in kn
        merged == FoldLeft(LAMBDA acc, b : MergeInto(acc, b, kn),
                           [ok |-> TRUE, blocks |-> <<>>], NewestFirst(kept))
        result == IF Len(kept) <= 1 THEN [ok |-> TRUE, blocks |-> kept]
                  ELSE IF ~readable THEN [ok |-> FALSE, blocks |-> bs]
                  ELSE merged
    IN  IF kept = <<>> \/ Len(result.blocks) = Len(bs)
        THEN [result EXCEPT !.blocks = bs] ELSE result

Unchanged(bs) == [ok |-> TRUE, blocks |-> bs]

receivedPostsInChannel(bs, a, recent, kn) ==
    LET i == RecentIndex(bs)
        unmarked == IF recent /\ i # 0 THEN [bs EXCEPT ![i].recent = FALSE] ELSE bs
        same == /\ recent /\ i # 0
                /\ Len(bs[i].order) = Len(a.order)
                /\ bs[i].order # <<>> => /\ Head(bs[i].order) = Head(a.order)
                                         /\ Last(bs[i].order) = Last(a.order)
    IN  IF (a.order = <<>> /\ loaded) \/ same THEN Unchanged(bs)
        ELSE mergePostBlocks(Append(unmarked, Block(a.order, recent, a.oldest)), kn)

receivedPostsAfter(bs, a, anchor, kn) ==
    IF a.order = <<>> THEN Unchanged(bs)
    ELSE mergePostBlocks(Append(bs, Block(Append(a.order, anchor), a.recent, FALSE)), kn)

receivedPostsBefore(bs, a, anchor, kn) ==
    IF a.order = <<>> THEN Unchanged(bs)
    ELSE mergePostBlocks(Append(bs, Block(<<anchor>> \o a.order, FALSE, a.oldest)), kn)

\* Mutant of receivedPostsSince: only what is newer than the block is added.
receivedPostsSinceNewer(bs, a, kn) ==
    LET i == RecentIndex(bs)
        added == {p \in ToSet(a.order) \intersect kn : \A q \in ToSet(bs[i].order) : p > q}
    IN  IF i = 0 THEN Unchanged(bs)
        ELSE Unchanged([bs EXCEPT ![i].order = Desc(added) \o @])

receivedPostsSince(bs, a, kn) ==
    LET i == RecentIndex(bs)
        old == bs[i].order
        added == {p \in ToSet(a.order) \intersect kn : p > Last(old)} \ ToSet(old)
    IN  IF (a.order = <<>> /\ loaded) \/ i = 0 THEN Unchanged(bs)
        ELSE IF old = <<>> \/ Last(old) \notin kn THEN [ok |-> FALSE, blocks |-> bs]
        ELSE IF added = {} THEN Unchanged(bs)
        ELSE [ok |-> ToSet(old) \subseteq kn,
              blocks |-> [bs EXCEPT ![i].order = Desc(ToSet(old) \union added)]]

\* Mutant of receivedNewPost: a post that the block has is put in front again.
receivedNewPostAgain(bs, p) ==
    LET i == RecentIndex(bs)
    IN  IF i = 0 THEN Append(bs, Block(<<p>>, TRUE, FALSE))
        ELSE [bs EXCEPT ![i].order = <<p>> \o @]

receivedNewPost(bs, p) ==
    LET i == RecentIndex(bs)
    IN  IF i = 0 THEN Append(bs, Block(<<p>>, TRUE, FALSE))
        ELSE IF Has(bs[i], p) THEN bs
        ELSE [bs EXCEPT ![i].order = <<p>> \o @]

\* The replies S of a deleted root leave the blocks.
postDeleted(bs, S) ==
    LET filtered == [i \in DOMAIN bs |->
            [bs[i] EXCEPT !.order = Keep(@, Post \ S)]]
    IN  IF filtered = bs THEN bs ELSE removeNonRecentEmptyPostBlocks(filtered)

-----------------------------------------------------------------------------
\* Requests of the client.

Now == [n |-> posted, d |-> drops]
Stamping == {"since", "latest", "unread", "prefetch"}
Request(kind, arg) ==
    [kind |-> kind, arg |-> arg,
     at |-> IF kind \in Stamping THEN Now ELSE [n |-> 0, d |-> 0],
     answered |-> FALSE, reply |-> NoReply]

\* syncPostsInChannel: from the last call when the socket has closed after it
SyncRequest(since) ==
    LET late == {t \in lastApi : t.d < drops}
    IN  Request("since", IF late = {} THEN since ELSE Max({t.n : t \in late}))

MostRecent ==
    LET i == RecentIndex(blocks)
    IN  IF i = 0 THEN {} ELSE {p \in ToSet(blocks[i].order) : p = Head(blocks[i].order)}

\* getUnreadPostsChunk: the block shown for a time of the last view
UnreadChunk(ts) ==
    LET i == RecentIndex(blocks)
        O == {k \in DOMAIN blocks : blocks[k].oldest}
        j == IF O = {} THEN 0 ELSE Min(O)
        Around == {k \in DOMAIN blocks :
                     /\ blocks[k].order # <<>>
                     /\ Head(blocks[k].order) >= ts /\ Last(blocks[k].order) <= ts}
    IN  IF i # 0 /\ (blocks[i].order = <<>> \/ Last(blocks[i].order) <= ts) THEN i
        ELSE IF j # 0 /\ blocks[j].order # <<>> /\ Last(blocks[j].order) >= ts THEN j
        ELSE IF Around # {} THEN Min(Around) ELSE i

\* postsOnLoad of the post list, without a focused post
OnLoad(ts) ==
    LET k == UnreadChunk(ts)
    IN  IF ~loaded
        THEN IF prefetch = "started" THEN {} ELSE {Request("unread", 0)}
        ELSE IF k # 0 /\ blocks[k].order # <<>> THEN {SyncRequest(Head(blocks[k].order))}
        ELSE {Request("latest", 0)}

\* What reconnect() asks for the current channel
OnReconnect ==
    IF ~viewing THEN {}
    ELSE IF MostRecent = {} THEN {Request("page0", 0)}
    ELSE {SyncRequest(p) : p \in MostRecent}

\* The client holds posts, or an answer or an older reply is on its way: only then
\* a missed event matters, a later answer has the post.
Counts == loaded \/ awaiting # {} \/ \E r \in requests : r.answered

\* An action that MaxActions bounds
Act == acts < MaxActions /\ acts' = acts + 1 /\ Cardinality(requests) <= MaxPending
Quietly == Act /\ UNCHANGED calm
Disturb == Act /\ calm' = FALSE

-----------------------------------------------------------------------------
\* The server.

CreatePost ==
    /\ posted < MaxPosts
    /\ RootOf[posted + 1] \notin deleted
    /\ posted' = posted + 1
    /\ events' = Append(events, [del |-> FALSE, post |-> posted + 1])
    /\ UNCHANGED <<deleted, leftOut, socket, drops, client, prefetch, viewing,
                   requests, awaiting, lost, dropped, history>>

DeletePost(p) ==
    /\ p \in Live
    /\ deleted' = deleted \union {p} \union {q \in 1..posted : RootOf[q] = p}
    /\ events' = Append(events, [del |-> TRUE, post |-> p])
    /\ Disturb
    /\ UNCHANGED <<posted, leftOut, socket, drops, client, prefetch, viewing,
                   requests, awaiting, lost, dropped>>

\* An answer computed from other posts than the live ones counts as an action.
Answer(r) ==
    /\ ~r.answered
    /\ \E V \in Views :
          /\ IF V = Live THEN UNCHANGED acts ELSE acts < MaxActions /\ acts' = acts + 1
          /\ \E a \in Answers(r, V) :
                /\ requests' = (requests \ {r}) \union
                                 {[r EXCEPT !.answered = TRUE, !.reply = a]}
                /\ leftOut' = leftOut \union Omitted(r, V, a)
    /\ UNCHANGED <<posted, deleted, link, client, prefetch, viewing, awaiting,
                   dropped, calm>>

-----------------------------------------------------------------------------
\* The websocket.

\* handleClose
Close ==
    /\ socket \in {"ready", "open"}
    /\ Act /\ calm' = (calm /\ viewing /\ MostRecent # {})
    /\ socket' = "closed"
    /\ drops' = drops + 1
    /\ prefetch' = "none"
    /\ UNCHANGED <<server, events, client, viewing, requests, awaiting, lost,
                   dropped>>

\* onopen calls reconnect() before the server knows the connection
Open ==
    /\ socket = "closed"
    /\ socket' = "open"
    /\ requests' = requests \union OnReconnect
    /\ UNCHANGED <<server, events, drops, client, prefetch, viewing, awaiting, lost,
                   dropped, history>>

\* The hello of a resumed connection: the queued events follow.
HelloResumed ==
    /\ socket = "open"
    /\ socket' = "ready"
    /\ UNCHANGED <<server, events, drops, client, prefetch, viewing, requests,
                   awaiting, lost, dropped, history>>

\* Mutant of HelloNew: no restart(), the reconnection of onopen was enough.
HelloNewQuiet ==
    /\ socket = "open"
    /\ socket' = "ready"
    /\ events' = <<>>
    /\ lost' = lost \union {e.post : e \in {x \in ToSet(events) : ~x.del /\ Counts}}
    /\ UNCHANGED <<server, drops, client, prefetch, viewing, requests, awaiting,
                   dropped, history>>

\* The hello of a new connection: the events are gone and restart() reconnects.
HelloNew ==
    /\ socket = "open"
    /\ socket' = "ready"
    /\ events' = <<>>
    /\ lost' = lost \union {e.post : e \in {x \in ToSet(events) : ~x.del /\ Counts}}
    /\ requests' = requests \union OnReconnect
    /\ UNCHANGED <<server, drops, client, prefetch, viewing, awaiting, dropped,
                   history>>

\* Post p is not in the recent block, where it would be put, but newer posts are shown.
Late(p) ==
    /\ ~\E b \in ToSet(blocks) : b.recent /\ Has(b, p)
    /\ \E b \in ToSet(blocks) : \E q \in ToSet(b.order) : q > p

\* Mutant of ReceiveNew: the post is kept although the channel is not loaded.
ReceiveNewUnloaded(p) ==
    /\ blocks' = receivedNewPost(blocks, p)
    /\ calm' = (calm /\ ~Late(p))
    /\ UNCHANGED dropped

\* RECEIVED_NEW_POST
ReceiveNew(p) ==
    /\ blocks' = IF loaded THEN receivedNewPost(blocks, p) ELSE blocks
    /\ dropped' = IF loaded \/ ~Counts THEN dropped ELSE dropped \union {p}
    /\ calm' = (calm /\ ~Late(p))

\* completePostReceive: a reply in the current channel waits for its thread
Posted(p) ==
    LET await == viewing /\ RootOf[p] # 0 /\ RootOf[p] \notin known
    IN  \/ /\ await
           /\ awaiting' = awaiting \union {p}
           /\ UNCHANGED <<known, blocks, dropped, calm>>
        \/ /\ ~await
           /\ ReceiveNew(p)
           /\ known' = known \union {p}
           /\ UNCHANGED awaiting

\* POST_DELETED: only a known root loses its replies from the store
Deleted(p) ==
    LET S == {q \in Post : RootOf[q] = p}
    IN  /\ blocks' = postDeleted(blocks, S \intersect known)
        /\ known' = IF p \in known THEN known \ S ELSE known
        /\ UNCHANGED <<awaiting, dropped, calm>>

HandleEvent ==
    /\ socket = "ready" /\ events # <<>>
    /\ events' = Tail(events)
    /\ LET e == Head(events) IN IF e.del THEN Deleted(e.post) ELSE Posted(e.post)
    /\ UNCHANGED <<server, socket, drops, loaded, lastApi, prefetch, viewing,
                   requests, lost, acts>>

\* getPostThread of a waiting reply answers, then RECEIVED_NEW_POST
ThreadLoaded(p) ==
    /\ p \in awaiting /\ Root(p) \notin deleted
    /\ awaiting' = awaiting \ {p}
    /\ known' = known \union Threads(Live, {p}) \union {p}
    /\ ReceiveNew(p)
    /\ UNCHANGED <<server, link, loaded, lastApi, prefetch, viewing, requests,
                   acts>>

ThreadFails(p) ==
    /\ p \in awaiting
    /\ IF Root(p) \in deleted THEN UNCHANGED history
       ELSE Disturb
    /\ awaiting' = awaiting \ {p}
    /\ dropped' = IF Counts THEN dropped \union {p} ELSE dropped
    /\ UNCHANGED <<server, link, client, prefetch, viewing, requests>>

-----------------------------------------------------------------------------
\* The user and the answers.

Visit ==
    /\ ~viewing
    /\ viewing' = TRUE
    /\ \E ts \in 0..posted : requests' = requests \union OnLoad(ts)
    /\ Quietly
    /\ UNCHANGED <<server, link, client, prefetch, awaiting, dropped>>

\* A permalink, from anywhere: loadPostsAround
VisitPermalink(p) ==
    /\ p \in Live
    /\ viewing' = TRUE
    /\ requests' = requests \union {Request("around", p)}
    /\ Quietly
    /\ UNCHANGED <<server, link, client, prefetch, awaiting, dropped>>

Leave ==
    /\ viewing /\ acts < MaxActions
    /\ viewing' = FALSE
    /\ calm' = FALSE
    /\ UNCHANGED <<server, link, client, prefetch, requests, awaiting, dropped,
                   acts>>

\* prefetchChannelPosts, once in a connection
Prefetch ==
    /\ prefetch = "none"
    /\ IF ~loaded \/ MostRecent = {}
       THEN /\ requests' = requests \union {Request("prefetch", 0)}
            /\ prefetch' = "started"
       ELSE /\ requests' = requests \union {SyncRequest(p) : p \in MostRecent}
            /\ prefetch' = "done"
    /\ Quietly
    /\ UNCHANGED <<server, link, client, viewing, awaiting, dropped>>

\* canLoadMorePosts: the older or newer page of the block on the screen, one at a
\* time (that postsOnLoad ends with both flags off is left out)
LoadMore(kind) ==
    /\ viewing
    /\ ~\E r \in requests : r.kind \in {"before", "after"}
    /\ \E b \in {x \in ToSet(blocks) : x.order # <<>>} :
          /\ kind = "before" => ~b.oldest
          /\ kind = "after" => ~b.recent
          /\ requests' = requests \union
                {Request(kind, IF kind = "before" THEN Last(b.order) ELSE Head(b.order))}
    /\ Quietly
    /\ UNCHANGED <<server, link, client, prefetch, viewing, awaiting, dropped>>

\* No block reaches a newer post than the recent one.
NewestIsRecent(bs) ==
    \A i, j \in DOMAIN bs :
        (bs[i].recent /\ ~bs[j].recent /\ bs[i].order # <<>> /\ bs[j].order # <<>>) =>
            Max(ToSet(bs[i].order)) >= Max(ToSet(bs[j].order))

\* One block at most is recent.
OneIsRecent(bs) == \A i, j \in DOMAIN bs : bs[i].recent /\ bs[j].recent => i = j

\* The last post of the recent block is its oldest: a late event may have put an
\* older post in front of it.
LastIsOldest(bs) ==
    LET i == RecentIndex(bs)
    IN  i # 0 /\ bs[i].order # <<>> /\ Last(bs[i].order) = Min(ToSet(bs[i].order))

\* The answer of a synchronisation all of whose new posts the recent block can take
InTime(r) ==
    /\ LastIsOldest(blocks)
    /\ \A p \in ToSet(r.reply.order) :
          p > r.arg => p >= Last(blocks[RecentIndex(blocks)].order)

\* The reducer for the answer of r, with the posts already in the store
Reduce(r, kn) ==
    CASE r.kind = "since" -> receivedPostsSince(blocks, r.reply, kn)
      [] r.kind = "before" -> receivedPostsBefore(blocks, r.reply, r.arg, kn)
      [] r.kind = "after" -> receivedPostsAfter(blocks, r.reply, r.arg, kn)
      [] r.kind \in {"latest", "page0"} -> receivedPostsInChannel(blocks, r.reply, TRUE, kn)
      [] OTHER -> receivedPostsInChannel(blocks, r.reply, r.reply.recent, kn)

\* RECEIVED_POSTS_FOR_CHANNEL_AT_TIME follows these
Stamps(r) == r.kind \in Stamping /\ (r.kind \in {"unread", "prefetch"} => r.reply.recent)

\* The time that the client's clock showed when r was sent, in the server's times; one
\* off the server's counts as an action.
Clock(r) ==
    {r.at.n} \union
        IF "skew" \in FaultKinds /\ Stamps(r) /\ acts < MaxActions THEN 0..MaxPosts ELSE {}

\* An answer that makes the reducer throw changes nothing.
Receive(r) ==
    LET kn == known \union r.reply.posts
        next == Reduce(r, kn)
    IN  /\ r.answered
        /\ requests' = requests \ {r}
        /\ \E n \in Clock(r) :
              /\ IF next.ok
                 THEN /\ blocks' = next.blocks
                      /\ known' = kn
                      /\ loaded' = (loaded \/ next.blocks # <<>>)
                      /\ lastApi' = IF Stamps(r) THEN {[r.at EXCEPT !.n = n]} ELSE lastApi
                      /\ prefetch' = IF r.kind = "prefetch" THEN "done" ELSE prefetch
                 ELSE UNCHANGED <<blocks, known, loaded, lastApi, prefetch>>
              /\ acts' = IF n = r.at.n THEN acts ELSE acts + 1
              /\ calm' = (calm /\ NewestIsRecent(next.blocks) /\ OneIsRecent(next.blocks)
                               /\ (r.kind = "since" => InTime(r)) /\ n <= r.at.n)
        /\ UNCHANGED <<server, link, viewing, awaiting, dropped>>

\* A request fails, before or after the server saw it; the older or newer page
\* may be asked for again.
Fail(r) ==
    /\ ~r.answered
    /\ IF r.kind = "around" /\ r.arg \in deleted THEN UNCHANGED history
       ELSE Disturb
    /\ \/ requests' = requests \ {r}
       \/ /\ r.kind \in {"before", "after"}
          /\ requests' = (requests \ {r}) \union {Request(r.kind, r.arg)}
    /\ prefetch' = IF r.kind = "prefetch" THEN "done" ELSE prefetch
    /\ UNCHANGED <<server, link, client, viewing, awaiting, dropped>>

-----------------------------------------------------------------------------
Init ==
    /\ posted = InitialPosts
    /\ deleted = {} /\ leftOut = {} /\ events = <<>> /\ socket = "ready" /\ drops = 0
    /\ known = {} /\ loaded = FALSE /\ blocks = <<>> /\ lastApi = {}
    /\ prefetch = "none" /\ viewing = FALSE /\ requests = {} /\ awaiting = {}
    /\ lost = {} /\ dropped = {}
    /\ acts = 0 /\ calm = TRUE

Next ==
    \/ CreatePost \/ (\E p \in Post : DeletePost(p))
    \/ Close \/ Open \/ HelloResumed \/ HelloNew \/ HandleEvent
    \/ (\E p \in awaiting : ThreadLoaded(p) \/ ThreadFails(p))
    \/ Visit \/ (\E p \in Post : VisitPermalink(p)) \/ Leave \/ Prefetch
    \/ LoadMore("before") \/ LoadMore("after")
    \/ (\E r \in requests : Answer(r) \/ Receive(r) \/ Fail(r))

Spec == Init /\ [][Next]_vars

-----------------------------------------------------------------------------
Times == [n : 0..MaxPosts, d : 0..MaxActions]
Blocks == [order : Seq(Post), recent : BOOLEAN, oldest : BOOLEAN]
Replies == [order : Seq(Post), posts : SUBSET Post, recent : BOOLEAN, oldest : BOOLEAN]
Kinds == {"latest", "page0", "unread", "prefetch", "around", "before", "after", "since"}

\* The variables have their types, and an unloaded channel has no blocks.
TypeOK ==
    /\ posted \in 0..MaxPosts /\ deleted \subseteq 1..posted /\ leftOut \subseteq 1..posted
    /\ events \in Seq([del : BOOLEAN, post : Post])
    /\ socket \in {"ready", "closed", "open"} /\ drops \in 0..MaxActions
    /\ known \subseteq 1..posted
    /\ loaded \in BOOLEAN /\ blocks \in Seq(Blocks) /\ (~loaded => blocks = <<>>)
    /\ prefetch \in {"none", "started", "done"} /\ viewing \in BOOLEAN
    /\ lastApi \subseteq Times /\ Cardinality(lastApi) <= 1
    /\ requests \subseteq [kind : Kinds, arg : 0..MaxPosts, at : Times,
                           answered : BOOLEAN, reply : Replies]
    /\ awaiting \subseteq 1..posted /\ lost \subseteq 1..posted
    /\ dropped \subseteq 1..posted
    /\ acts \in 0..MaxActions /\ calm \in BOOLEAN

InSomeBlock(p) == \E i \in DOMAIN blocks : Has(blocks[i], p)
Coming(p) == p \in awaiting \/ [del |-> FALSE, post |-> p] \in ToSet(events)

\* Post p lies in the run of the channel that block b stands for.
Spans(b, p) ==
    /\ b.order # <<>>
    /\ b.recent \/ p < Max(ToSet(b.order))
    /\ b.oldest \/ p > Min(ToSet(b.order))

\* A gap: a live post that a block spans and that no block holds.
Gap(p) ==
    /\ p \in Live /\ ~InSomeBlock(p)
    /\ \E i \in DOMAIN blocks : Spans(blocks[i], p)

\* However events and answers interleave, no block shows a post twice.
NoDuplicates == \A i \in DOMAIN blocks : IsInjective(blocks[i].order)

\* Every gap in what the client takes for a complete run is a post whose event
\* is still on its way, was lost with a connection, or came before the channel
\* was loaded, or one that an answer of the server left out: merging, trimming and
\* marking blocks never makes one.
NothingSkipped ==
    \A p \in Post : Gap(p) => Coming(p) \/ p \in lost \/ p \in dropped \/ p \in leftOut

HasRecent == RecentIndex(blocks) # 0

\* Once the client has a recent block, where new posts go, it keeps one.
RecentStays == [][HasRecent => HasRecent']_vars

\* An answer to a synchronisation, whatever happened since it was asked for, leaves
\* none of its posts out of the recent block that is newer than the oldest of the
\* block, if late events have not put an older post in front of that one and the
\* block's posts are in the store.
SyncClosesGaps ==
    [][\A r \in requests \ requests' :
          LET old == blocks[RecentIndex(blocks)].order
          IN  (/\ r.kind = "since" /\ r.answered
               /\ LastIsOldest(blocks) /\ ToSet(old) \subseteq known) =>
                 \A p \in ToSet(r.reply.order) : p > Last(old) => ~Gap(p)']_vars

\* The answer that marks a block as the recent one never puts it below another.
RecentIsNewest == NewestIsRecent(blocks)

\* A post lost with a connection is fetched by the client's own efforts, with the
\* sync of the reconnection or of the restart: once nothing is on its way, it is
\* no gap, in a calm history, unless an answer of the server left it out.
Settled == socket = "ready" /\ events = <<>> /\ requests = {} /\ awaiting = {}
LostIsFetched ==
    (Settled /\ calm) => \A p \in lost : Gap(p) => p \in leftOut

=============================================================================
