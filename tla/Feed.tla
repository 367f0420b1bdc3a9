-------------------------------- MODULE Feed --------------------------------
(***************************************************************************)
(* The feed: posts, pins, reactions and comments with one level of         *)
(* replies, and the events that tell the clients in the room               *)
(* (feed/feed.service.ts, feed/feed.gateway.ts).                           *)
(*                                                                         *)
(* A handler checks, writes, reads back what it announces and emits, each  *)
(* step on its own; clients keep what the last event said.                 *)
(***************************************************************************)
EXTENDS Naturals, Sequences, FiniteSets, FiniteSetsExt

CONSTANTS
    Users,
    Types,     \* types of reactions
    MaxPosts,  \* bound on the posts, numbered in the order of creation
    Comments,  \* identifiers of comments
    Handlers,  \* concurrent requests
    Limit,     \* limit of a page
    MaxBegun,  \* bound on the requests that begin
    None       \* no row, no reaction, no parent

VARIABLES
    post,     \* the posts created, in order
    reaction, \* the reaction of each user to each post
    comment,  \* the comments
    work,     \* what each handler is at
    told,     \* what the last event of each kind said of a post
    reader,   \* the pages a client has read, with the cursor
    begun,    \* requests that have begun
    crossed   \* history: posts on which two handlers overlapped, 0 for a change under the reader

vars == <<post, reaction, comment, work, told, reader, begun, crossed>>

Posts == 1 .. MaxPosts
Idle == [pc |-> "idle"]
NewPost(u) == [author |-> u, pinned |-> FALSE, deleted |-> FALSE]
NoReader == [cursor |-> MaxPosts + 1, seen |-> <<>>, more |-> FALSE, open |-> FALSE]
Silent == [reactions |-> 0, comments |-> 0, pinned |-> FALSE, deleted |-> FALSE]
Comment == [post: Posts, parent: Comments \cup {None}, deleted: BOOLEAN]

FeedAssumption ==
    /\ IsFiniteSet(Users) /\ IsFiniteSet(Comments)
    /\ MaxPosts \in Nat /\ MaxBegun \in Nat /\ Limit \in Nat \ {0}
    /\ None \notin Types \cup Comments \cup Comment

TypeOK ==
    /\ Len(post) <= MaxPosts
    /\ \A p \in DOMAIN post : post[p] \in [author: Users, pinned: BOOLEAN, deleted: BOOLEAN]
    /\ reaction \in [Posts -> [Users -> Types \cup {None}]]
    /\ comment \in [Comments -> Comment \cup {None}]
    /\ \A h \in Handlers : work[h] = Idle \/ work[h].pc \in {"write", "read", "emit"}
    /\ told \in [Posts -> [reactions: Nat, comments: Nat, pinned: BOOLEAN, deleted: BOOLEAN]]
    /\ reader.cursor \in 0 .. MaxPosts + 1
    /\ begun \in 0 .. MaxBegun

Init ==
    /\ post = <<>>
    /\ reaction = [p \in Posts |-> [u \in Users |-> None]]
    /\ comment = [c \in Comments |-> None]
    /\ work = [h \in Handlers |-> Idle]
    /\ told = [p \in Posts |-> Silent]
    /\ reader = NoReader
    /\ begun = 0
    /\ crossed = {}

Live(p) == p \in DOMAIN post /\ ~post[p].deleted
LiveComments(p) == {c \in Comments : comment[c] # None /\ comment[c].post = p /\ ~comment[c].deleted}
Roots(p) == {c \in LiveComments(p) : comment[c].parent = None}

ReactionsOf(p) == Cardinality({u \in Users : reaction[p][u] # None})
\* countComments: what the events say.
countComments(p) == Cardinality(LiveComments(p))
\* mapPost: what is read, the replies under the comments that are shown.
CommentsRead(p) ==
    Cardinality(Roots(p) \cup {c \in LiveComments(p) : comment[c].parent \in Roots(p)})
-----------------------------------------------------------------------------
Reading == IF reader.open THEN {0} ELSE {}

\* create: the others in the room are told.
CreatePost ==
    /\ Len(post) < MaxPosts /\ begun < MaxBegun
    /\ begun' = begun + 1
    /\ \E u \in Users : post' = Append(post, NewPost(u))
    /\ UNCHANGED <<reaction, comment, work, told, reader, crossed>>

\* A request on a post, which must be there except for unreact.
Begin(h, p, task) ==
    /\ work[h] = Idle /\ p \in DOMAIN post /\ begun < MaxBegun
    /\ begun' = begun + 1
    /\ Live(p) \/ task.op = "unreact"
    /\ work' = [work EXCEPT ![h] = [pc |-> "write", post |-> p, task |-> task, says |-> None]]
    /\ crossed' = crossed \cup {q \in {p} : \E g \in Handlers : work[g] # Idle /\ work[g].post = p}
    /\ UNCHANGED <<post, reaction, comment, told, reader>>

BeginReact(h) == \E p \in Posts, u \in Users, t \in Types : Begin(h, p, [op |-> "react", user |-> u, type |-> t])
BeginUnreact(h) == \E p \in Posts, u \in Users : Begin(h, p, [op |-> "unreact", user |-> u, type |-> None])

\* addComment: a reply to a reply hangs from the comment above both.
ParentOf(c) == IF comment[c].parent = None THEN c ELSE comment[c].parent
BeginComment(h) ==
    \E p \in Posts, parent \in {None} \cup Comments :
        /\ parent # None => parent \in LiveComments(p)
        /\ Begin(h, p, [op |-> "comment", parent |-> IF parent = None THEN None ELSE ParentOf(parent)])

\* removeComment looks the comment up, and not the post.
BeginUncomment(h) ==
    \E p \in Posts, c \in Comments :
        /\ c \in LiveComments(p)
        /\ Begin(h, p, [op |-> "uncomment", comment |-> c])

\* togglePin keeps what it read; remove and update are the author's or an admin's.
BeginPin(h) == \E p \in Posts : Live(p) /\ Begin(h, p, [op |-> "pin", pinned |-> ~post[p].pinned])
BeginRemove(h) == \E p \in Posts : Begin(h, p, [op |-> "remove"])

At(h, pc, op) == work[h] # Idle /\ work[h].pc = pc /\ work[h].task.op = op
GoTo(h, pc) == work' = [work EXCEPT ![h].pc = pc]

\* The upsert, and the delete whose failure is swallowed.
WriteReaction(h) ==
    /\ \E op \in {"react", "unreact"} : At(h, "write", op)
    /\ reaction' = [reaction EXCEPT ![work[h].post][work[h].task.user] = work[h].task.type]
    /\ GoTo(h, "read")
    /\ UNCHANGED <<post, comment, told, reader, begun, crossed>>

WriteComment(h) ==
    /\ At(h, "write", "comment")
    /\ \E c \in Comments :
         /\ comment[c] = None
         /\ comment' = [comment EXCEPT ![c] =
                          [post |-> work[h].post, parent |-> work[h].task.parent, deleted |-> FALSE]]
    /\ GoTo(h, "read")
    /\ UNCHANGED <<post, reaction, told, reader, begun, crossed>>

DeleteComment(h) ==
    /\ At(h, "write", "uncomment")
    /\ comment' = [comment EXCEPT ![work[h].task.comment].deleted = TRUE]
    /\ GoTo(h, "read")
    /\ UNCHANGED <<post, reaction, told, reader, begun, crossed>>

WritePost(h) ==
    /\ \/ /\ At(h, "write", "pin")
          /\ post' = [post EXCEPT ![work[h].post].pinned = work[h].task.pinned]
       \/ /\ At(h, "write", "remove")
          /\ post' = [post EXCEPT ![work[h].post].deleted = TRUE]
    /\ work' = [work EXCEPT ![h].pc = "emit"]
    /\ crossed' = crossed \cup Reading
    /\ UNCHANGED <<reaction, comment, told, reader, begun>>

\* Mutant: only the comments that are not replies are counted.
ReadRoots(h) ==
    /\ work[h] # Idle /\ work[h].pc = "read"
    /\ work' = [work EXCEPT ![h] = [work[h] EXCEPT !.pc = "emit",
                  !.says = IF work[h].task.op \in {"react", "unreact"}
                              THEN ReactionsOf(work[h].post) ELSE Cardinality(Roots(work[h].post))]]
    /\ UNCHANGED <<post, reaction, comment, told, reader, begun, crossed>>

\* buildReactionPayload, countComments.
ReadBack(h) ==
    /\ work[h] # Idle /\ work[h].pc = "read"
    /\ work' = [work EXCEPT ![h] = [work[h] EXCEPT !.pc = "emit",
                  !.says = IF work[h].task.op \in {"react", "unreact"}
                              THEN ReactionsOf(work[h].post) ELSE countComments(work[h].post)]]
    /\ UNCHANGED <<post, reaction, comment, told, reader, begun, crossed>>

Emit(h) ==
    /\ work[h] # Idle /\ work[h].pc = "emit"
    /\ LET p == work[h].post
           op == work[h].task.op
       IN  told' = CASE op \in {"react", "unreact"} -> [told EXCEPT ![p].reactions = work[h].says]
                     [] op \in {"comment", "uncomment"} -> [told EXCEPT ![p].comments = work[h].says]
                     [] op = "pin" -> [told EXCEPT ![p].pinned = work[h].task.pinned]
                     [] OTHER -> [told EXCEPT ![p].deleted = TRUE]
    /\ work' = [work EXCEPT ![h] = Idle]
    /\ UNCHANGED <<post, reaction, comment, reader, begun, crossed>>
-----------------------------------------------------------------------------
(* findAll: the pinned ones first, then the newest; the next page is of    *)
(* what is older than the last one shown.                                  *)
Before(a, b) == IF post[a].pinned = post[b].pinned THEN a > b ELSE post[a].pinned
Shown(cursor) ==
    LET found == {p \in DOMAIN post : Live(p) /\ p < cursor} IN
      CHOOSE s \in [1 .. Cardinality(found) -> found] :
        \A i, j \in DOMAIN s : i < j => Before(s[i], s[j])

ReadPage ==
    /\ ~reader.open \/ reader.more
    /\ LET found == Shown(IF reader.open THEN reader.cursor ELSE MaxPosts + 1)
           page == SubSeq(found, 1, Min({Limit, Len(found)}))
       IN  reader' = [open |-> TRUE, more |-> Len(found) > Limit,
                      seen |-> (IF reader.open THEN reader.seen ELSE <<>>) \o page,
                      cursor |-> IF page = <<>> THEN 0 ELSE page[Len(page)]]
    /\ crossed' = IF reader.open THEN crossed ELSE crossed \ {0}
    /\ UNCHANGED <<post, reaction, comment, work, told, begun>>

LeaveFeed ==
    /\ reader.open
    /\ reader' = NoReader
    /\ UNCHANGED <<post, reaction, comment, work, told, begun, crossed>>

Next ==
    \/ CreatePost \/ ReadPage \/ LeaveFeed
    \/ \E h \in Handlers :
         \/ BeginReact(h) \/ BeginUnreact(h) \/ BeginComment(h) \/ BeginUncomment(h)
         \/ BeginPin(h) \/ BeginRemove(h)
         \/ WriteReaction(h) \/ WriteComment(h) \/ DeleteComment(h) \/ WritePost(h)
         \/ ReadBack(h) \/ Emit(h)

Spec == Init /\ [][Next]_vars
-----------------------------------------------------------------------------
Quiet(p) == p \notin crossed /\ \A h \in Handlers : work[h] # Idle => work[h].post # p
Orphans(p) == {c \in LiveComments(p) : comment[c].parent # None /\ comment[comment[c].parent].deleted}

\* What the last events said of a post is what a client that reads it finds,
\* unless two requests on it overlapped; for the comments, unless one with
\* replies was removed, which the events still count (react, addComment,
\* removeComment, togglePin, remove).
EventsStand ==
    \A p \in DOMAIN post : Quiet(p) =>
        /\ told[p].reactions = ReactionsOf(p)
        /\ Orphans(p) = {} => told[p].comments = CommentsRead(p)
        /\ told[p].pinned = post[p].pinned /\ told[p].deleted = post[p].deleted

\* A client that turns all the pages, nothing being pinned or removed
\* meanwhile, has seen every older post once, the pinned ones apart (findAll).
PagesShowAll ==
    (reader.open /\ ~reader.more /\ 0 \notin crossed /\ \A p \in DOMAIN post : ~post[p].pinned) =>
        /\ IsInjective(reader.seen)
        /\ reader.seen # <<>> =>
             {p \in DOMAIN post : Live(p) /\ p <= reader.seen[1]} = Range(reader.seen)

FeedIsTold == EventsStand /\ PagesShowAll
=============================================================================
