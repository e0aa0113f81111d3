------------------------------ MODULE Community ------------------------------
(***************************************************************************)
(* Posts, polls, comments and likes: community.service.ts of the           *)
(* application and of the staff.                                           *)
(*                                                                         *)
(* Nothing is done in a transaction.  A like or a vote is looked up and    *)
(* then created, changed or deleted; an edit of a poll deletes the options *)
(* and creates new ones; a comment's parent is read before the comment is  *)
(* written.  A refused request changes nothing and is no step.             *)
(*                                                                         *)
(* All accounts are active.  Texts, attachments, shares, reports and the   *)
(* pages of the lists are left out.                                        *)
(***************************************************************************)
EXTENDS Naturals, FiniteSets

CONSTANTS
  Users,
  Posts,
  Rows,         \* bound on the options, votes, comments and likes there are
  Statuses,     \* the statuses the staff give
  Requests,     \* requests that may be in flight together
  MaxRequests,  \* bound on the requests of a behaviour
  MaxOptions,   \* bound on the options a request names
  None          \* a null reference or an absent row

PostStatus == {"APPROVED", "REQUEST", "REJECTED", "FLAGGED", "ANNOUNCEMENT"}

ASSUME CommunityAssumption ==
  /\ MaxRequests \in Nat /\ MaxOptions \in Nat /\ Statuses \subseteq PostStatus
  /\ Rows \in Nat
  /\ None \notin Users \cup Posts \cup 1..Rows /\ Posts \cap 1..Rows = {}

Options == 1..Rows
Votes == 1..Rows
Comments == 1..Rows
Likes == 1..Rows

VARIABLES
  post,     \* the community_posts table
  option,   \* the post of each poll option
  vote,     \* the community_poll_votes table
  comment,  \* the community_comments table
  like,     \* the community_likes table
  request,  \* the requests in flight
  handled,  \* the number of requests so far
  named,    \* history: the options a poll was last given
  raced,    \* history: what two requests of a user did at the same time
  crossed,  \* history: votes asked for under one post, for another's option
  cut       \* history: polls whose edit stopped half way

vars == <<post, option, vote, comment, like, request, handled, named, raced,
          crossed, cut>>

-----------------------------------------------------------------------------
(* Rows and requests *)

\* audience: whom the author shows the post to, everybody when it is PUBLIC and
\* otherwise the allowed friends.
CommunityPost ==
  [author   : Users \cup {None},
   poll     : BOOLEAN,
   status   : PostStatus,
   audience : SUBSET Users]

PollVote == [user : Users \cup {None}, option : Options \cup {None}]

CommunityComment ==
  [post    : Posts \cup {None},
   user    : Users \cup {None},
   parent  : Comments \cup {None},
   deleted : BOOLEAN]

CommunityLike == [user : Users \cup {None}, on : Posts \cup Comments \cup {None}]

\* "on" is the post or comment a request is about, "row" the row it has found
\* and "to" the option or parent it names; "size" counts new options.
Request ==
  [pc   : {"idle", "edit", "like", "vote", "comment", "soft"},
   user : Users \cup {None},
   on   : Posts \cup Comments \cup {None},
   row  : Votes \cup Likes \cup {None},
   to   : Options \cup Comments \cup {None},
   size : 0..MaxOptions]

NoPost ==
  [author |-> None, poll |-> FALSE, status |-> "REQUEST", audience |-> {}]
NoVote == [user |-> None, option |-> None]
NoComment == [post |-> None, user |-> None, parent |-> None, deleted |-> FALSE]
NoLike == [user |-> None, on |-> None]
Idle ==
  [pc |-> "idle", user |-> None, on |-> None, row |-> None, to |-> None, size |-> 0]

Exists(p) == post[p] # NoPost
OptionsOf(p) == {o \in Options : option[o] = p}
VotesOf(u, p) == {v \in Votes : vote[v].user = u /\ vote[v].option \in OptionsOf(p)}
CommentsOf(p) == {c \in Comments : comment[c].post = p}
Replies(c) == {d \in Comments : comment[d].parent = c}
LikesOf(u, x) == {l \in Likes : like[l] = [user |-> u, on |-> x]}

\* An identifier is new when no row has it and no request remembers it; which
\* of the new ones a row gets is all the same.
New(S, n) ==
  LET new == {x \in S : \A r \in Requests :
                          x \notin {request[r].on, request[r].row, request[r].to}}
  IN  {x \in new : Cardinality({y \in new : y < x}) < n}
NewOptions(n) == New({o \in Options : option[o] = None}, n)
NewVote == New({v \in Votes : vote[v] = NoVote}, 1)
NewComment == New({c \in Comments : comment[c] = NoComment}, 1)
NewLike == New({l \in Likes : like[l] = NoLike}, 1)

Counted == handled < MaxRequests /\ handled' = handled + 1

Start(r, req) ==
  /\ request[r] = Idle /\ Counted
  /\ request' = [request EXCEPT ![r] = req]

\* The request has written; another of the same user on the same thing is late.
Finish(r) ==
  LET about == {q \in Requests \ {r} :
        /\ request[q].pc = request[r].pc
        /\ request[q].user = request[r].user
        /\ request[q].on = request[r].on}
  IN  /\ request' = [request EXCEPT ![r] = Idle]
      /\ raced' = IF about = {} THEN raced
                  ELSE raced \cup {<<request[r].pc, request[r].user, request[r].on>>}
      /\ UNCHANGED handled

\* A query throws, a row it needs is gone, or the server restarts.
Abort(r) ==
  /\ request[r] # Idle
  /\ request' = [request EXCEPT ![r] = Idle]
  /\ cut' = IF request[r].pc = "edit" THEN cut \cup {request[r].on} ELSE cut
  /\ UNCHANGED <<post, option, vote, comment, like, handled, named, raced, crossed>>

-----------------------------------------------------------------------------
(* Posts *)

\* The poll p gets n new options.
Names(p, n) ==
  /\ option' = [o \in Options |-> IF o \in NewOptions(n) THEN p ELSE option[o]]
  /\ named' = [named EXCEPT ![p] = NewOptions(n)]

\* A poll names two options at least; n is 0 for another post.
NewPost(p, u, status, A, n) ==
  /\ Counted
  /\ ~Exists(p) /\ \A r \in Requests : request[r].on # p
  /\ n # 1 /\ Cardinality(NewOptions(n)) = n
  /\ post' = [post EXCEPT ![p] =
       [author |-> u, poll |-> n > 0, status |-> status, audience |-> A]]
  /\ Names(p, n)
  /\ UNCHANGED <<vote, comment, like, request, raced, crossed, cut>>

\* createPost, by a student: the post waits for approval.
CreatePost(p, u, A, n) ==
  A \subseteq Users \ {u} /\ NewPost(p, u, "REQUEST", A, n)

\* create, by the staff: an announcement to everybody.
Announce(p, u, n) == NewPost(p, u, "ANNOUNCEMENT", Users \ {u}, n)

\* updatePost, when it names no options of a poll: the status stays.
UpdatePost(p, A) ==
  /\ Counted /\ Exists(p)
  /\ A \subseteq Users \ {post[p].author}
  /\ post' = [post EXCEPT ![p].audience = A]
  /\ UNCHANGED <<option, vote, comment, like, request, named, raced, crossed, cut>>

\* Deleting options deletes their votes.
Without(O) ==
  /\ option' = [o \in Options |-> IF o \in O THEN None ELSE option[o]]
  /\ vote' = [v \in Votes |-> IF vote[v].option \in O THEN NoVote ELSE vote[v]]

\* Mutant of DropOptions: the old options stay.
KeepOptions(r, p, n) ==
  /\ post[p].poll
  /\ Start(r, [Idle EXCEPT !.pc = "edit", !.user = post[p].author, !.on = p, !.size = n])
  /\ Without({})
  /\ UNCHANGED <<post, comment, like, named, raced, crossed, cut>>

\* When it does, the old options go first; how many new ones is not asked.
DropOptions(r, p, n) ==
  /\ post[p].poll
  /\ Start(r, [Idle EXCEPT !.pc = "edit", !.user = post[p].author, !.on = p, !.size = n])
  /\ Without(OptionsOf(p))
  /\ UNCHANGED <<post, comment, like, named, raced, crossed, cut>>

AddOptions(r, A) ==
  LET p == request[r].on
      n == request[r].size
  IN  /\ request[r].pc = "edit" /\ Exists(p)
      /\ Cardinality(NewOptions(n)) = n
      /\ A \subseteq Users \ {post[p].author}
      /\ post' = [post EXCEPT ![p].audience = A]
      /\ Names(p, n)
      /\ Finish(r)
      /\ UNCHANGED <<vote, comment, like, crossed, cut>>

\* changePostStatus, by the staff.
ChangePostStatus(p, status) ==
  /\ Counted /\ Exists(p)
  /\ post' = [post EXCEPT ![p].status = status]
  /\ UNCHANGED <<option, vote, comment, like, request, named, raced, crossed, cut>>

\* deletePost, by the author or the staff, and all that hangs on the post.
DeletePost(p) ==
  LET C == CommentsOf(p)
  IN  /\ Counted /\ Exists(p)
      /\ post' = [post EXCEPT ![p] = NoPost]
      /\ Without(OptionsOf(p))
      /\ comment' = [c \in Comments |-> IF c \in C THEN NoComment ELSE comment[c]]
      /\ like' = [l \in Likes |-> IF like[l].on \in C \cup {p} THEN NoLike ELSE like[l]]
      /\ named' = [named EXCEPT ![p] = {}]
      /\ raced' = {x \in raced : x[3] \notin C \cup {p}}
      /\ crossed' = {x \in crossed : x[2] # p}
      /\ cut' = cut \ {p}
      /\ UNCHANGED request

\* Who finds a post in the feed; ensurePostAccess asks the same.
Sees(u, p) ==
  \/ post[p].author = u
  \/ /\ post[p].status \in {"APPROVED", "ANNOUNCEMENT", "FLAGGED"}
     /\ u \in post[p].audience

-----------------------------------------------------------------------------
(* Likes and votes *)

\* likePost looks at no access, likeCommentOrReply does.
ReadLike(r, u, x) ==
  /\ x \in Posts => Exists(x)
  /\ x \in Comments => /\ comment[x] # NoComment /\ ~comment[x].deleted
                       /\ Sees(u, comment[x].post)
  /\ \E l \in IF LikesOf(u, x) = {} THEN {None} ELSE LikesOf(u, x) :
       Start(r, [Idle EXCEPT !.pc = "like", !.user = u, !.on = x, !.row = l])
  /\ UNCHANGED <<post, option, vote, comment, like, named, raced, crossed, cut>>

Like(r) ==
  LET x == request[r].on
  IN  /\ request[r].pc = "like" /\ request[r].row = None
      /\ IF x \in Posts THEN Exists(x) ELSE comment[x] # NoComment
      /\ \E l \in NewLike : like' = [like EXCEPT ![l] = [user |-> request[r].user, on |-> x]]
      /\ Finish(r)
      /\ UNCHANGED <<post, option, vote, comment, named, crossed, cut>>

Unlike(r) ==
  /\ request[r].pc = "like" /\ request[r].row # None
  /\ like[request[r].row] # NoLike
  /\ like' = [like EXCEPT ![request[r].row] = NoLike]
  /\ Finish(r)
  /\ UNCHANGED <<post, option, vote, comment, named, crossed, cut>>

\* voteOnAPoll looks for a vote under the post, but not whether the option is
\* one of the post's.  A vote for that option will be withdrawn.
ReadVote(r, u, p, o) ==
  /\ \E v \in IF VotesOf(u, p) = {} THEN {None} ELSE VotesOf(u, p) :
       LET same == v # None /\ vote[v].option = o
       IN  Start(r, [Idle EXCEPT !.pc = "vote", !.user = u, !.on = p, !.row = v,
                                 !.to = IF same THEN None ELSE o])
  /\ UNCHANGED <<post, option, vote, comment, like, named, raced, crossed, cut>>

\* The option is there, and no other vote of the user has it:
\* @@unique([user_id, option_id]).
Cast(r, v) ==
  LET cast == [user |-> request[r].user, option |-> request[r].to]
      p == option[cast.option]
  IN  /\ p # None /\ \A w \in Votes \ {v} : vote[w] # cast
      /\ vote' = [vote EXCEPT ![v] = cast]
      /\ crossed' = IF p = request[r].on THEN crossed ELSE crossed \cup {<<cast.user, p>>}
      /\ Finish(r)
      /\ UNCHANGED <<post, option, comment, like, named, cut>>

Vote(r) ==
  /\ request[r].pc = "vote" /\ request[r].row = None
  /\ \E v \in NewVote : Cast(r, v)

\* Mutant of ChangeVote: the new vote is created beside the old one.
VoteAgain(r) ==
  /\ request[r].pc = "vote" /\ request[r].row # None /\ request[r].to # None
  /\ \E v \in NewVote : Cast(r, v)

ChangeVote(r) ==
  /\ request[r].pc = "vote" /\ request[r].row # None /\ request[r].to # None
  /\ vote[request[r].row] # NoVote
  /\ Cast(r, request[r].row)

Unvote(r) ==
  /\ request[r].pc = "vote" /\ request[r].to = None
  /\ vote[request[r].row] # NoVote
  /\ vote' = [vote EXCEPT ![request[r].row] = NoVote]
  /\ Finish(r)
  /\ UNCHANGED <<post, option, comment, like, named, crossed, cut>>

-----------------------------------------------------------------------------
(* Comments *)

\* Mutant of Thread: a reply to a reply hangs under the reply.
ThreadOfReply(c) == c

\* A reply to a reply is put under the comment that starts the thread.
Thread(c) == IF c = None \/ comment[c].parent = None THEN c ELSE comment[c].parent

\* commentPost: c is the comment to reply to, if any.
ReadComment(r, u, p, c) ==
  /\ Exists(p) /\ Sees(u, p)
  /\ c # None => comment[c].post = p /\ ~comment[c].deleted
  /\ Start(r, [Idle EXCEPT !.pc = "comment", !.user = u, !.on = p, !.to = Thread(c)])
  /\ UNCHANGED <<post, option, vote, comment, like, named, raced, crossed, cut>>

\* The thread may have been deleted in between, but not its row.
CommentPost(r) ==
  LET p == request[r].on
      parent == request[r].to
  IN  /\ request[r].pc = "comment" /\ Exists(p)
      /\ parent # None => comment[parent] # NoComment
      /\ \E c \in NewComment : comment' = [comment EXCEPT ![c] =
           [post |-> p, user |-> request[r].user, parent |-> parent, deleted |-> FALSE]]
      /\ request' = [request EXCEPT ![r] = Idle]
      /\ UNCHANGED <<post, option, vote, like, handled, named, raced, crossed, cut>>

\* deleteComment, by its user or the author of the post: the row goes,
\* unless it has replies (onDelete: Restrict) ...
DeleteComment(r, u, c) ==
  /\ comment[c] # NoComment
  /\ u \in {comment[c].user, post[comment[c].post].author}
  /\ IF Replies(c) = {}
       THEN /\ Counted
            /\ comment' = [comment EXCEPT ![c] = NoComment]
            /\ like' = [l \in Likes |-> IF like[l].on = c THEN NoLike ELSE like[l]]
            /\ raced' = {x \in raced : x[3] # c}
            /\ UNCHANGED request
       ELSE /\ Start(r, [Idle EXCEPT !.pc = "soft", !.user = u, !.on = c])
            /\ UNCHANGED <<comment, like, raced>>
  /\ UNCHANGED <<post, option, vote, named, crossed, cut>>

\* ... and is then marked.
MarkDeleted(r) ==
  LET c == request[r].on
  IN  /\ request[r].pc = "soft"
      /\ comment[c] # NoComment
      /\ comment' = [comment EXCEPT ![c].deleted = TRUE]
      /\ request' = [request EXCEPT ![r] = Idle]
      /\ UNCHANGED <<post, option, vote, like, handled, named, raced, crossed, cut>>

\* getComments: the threads and, under each, its replies.
Listed(p) ==
  LET threads == {c \in CommentsOf(p) : comment[c].parent = None}
  IN  threads \cup UNION {Replies(c) : c \in threads}

-----------------------------------------------------------------------------
(* The system *)

Init ==
  /\ post = [p \in Posts |-> NoPost]
  /\ option = [o \in Options |-> None]
  /\ vote = [v \in Votes |-> NoVote]
  /\ comment = [c \in Comments |-> NoComment]
  /\ like = [l \in Likes |-> NoLike]
  /\ request = [r \in Requests |-> Idle]
  /\ handled = 0
  /\ named = [p \in Posts |-> {}]
  /\ raced = {} /\ crossed = {} /\ cut = {}

PostStep ==
  \E p \in Posts :
    \/ \E u \in Users, A \in SUBSET Users, n \in 0..MaxOptions : CreatePost(p, u, A, n)
    \/ \E u \in Users, n \in 0..MaxOptions : Announce(p, u, n)
    \/ \E A \in SUBSET Users : UpdatePost(p, A)
    \/ \E r \in Requests, n \in 0..MaxOptions : DropOptions(r, p, n)
    \/ \E status \in Statuses : ChangePostStatus(p, status)
    \/ DeletePost(p)

EditStep(r) ==
  \E A \in SUBSET Users : AddOptions(r, A)

LikeStep(r) ==
  \/ \E u \in Users, x \in Posts \cup Comments : ReadLike(r, u, x)
  \/ Like(r)
  \/ Unlike(r)

VoteStep(r) ==
  \/ \E u \in Users, p \in Posts, o \in Options : ReadVote(r, u, p, o)
  \/ Vote(r)
  \/ ChangeVote(r)
  \/ Unvote(r)

CommentStep(r) ==
  \/ \E u \in Users, p \in Posts, c \in Comments \cup {None} : ReadComment(r, u, p, c)
  \/ CommentPost(r)
  \/ \E u \in Users, c \in Comments : DeleteComment(r, u, c)
  \/ MarkDeleted(r)

Next ==
  \/ PostStep
  \/ \E r \in Requests :
       EditStep(r) \/ LikeStep(r) \/ VoteStep(r) \/ CommentStep(r) \/ Abort(r)

Spec == Init /\ [][Next]_vars

-----------------------------------------------------------------------------
(* Properties *)

\* The type invariant; what hangs on a row goes with it.
TypeOK ==
  /\ post \in [Posts -> CommunityPost]
  /\ option \in [Options -> Posts \cup {None}]
  /\ vote \in [Votes -> PollVote]
  /\ comment \in [Comments -> CommunityComment]
  /\ like \in [Likes -> CommunityLike]
  /\ request \in [Requests -> Request]
  /\ handled \in 0..MaxRequests
  /\ named \in [Posts -> SUBSET Options]
  /\ raced \subseteq {"like", "vote", "edit"} \X Users \X (Posts \cup Comments)
  /\ crossed \subseteq Users \X Posts
  /\ cut \subseteq Posts
  /\ \A o \in Options : option[o] # None => Exists(option[o])
  /\ \A v \in Votes : vote[v] # NoVote => option[vote[v].option] # None
  /\ \A l \in Likes : like[l].on \in Comments => comment[like[l].on] # NoComment

\* A user has one vote in a poll, however often it is changed and withdrawn,
\* unless two of his votes were handled at the same time, or one was asked for
\* under another post than the option's.  A post or a comment counts his like
\* once, unless he gave two at the same time: the next one takes one back.
OneVoteAndOneLike ==
  \A u \in Users :
    /\ \A p \in Posts :
         Cardinality(VotesOf(u, p)) > 1 => <<"vote", u, p>> \in raced \/ <<u, p>> \in crossed
    /\ \A x \in Posts \cup Comments :
         Cardinality(LikesOf(u, x)) > 1 => <<"like", u, x>> \in raced

\* A poll has the options it was last given, and no vote of an earlier option,
\* unless its author edits it, edited it twice at the same time, or an edit
\* stopped when the old options had gone.
PollIsAsNamed ==
  \A p \in Posts :
    \/ OptionsOf(p) = named[p]
    \/ \E r \in Requests : request[r].pc = "edit" /\ request[r].on = p
    \/ <<"edit", post[p].author, p>> \in raced
    \/ p \in cut

\* Every comment of a post is in its list, for a reply is put under the
\* comment that starts the thread and this one stays while it has replies,
\* also when it is deleted while someone replies.
EveryCommentIsListed == \A p \in Posts : CommentsOf(p) \subseteq Listed(p)

-----------------------------------------------------------------------------
(* The inductive invariant of the proofs *)

\* A post has an author, a vote a voter and an option, a comment a post.
RowsAreWhole ==
  /\ \A p \in Posts : Exists(p) => post[p].author \in Users
  /\ \A v \in Votes : vote[v] # NoVote => vote[v].user \in Users /\ vote[v].option \in Options
  /\ \A c \in Comments : comment[c] # NoComment =>
       comment[c].post \in Posts /\ Exists(comment[c].post)

\* A reply is to a comment of the same post that starts a thread.
RepliesAreInThreads ==
  \A c, d \in Comments : comment[c].parent = d =>
    comment[d] # NoComment /\ comment[d].post = comment[c].post /\ comment[d].parent = None

OneVote ==
  \A u \in Users, p \in Posts :
    <<"vote", u, p>> \in raced \/ <<u, p>> \in crossed \/ \A v, w \in VotesOf(u, p) : v = w

OneLike ==
  \A u \in Users, x \in Posts \cup Comments :
    <<"like", u, x>> \in raced \/ \A k, l \in LikesOf(u, x) : k = l

\* A request has what it works on, and nobody else edits a post.
RequestIsSound(r) ==
  LET q == request[r]
  IN  /\ q.pc = "idle" => q = Idle
      /\ q.pc \in {"edit", "like", "vote"} => q.user \in Users
      /\ q.pc \in {"edit", "vote", "comment"} => q.on \in Posts
      /\ q.pc = "like" => q.on \in Posts \cup Comments
      /\ q.pc = "soft" => q.on \in Comments
      /\ q.pc = "edit" /\ Exists(q.on) => q.user = post[q.on].author
      /\ q.pc = "vote" /\ q.row = None => q.to # None

\* What a request has read is still so, unless another overtook it: the old
\* options are gone, it has found the only vote or like there is, and the
\* comment it replies to, if still there, starts a thread of the post.
RequestKnows(r) ==
  LET q == request[r]
  IN  /\ q.pc = "edit" /\ <<"edit", q.user, q.on>> \notin raced => OptionsOf(q.on) = {}
      /\ q.pc = "vote" /\ <<"vote", q.user, q.on>> \notin raced /\ <<q.user, q.on>> \notin crossed
           => VotesOf(q.user, q.on) \subseteq {q.row}
      /\ q.pc = "like" /\ <<"like", q.user, q.on>> \notin raced
           => LikesOf(q.user, q.on) \subseteq {q.row}
      /\ q.pc = "comment" /\ q.to # None /\ comment[q.to] # NoComment
           => comment[q.to].post = q.on /\ comment[q.to].parent = None

IInv ==
  /\ TypeOK /\ RowsAreWhole /\ RepliesAreInThreads
  /\ PollIsAsNamed /\ OneVote /\ OneLike
  /\ \A r \in Requests : RequestIsSound(r) /\ RequestKnows(r)
=============================================================================
