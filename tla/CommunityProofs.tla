---------------------------- MODULE CommunityProofs ----------------------------
(***************************************************************************)
(* Proofs about Community, for any users, posts, requests and bounds.  For *)
(* each user and each thing he votes in, likes or edits, a step either     *)
(* leaves no more rows than there were or notes that it came too late; so  *)
(* what a request has found is still all there is when it writes.          *)
(***************************************************************************)
EXTENDS Community, FiniteSetTheorems, TLAPS

LEMMA RequestFields ==
  ASSUME TypeOK, NEW r \in Requests
  PROVE  /\ request[r] \in Request
         /\ request[r].user \in Users \cup {None}
         /\ request[r].on \in Posts \cup Comments \cup {None}
         /\ request[r].row \in Votes \cup Likes \cup {None}
         /\ request[r].to \in Options \cup Comments \cup {None}
         /\ request[r].size \in 0..MaxOptions
<1>1. request[r] \in Request
  BY DEF TypeOK
<1> QED
  BY <1>1 DEF Request

LEMMA IdleIsARequest ==
  /\ Idle \in Request /\ Idle.pc = "idle" /\ Idle.user = None /\ Idle.on = None
  /\ Idle.row = None /\ Idle.to = None /\ Idle.size = 0
BY CommunityAssumption DEF Idle, Request

LEMMA NoRows ==
  /\ NoPost \in CommunityPost /\ NoPost.author = None /\ NoPost.poll = FALSE
  /\ NoVote \in PollVote /\ NoVote.user = None /\ NoVote.option = None
  /\ NoComment \in CommunityComment /\ NoComment.post = None /\ NoComment.parent = None
  /\ NoLike \in CommunityLike /\ NoLike.user = None /\ NoLike.on = None
BY DEF NoPost, NoVote, NoComment, NoLike, CommunityPost, PollVote, CommunityComment,
       CommunityLike, PostStatus

\* The kinds of identifiers are told apart, but for rows of different tables.
LEMMA Identifiers ==
  /\ None \notin Users /\ None \notin Posts /\ None \notin Options /\ None \notin Votes
  /\ None \notin Comments /\ None \notin Likes
  /\ Options = Votes /\ Options = Comments /\ Options = Likes
  /\ Posts \cap Comments = {}
BY CommunityAssumption DEF Options, Votes, Comments, Likes

\* Sets of which any two members are equal have one member at most.
LEMMA AtMostOne ==
  ASSUME NEW S, \A x, y \in S : x = y
  PROVE  ~(Cardinality(S) > 1)
<1>1. CASE S = {}
  BY <1>1, FS_EmptySet
<1>2. CASE S # {}
  <2>1. PICK x \in S : S = {x}
    BY <1>2
  <2>2. Cardinality({x}) = 1
    BY FS_Singleton
  <2> QED
    BY <2>1, <2>2
<1> QED
  BY <1>1, <1>2

\* What belongs to a row that is there.
LEMMA RowsBelong ==
  ASSUME IInv
  PROVE  /\ \A p \in Posts : ~Exists(p) => OptionsOf(p) = {} /\ CommentsOf(p) = {}
         /\ \A o \in Options : option[o] # None => option[o] \in Posts /\ Exists(option[o])
         /\ \A p \in Posts : \A o \in OptionsOf(p) : option[o] # None
         /\ \A u \in Users, p \in Posts : \A v \in VotesOf(u, p) :
              vote[v] # NoVote /\ vote[v].option \in Options /\ option[vote[v].option] = p
         /\ \A p \in Posts : \A c \in CommentsOf(p) : comment[c] # NoComment
<1>1. \A o \in Options : option[o] # None => option[o] \in Posts /\ Exists(option[o])
  BY DEF IInv, TypeOK
<1>2. \A p \in Posts : \A c \in CommentsOf(p) : comment[c] # NoComment
  BY NoRows, Identifiers DEF CommentsOf
<1>3. \A p \in Posts : ~Exists(p) => OptionsOf(p) = {} /\ CommentsOf(p) = {}
  BY <1>1, <1>2, Identifiers DEF OptionsOf, CommentsOf, IInv, RowsAreWhole
<1>4. \A p \in Posts : \A o \in OptionsOf(p) : option[o] # None
  BY Identifiers DEF OptionsOf
<1>5. \A u \in Users, p \in Posts : \A v \in VotesOf(u, p) :
        vote[v] # NoVote /\ vote[v].option \in Options /\ option[vote[v].option] = p
  BY NoRows, Identifiers DEF VotesOf, OptionsOf
<1> QED
  BY <1>1, <1>2, <1>3, <1>4, <1>5

LEMMA NewRows ==
  /\ \A n : NewOptions(n) \subseteq {o \in Options : option[o] = None}
  /\ NewVote \subseteq {v \in Votes : vote[v] = NoVote}
  /\ NewLike \subseteq {l \in Likes : like[l] = NoLike}
  /\ NewComment \subseteq {c \in Comments : comment[c] = NoComment}
  /\ \A c \in NewComment : \A r \in Requests : request[r].to # c
BY DEF NewOptions, NewVote, NewLike, NewComment, New

-----------------------------------------------------------------------------
(* What a step leaves of what requests have read *)

\* A user has no more votes in a poll, likes of a thing or options in a post
\* than before, or the step, or an earlier one, came too late.
FewerVotes(u, p) ==
  \/ VotesOf(u, p)' = {} \/ <<"vote", u, p>> \in raced' \/ <<u, p>> \in crossed'
  \/ /\ VotesOf(u, p)' \subseteq VotesOf(u, p)
     /\ <<"vote", u, p>> \notin raced /\ <<u, p>> \notin crossed

FewerLikes(u, x) ==
  \/ LikesOf(u, x)' = {} \/ <<"like", u, x>> \in raced'
  \/ LikesOf(u, x)' \subseteq LikesOf(u, x) /\ <<"like", u, x>> \notin raced

FewerOptions(u, p) ==
  \/ OptionsOf(p)' = {} \/ <<"edit", u, p>> \in raced'
  \/ OptionsOf(p)' \subseteq OptionsOf(p) /\ <<"edit", u, p>> \notin raced

Fewer ==
  /\ \A u \in Users, p \in Posts : FewerVotes(u, p) /\ FewerOptions(u, p)
  /\ \A u \in Users, x \in Posts \cup Comments : FewerLikes(u, x)

LEMMA VotesStayOne ==
  ASSUME IInv, NEW u \in Users, NEW p \in Posts, FewerVotes(u, p),
         <<"vote", u, p>> \notin raced', <<u, p>> \notin crossed'
  PROVE  \A v, w \in VotesOf(u, p)' : v = w
BY DEF IInv, OneVote, FewerVotes

LEMMA LikesStayOne ==
  ASSUME IInv, NEW u \in Users, NEW x \in Posts \cup Comments, FewerLikes(u, x),
         <<"like", u, x>> \notin raced'
  PROVE  \A k, l \in LikesOf(u, x)' : k = l
BY DEF IInv, OneLike, FewerLikes

\* Whoever has an author keeps him, and comments stay where they are.
PostsStay ==
  \A p \in Posts : Exists(p)' => Exists(p) /\ post'[p].author = post[p].author

ThreadsStay ==
  \A d \in Comments : comment'[d] # NoComment =>
    /\ comment[d] # NoComment
    /\ comment'[d].post = comment[d].post /\ comment'[d].parent = comment[d].parent

\* A request that is left alone still knows what it knew.
LEMMA KnowsStays ==
  ASSUME IInv, NEW q \in Requests, request'[q] = request[q],
         request[q].pc = "edit" =>
           \A p \in Posts : p = request[q].on /\ Exists(p)' =>
             Exists(p) /\ post'[p].author = post[p].author,
         request[q].pc = "edit" =>
           \A u \in Users, p \in Posts :
             u = request[q].user /\ p = request[q].on => FewerOptions(u, p),
         request[q].pc = "vote" =>
           \A u \in Users, p \in Posts :
             u = request[q].user /\ p = request[q].on => FewerVotes(u, p),
         request[q].pc = "like" =>
           \A u \in Users, x \in Posts \cup Comments :
             u = request[q].user /\ x = request[q].on => FewerLikes(u, x),
         request[q].pc = "comment" =>
           \A d \in Comments : d = request[q].to /\ comment'[d] # NoComment =>
             /\ comment[d] # NoComment
             /\ comment'[d].post = comment[d].post /\ comment'[d].parent = comment[d].parent
  PROVE  RequestIsSound(q)' /\ RequestKnows(q)'
<1>1. RequestIsSound(q) /\ RequestKnows(q)
  BY DEF IInv
<1>2. PICK u, x, to, row : u = request[q].user /\ x = request[q].on /\ to = request[q].to
                           /\ row = request[q].row
  OBVIOUS
<1>3. request'[q].user = u /\ request'[q].on = x /\ request'[q].to = to /\ request'[q].row = row
      /\ request'[q].pc = request[q].pc
  BY <1>2
<1>4. RequestIsSound(q)'
  BY <1>1, <1>2, <1>3 DEF RequestIsSound, Exists
<1>5. ASSUME request[q].pc = "edit", <<"edit", u, x>> \notin raced'
      PROVE  OptionsOf(x)' = {}
  <2>1. u \in Users /\ x \in Posts
    BY <1>1, <1>2, <1>5 DEF RequestIsSound
  <2>2. FewerOptions(u, x)
    BY <1>2, <1>5, <2>1
  <2> QED
    BY <1>1, <1>2, <1>5, <2>2 DEF RequestKnows, FewerOptions
<1>6. ASSUME request[q].pc = "vote", <<"vote", u, x>> \notin raced', <<u, x>> \notin crossed'
      PROVE  VotesOf(u, x)' \subseteq {row}
  <2>1. u \in Users /\ x \in Posts
    BY <1>1, <1>2, <1>6 DEF RequestIsSound
  <2>2. FewerVotes(u, x)
    BY <1>2, <1>6, <2>1
  <2> QED
    BY <1>1, <1>2, <1>6, <2>2 DEF RequestKnows, FewerVotes
<1>7. ASSUME request[q].pc = "like", <<"like", u, x>> \notin raced'
      PROVE  LikesOf(u, x)' \subseteq {row}
  <2>1. u \in Users /\ x \in Posts \cup Comments
    BY <1>1, <1>2, <1>7 DEF RequestIsSound
  <2>2. FewerLikes(u, x)
    BY <1>2, <1>7, <2>1
  <2> QED
    BY <1>1, <1>2, <1>7, <2>2 DEF RequestKnows, FewerLikes
<1>8. ASSUME request[q].pc = "comment", to # None, comment'[to] # NoComment
      PROVE  comment'[to].post = x /\ comment'[to].parent = None
  <2>1. to \in Comments
    BY <1>2, <1>8, RequestFields, Identifiers DEF IInv
  <2> QED
    BY <1>1, <1>2, <1>8, <2>1 DEF RequestKnows
<1> QED
  BY <1>3, <1>4, <1>5, <1>6, <1>7, <1>8 DEF RequestKnows, OptionsOf, VotesOf, LikesOf

\* The part of TypeOK that is about the rows that hang on others.
RowTypes ==
  /\ option \in [Options -> Posts \cup {None}]
  /\ vote \in [Votes -> PollVote]
  /\ comment \in [Comments -> CommunityComment]
  /\ like \in [Likes -> CommunityLike]
  /\ \A o \in Options : option[o] # None => Exists(option[o])
  /\ \A v \in Votes : vote[v] # NoVote => option[vote[v].option] # None
  /\ \A l \in Likes : like[l].on \in Comments => comment[like[l].on] # NoComment

NoteTypes ==
  /\ handled \in 0..MaxRequests
  /\ named \in [Posts -> SUBSET Options]
  /\ raced \subseteq {"like", "vote", "edit"} \X Users \X (Posts \cup Comments)
  /\ crossed \subseteq Users \X Posts
  /\ cut \subseteq Posts

LEMMA Types ==
  TypeOK <=> /\ post \in [Posts -> CommunityPost] /\ request \in [Requests -> Request]
             /\ RowTypes /\ NoteTypes
BY DEF TypeOK, RowTypes, NoteTypes

\* The invariants of the rows, when no post comes or goes or changes hands.
LEMMA RowsStay ==
  ASSUME IInv, UNCHANGED <<option, vote, comment, like>>,
         \A p \in Posts : post'[p].author = post[p].author /\ (Exists(p)' <=> Exists(p))
  PROVE  RowTypes' /\ RowsAreWhole' /\ RepliesAreInThreads' /\ ThreadsStay
<1>1. RowTypes
  BY Types DEF IInv
<1>2. \A o \in Options : option[o] # None => Exists(option[o])'
  BY <1>1, RowsBelong DEF Exists
<1>3. RowTypes'
  BY <1>1, <1>2 DEF RowTypes, Exists
<1>4. RowsAreWhole'
  BY DEF IInv, RowsAreWhole, Exists
<1>5. RepliesAreInThreads' /\ ThreadsStay
  BY DEF IInv, RepliesAreInThreads, ThreadsStay
<1> QED
  BY <1>3, <1>4, <1>5

LEMMA FewerVotesStays ==
  ASSUME NEW u \in Users, NEW p \in Posts, UNCHANGED <<option, vote, crossed>>,
         <<"vote", u, p>> \in raced => <<"vote", u, p>> \in raced'
  PROVE  FewerVotes(u, p)
BY DEF FewerVotes, VotesOf, OptionsOf

LEMMA FewerLikesStays ==
  ASSUME NEW u \in Users, NEW x \in Posts \cup Comments, UNCHANGED like,
         <<"like", u, x>> \in raced => <<"like", u, x>> \in raced'
  PROVE  FewerLikes(u, x)
BY DEF FewerLikes, LikesOf

LEMMA FewerOptionsStays ==
  ASSUME NEW u \in Users, NEW p \in Posts, UNCHANGED option,
         <<"edit", u, p>> \in raced => <<"edit", u, p>> \in raced'
  PROVE  FewerOptions(u, p)
BY DEF FewerOptions, OptionsOf

LEMMA FewerStays ==
  ASSUME UNCHANGED <<option, vote, like, raced, crossed>>
  PROVE  Fewer
BY FewerVotesStays, FewerLikesStays, FewerOptionsStays DEF Fewer

\* What is at most one stays so.
LEMMA OneStays ==
  ASSUME IInv
  PROVE  /\ (\A u \in Users, p \in Posts : FewerVotes(u, p)) => OneVote'
         /\ (\A u \in Users, x \in Posts \cup Comments : FewerLikes(u, x)) => OneLike'
<1>1. ASSUME \A u \in Users, p \in Posts : FewerVotes(u, p)
      PROVE  OneVote'
  BY <1>1, VotesStayOne DEF OneVote
<1>2. ASSUME \A u \in Users, x \in Posts \cup Comments : FewerLikes(u, x)
      PROVE  OneLike'
  BY <1>2, LikesStayOne DEF OneLike
<1> QED
  BY <1>1, <1>2

\* A poll that is being edited keeps its excuse when no edit ends.
LEMMA PollStays ==
  ASSUME IInv, UNCHANGED <<option, named>>,
         \A p \in Posts : post'[p].author = post[p].author,
         \A u : \A p \in Posts : <<"edit", u, p>> \in raced => <<"edit", u, p>> \in raced',
         cut \subseteq cut',
         \A q \in Requests : request[q].pc = "edit" /\ request[q].on \notin cut' =>
           request'[q].pc = "edit" /\ request'[q].on = request[q].on
  PROVE  PollIsAsNamed'
<1>1. SUFFICES ASSUME NEW p \in Posts
               PROVE  \/ OptionsOf(p)' = named'[p]
                      \/ \E q \in Requests : request'[q].pc = "edit" /\ request'[q].on = p
                      \/ <<"edit", post'[p].author, p>> \in raced'
                      \/ p \in cut'
  BY DEF PollIsAsNamed, OptionsOf
<1>2. \/ OptionsOf(p) = named[p]
      \/ \E q \in Requests : request[q].pc = "edit" /\ request[q].on = p
      \/ <<"edit", post[p].author, p>> \in raced
      \/ p \in cut
  BY DEF IInv, PollIsAsNamed
<1>3. OptionsOf(p)' = OptionsOf(p)
  BY DEF OptionsOf
<1> QED
  BY <1>2, <1>3

\* All requests but r know what they knew when nothing is lost.
LEMMA OthersKnow ==
  ASSUME IInv, NEW R \in SUBSET Requests, Fewer, PostsStay, ThreadsStay,
         \A q \in R : request'[q] = request[q]
  PROVE  \A q \in R : RequestIsSound(q)' /\ RequestKnows(q)'
BY KnowsStays DEF Fewer, PostsStay, ThreadsStay

-----------------------------------------------------------------------------
(* Requests that only read, or end *)

LEMMA HandledCounts ==
  ASSUME IInv, Counted
  PROVE  handled' \in 0..MaxRequests
BY CommunityAssumption DEF IInv, TypeOK, Counted

\* Nothing changes but the request r, and perhaps what is noted as cut.
LEMMA OneRequestMoves ==
  ASSUME IInv, NEW r \in Requests, NEW next \in Request,
         request' = [request EXCEPT ![r] = next],
         UNCHANGED <<post, option, vote, comment, like, named, raced, crossed>>,
         handled' \in 0..MaxRequests, cut \subseteq cut', cut' \subseteq Posts,
         request[r].pc = "edit" => request[r].on \in cut',
         request'[r] = next => RequestIsSound(r)' /\ RequestKnows(r)'
  PROVE  IInv'
<1>1. request' \in [Requests -> Request] /\ request'[r] = next
      /\ \A q \in Requests \ {r} : request'[q] = request[q]
  BY DEF IInv, TypeOK
<1>2. RowTypes' /\ RowsAreWhole' /\ RepliesAreInThreads' /\ ThreadsStay
  BY RowsStay DEF Exists
<1>3. NoteTypes'
  BY Types DEF IInv, NoteTypes
<1>4. post' \in [Posts -> CommunityPost]
  BY DEF IInv, TypeOK
<1>5. TypeOK'
  BY <1>1, <1>2, <1>3, <1>4, Types DEF TypeOK, RowTypes, NoteTypes
<1>6. Fewer /\ PostsStay
  BY FewerStays DEF PostsStay, Exists
<1>7. OneVote' /\ OneLike'
  BY <1>6, OneStays DEF Fewer
<1>8. PollIsAsNamed'
  BY <1>1, PollStays
<1>9. \A q \in Requests \ {r} : RequestIsSound(q)' /\ RequestKnows(q)'
  <2> DEFINE R == Requests \ {r}
  <2>1. R \in SUBSET Requests /\ \A q \in R : request'[q] = request[q]
    BY <1>1
  <2> HIDE DEF R
  <2>2. \A q \in R : RequestIsSound(q)' /\ RequestKnows(q)'
    BY <1>2, <1>6, <2>1, OthersKnow
  <2> QED
    BY <2>2 DEF R
<1> QED
  BY <1>1, <1>2, <1>5, <1>7, <1>8, <1>9 DEF IInv

LEMMA AbortStep ==
  ASSUME IInv, NEW r \in Requests, Abort(r)
  PROVE  IInv'
<1>1. /\ request' = [request EXCEPT ![r] = Idle]
      /\ cut' = IF request[r].pc = "edit" THEN cut \cup {request[r].on} ELSE cut
      /\ UNCHANGED <<post, option, vote, comment, like, handled, named, raced, crossed>>
  BY DEF Abort
<1>2. handled' \in 0..MaxRequests
  BY <1>1 DEF IInv, TypeOK
<1>3. cut \subseteq cut' /\ cut' \subseteq Posts
  BY <1>1 DEF IInv, TypeOK, RequestIsSound
<1>4. request[r].pc = "edit" => request[r].on \in cut'
  BY <1>1
<1>5. request'[r] = Idle => RequestIsSound(r)' /\ RequestKnows(r)'
  BY IdleIsARequest DEF RequestIsSound, RequestKnows
<1> QED
  BY <1>1, <1>2, <1>3, <1>4, <1>5, IdleIsARequest, OneRequestMoves

\* A request that starts without writing.
LEMMA Starting ==
  ASSUME IInv, NEW r \in Requests, NEW next \in Request, Start(r, next),
         UNCHANGED <<post, option, vote, comment, like, named, raced, crossed, cut>>,
         request'[r] = next => RequestIsSound(r)' /\ RequestKnows(r)'
  PROVE  IInv'
<1>1. request' = [request EXCEPT ![r] = next] /\ request[r].pc = "idle" /\ Counted
  BY IdleIsARequest DEF Start
<1>2. handled' \in 0..MaxRequests
  BY <1>1, HandledCounts
<1>3. cut \subseteq cut' /\ cut' \subseteq Posts
  BY DEF IInv, TypeOK
<1> QED
  BY <1>1, <1>2, <1>3, OneRequestMoves

LEMMA ReadLikeStep ==
  ASSUME IInv, NEW r \in Requests, NEW u \in Users, NEW x \in Posts \cup Comments,
         ReadLike(r, u, x)
  PROVE  IInv'
<1>1. PICK l \in IF LikesOf(u, x) = {} THEN {None} ELSE LikesOf(u, x) :
        Start(r, [Idle EXCEPT !.pc = "like", !.user = u, !.on = x, !.row = l])
  BY DEF ReadLike
<1>2. UNCHANGED <<post, option, vote, comment, like, named, raced, crossed, cut>>
  BY DEF ReadLike
<1>3. l \in Likes \cup {None}
  BY <1>1 DEF LikesOf
<1> DEFINE next == [Idle EXCEPT !.pc = "like", !.user = u, !.on = x, !.row = l]
<1>4. /\ next \in Request /\ next.pc = "like" /\ next.user = u /\ next.on = x /\ next.row = l
      /\ Start(r, next)
  BY <1>1, <1>3, IdleIsARequest DEF Idle, Request
<1> HIDE DEF next
<1>5. <<"like", u, x>> \notin raced => LikesOf(u, x) \subseteq {l}
  BY <1>1 DEF IInv, OneLike
<1>6. request'[r] = next => RequestIsSound(r)' /\ RequestKnows(r)'
  BY <1>2, <1>4, <1>5 DEF RequestIsSound, RequestKnows, LikesOf
<1> QED
  BY <1>2, <1>4, <1>6, Starting

LEMMA ReadVoteStep ==
  ASSUME IInv, NEW r \in Requests, NEW u \in Users, NEW p \in Posts, NEW o \in Options,
         ReadVote(r, u, p, o)
  PROVE  IInv'
<1>1. PICK v \in IF VotesOf(u, p) = {} THEN {None} ELSE VotesOf(u, p) :
        Start(r, [Idle EXCEPT !.pc = "vote", !.user = u, !.on = p, !.row = v,
                    !.to = IF v # None /\ vote[v].option = o THEN None ELSE o])
  BY DEF ReadVote
<1>2. UNCHANGED <<post, option, vote, comment, like, named, raced, crossed, cut>>
  BY DEF ReadVote
<1>3. v \in Votes \cup {None}
  BY <1>1 DEF VotesOf
<1> DEFINE next == [Idle EXCEPT !.pc = "vote", !.user = u, !.on = p, !.row = v,
                      !.to = IF v # None /\ vote[v].option = o THEN None ELSE o]
<1>4. /\ next \in Request /\ next.pc = "vote" /\ next.user = u /\ next.on = p /\ next.row = v
      /\ v = None => next.to # None
      /\ Start(r, next)
  BY <1>1, <1>3, IdleIsARequest, Identifiers DEF Idle, Request
<1> HIDE DEF next
<1>5. <<"vote", u, p>> \notin raced /\ <<u, p>> \notin crossed => VotesOf(u, p) \subseteq {v}
  BY <1>1 DEF IInv, OneVote
<1>6. VotesOf(u, p)' = VotesOf(u, p)
  BY <1>2 DEF VotesOf, OptionsOf
<1>7. request'[r] = next => RequestIsSound(r)' /\ RequestKnows(r)'
  BY <1>2, <1>4, <1>5, <1>6 DEF RequestIsSound, RequestKnows, VotesOf, OptionsOf
<1> QED
  BY <1>2, <1>4, <1>7, Starting

LEMMA ThreadIsOne ==
  ASSUME IInv, NEW c \in Comments, NEW p \in Posts, comment[c].post = p
  PROVE  /\ Thread(c) \in Comments
         /\ comment[Thread(c)].post = p /\ comment[Thread(c)].parent = None
<1>1. comment[c].parent \in Comments \cup {None}
  BY DEF IInv, TypeOK, CommunityComment
<1> QED
  BY <1>1, Identifiers DEF IInv, RepliesAreInThreads, Thread

LEMMA ReadCommentStep ==
  ASSUME IInv, NEW r \in Requests, NEW u \in Users, NEW p \in Posts,
         NEW c \in Comments \cup {None}, ReadComment(r, u, p, c)
  PROVE  IInv'
<1>1. /\ c # None => comment[c].post = p
      /\ Start(r, [Idle EXCEPT !.pc = "comment", !.user = u, !.on = p, !.to = Thread(c)])
      /\ UNCHANGED <<post, option, vote, comment, like, named, raced, crossed, cut>>
  BY DEF ReadComment
<1>2. PICK to : to = Thread(c)
  OBVIOUS
<1>3. /\ to \in Comments \cup {None}
      /\ to # None => comment[to].post = p /\ comment[to].parent = None
  BY <1>1, <1>2, ThreadIsOne DEF Thread
<1> DEFINE next == [Idle EXCEPT !.pc = "comment", !.user = u, !.on = p, !.to = to]
<1>4. /\ next \in Request /\ next.pc = "comment" /\ next.user = u /\ next.on = p
      /\ next.to = to /\ Start(r, next)
  BY <1>1, <1>2, <1>3, IdleIsARequest DEF Idle, Request
<1> HIDE DEF next
<1>5. request'[r] = next => RequestIsSound(r)' /\ RequestKnows(r)'
  BY <1>1, <1>3, <1>4 DEF RequestIsSound, RequestKnows
<1> QED
  BY <1>1, <1>4, <1>5, Starting

-----------------------------------------------------------------------------
(* Comments *)

\* Steps on comments, which leave posts, votes and likes of others alone.
LEMMA CommentsChange ==
  ASSUME IInv, UNCHANGED <<post, option, vote, named, crossed, cut>>,
         RowTypes', RowsAreWhole', RepliesAreInThreads', handled' \in 0..MaxRequests,
         request' \in [Requests -> Request],
         raced' \subseteq raced,
         \A x \in raced : x[3] \in Posts => x \in raced',
         \A u \in Users, x \in Posts \cup Comments : FewerLikes(u, x),
         NEW R \in SUBSET Requests, \A q \in R : request'[q] = request[q],
         \A q \in R : request[q].pc = "comment" =>
           \A d \in Comments : d = request[q].to /\ comment'[d] # NoComment =>
             /\ comment[d] # NoComment
             /\ comment'[d].post = comment[d].post /\ comment'[d].parent = comment[d].parent,
         \A q \in Requests \ R : request[q].pc # "edit" /\ request'[q] = Idle
  PROVE  IInv'
<1>1. \A u : \A p \in Posts :
        /\ <<"vote", u, p>> \in raced => <<"vote", u, p>> \in raced'
        /\ <<"edit", u, p>> \in raced => <<"edit", u, p>> \in raced'
  <2>1. SUFFICES ASSUME NEW u, NEW p \in Posts, NEW pc, <<pc, u, p>> \in raced
                 PROVE  <<pc, u, p>> \in raced'
    OBVIOUS
  <2>2. <<pc, u, p>>[3] \in Posts
    OBVIOUS
  <2> QED
    BY <2>1, <2>2
<1>2. \A u \in Users, p \in Posts : FewerVotes(u, p) /\ FewerOptions(u, p)
  BY <1>1, FewerVotesStays, FewerOptionsStays
<1>3. OneVote' /\ OneLike'
  BY <1>2, OneStays
<1>4. \A q \in R : RequestIsSound(q)' /\ RequestKnows(q)'
  <2>1. ASSUME NEW q \in R
        PROVE  RequestIsSound(q)' /\ RequestKnows(q)'
    <3>1. q \in Requests /\ request'[q] = request[q]
      OBVIOUS
    <3> QED
      BY <1>2, <3>1, KnowsStays DEF Exists
  <2> QED
    BY <2>1
<1>5. \A q \in Requests \ R : RequestIsSound(q)' /\ RequestKnows(q)'
  BY IdleIsARequest DEF RequestIsSound, RequestKnows
<1>6. PollIsAsNamed'
  BY <1>1, PollStays
<1>7. NoteTypes'
  BY Types DEF IInv, NoteTypes
<1>8. post' \in [Posts -> CommunityPost]
  BY DEF IInv, TypeOK
<1>9. TypeOK'
  BY <1>7, <1>8, Types DEF TypeOK, RowTypes, NoteTypes
<1> QED
  BY <1>3, <1>4, <1>5, <1>6, <1>9 DEF IInv

LEMMA CommentPostStep ==
  ASSUME IInv, NEW r \in Requests, CommentPost(r)
  PROVE  IInv'
<1>1. PICK p, parent : p = request[r].on /\ parent = request[r].to
  OBVIOUS
<1>2. /\ request[r].pc = "comment" /\ Exists(p)
      /\ parent # None => comment[parent] # NoComment
      /\ request' = [request EXCEPT ![r] = Idle]
      /\ UNCHANGED <<post, option, vote, like, handled, named, raced, crossed, cut>>
  BY <1>1 DEF CommentPost
<1>3. PICK c \in NewComment : comment' = [comment EXCEPT ![c] =
        [post |-> p, user |-> request[r].user, parent |-> parent, deleted |-> FALSE]]
  BY <1>1 DEF CommentPost
<1>4. /\ TypeOK /\ p \in Posts /\ parent \in Comments \cup {None}
      /\ parent # None => /\ comment[parent] # NoComment
                          /\ comment[parent].post = p /\ comment[parent].parent = None
      /\ request[r].user \in Users \cup {None}
  BY <1>1, <1>2, RequestFields, Identifiers DEF IInv, RequestIsSound, RequestKnows
<1>5. /\ c \in Comments /\ comment[c] = NoComment /\ parent # c
      /\ \A q \in Requests : request[q].to # c
  BY <1>1, NewRows
<1> DEFINE new == [post |-> p, user |-> request[r].user, parent |-> parent, deleted |-> FALSE]
<1>6. new \in CommunityComment /\ new.post = p /\ new.parent = parent /\ new # NoComment
  <2>1. new \in CommunityComment /\ new.post = p /\ new.parent = parent
    BY <1>4 DEF CommunityComment
  <2> QED
    BY <1>4, <2>1, NoRows, Identifiers
<1>7. comment' = [comment EXCEPT ![c] = new]
  BY <1>3
<1> HIDE DEF new
<1>8. /\ comment' \in [Comments -> CommunityComment] /\ comment'[c] = new
      /\ \A d \in Comments \ {c} : comment'[d] = comment[d]
  BY <1>4, <1>5, <1>6, <1>7 DEF TypeOK
<1>9. RowTypes'
  <2>1. \A l \in Likes : like[l].on \in Comments => comment'[like[l].on] # NoComment
    BY <1>4, <1>6, <1>8 DEF TypeOK
  <2>2. \A o \in Options : option[o] # None => Exists(option[o])
    BY <1>4 DEF TypeOK
  <2> QED
    BY <1>2, <1>4, <1>8, <2>1, <2>2 DEF TypeOK, RowTypes, Exists
<1>10. RowsAreWhole'
  BY <1>2, <1>4, <1>6, <1>8 DEF IInv, RowsAreWhole, Exists
<1>11. RepliesAreInThreads'
  <2>1. SUFFICES ASSUME NEW d \in Comments, NEW e \in Comments, comment'[d].parent = e
                 PROVE  /\ comment'[e] # NoComment /\ comment'[e].post = comment'[d].post
                        /\ comment'[e].parent = None
    BY DEF RepliesAreInThreads
  <2>2. CASE d = c
    BY <1>4, <1>5, <1>6, <1>8, <2>1, <2>2, Identifiers
  <2>3. CASE d # c
    BY <1>5, <1>8, <2>1, <2>3 DEF IInv, RepliesAreInThreads
  <2> QED
    BY <2>2, <2>3
<1> DEFINE R == Requests \ {r}
<1>12. /\ request' \in [Requests -> Request] /\ R \in SUBSET Requests
       /\ \A q \in R : request'[q] = request[q]
       /\ \A q \in Requests \ R : request[q].pc # "edit" /\ request'[q] = Idle
  BY <1>2, <1>4, IdleIsARequest DEF TypeOK
<1>13. \A q \in R : \A d \in Comments : d = request[q].to => comment'[d] = comment[d]
  BY <1>5, <1>8
<1>14. \A u \in Users, x \in Posts \cup Comments : FewerLikes(u, x)
  BY <1>2, FewerLikesStays
<1>15. handled' \in 0..MaxRequests
  BY <1>2, <1>4 DEF TypeOK
<1> HIDE DEF R
<1> QED
  BY <1>2, <1>9, <1>10, <1>11, <1>12, <1>13, <1>14, <1>15, CommentsChange

\* The row of a comment without replies goes, and its likes.
LEMMA DropCommentStep ==
  ASSUME IInv, NEW c \in Comments, comment[c] # NoComment, Replies(c) = {}, Counted,
         comment' = [comment EXCEPT ![c] = NoComment],
         like' = [l \in Likes |-> IF like[l].on = c THEN NoLike ELSE like[l]],
         raced' = {x \in raced : x[3] # c},
         UNCHANGED <<request, post, option, vote, named, crossed, cut>>
  PROVE  IInv'
<1>1. TypeOK
  BY DEF IInv
<1>2. /\ comment' \in [Comments -> CommunityComment] /\ comment'[c] = NoComment
      /\ \A d \in Comments \ {c} : comment'[d] = comment[d]
  BY <1>1, NoRows DEF TypeOK
<1>3. /\ like' \in [Likes -> CommunityLike]
      /\ \A l \in Likes : like'[l].on # c
      /\ \A l \in Likes : like[l].on # c => like'[l] = like[l]
      /\ \A l \in Likes : like'[l] = like[l] \/ like'[l] = NoLike
  <2>1. \A l \in Likes : /\ like[l].on = c => like'[l] = NoLike
                         /\ like[l].on # c => like'[l] = like[l]
    OBVIOUS
  <2>2. like' \in [Likes -> CommunityLike]
    BY <1>1, NoRows DEF TypeOK
  <2> QED
    BY <2>1, <2>2, NoRows, Identifiers
<1>4. RowTypes'
  <2>1. ASSUME NEW l \in Likes, like'[l].on \in Comments
        PROVE  comment'[like'[l].on] # NoComment
    <3>1. like'[l] = like[l] /\ like[l].on # c
      BY <1>3, <2>1, NoRows, Identifiers
    <3> QED
      BY <1>1, <1>2, <2>1, <3>1 DEF TypeOK
  <2>2. \A o \in Options : option[o] # None => Exists(option[o])
    BY <1>1 DEF TypeOK
  <2> QED
    BY <1>1, <1>2, <1>3, <2>1, <2>2 DEF TypeOK, RowTypes, Exists
<1>5. RowsAreWhole'
  BY <1>2 DEF IInv, RowsAreWhole, Exists
<1>6. RepliesAreInThreads'
  <2>1. SUFFICES ASSUME NEW d \in Comments, NEW e \in Comments, comment'[d].parent = e
                 PROVE  /\ comment'[e] # NoComment /\ comment'[e].post = comment'[d].post
                        /\ comment'[e].parent = None
    BY DEF RepliesAreInThreads
  <2>2. d # c
    BY <1>2, <2>1, NoRows, Identifiers
  <2>3. e # c
    BY <1>2, <2>1, <2>2 DEF Replies
  <2> QED
    BY <1>2, <2>1, <2>2, <2>3 DEF IInv, RepliesAreInThreads
<1>7. \A u \in Users, x \in Posts \cup Comments : FewerLikes(u, x)
  <2>1. SUFFICES ASSUME NEW u \in Users, NEW x \in Posts \cup Comments
                 PROVE  FewerLikes(u, x)
    OBVIOUS
  <2>2. CASE x = c
    <3>1. LikesOf(u, x)' = {}
      BY <1>3, <2>2 DEF LikesOf
    <3> QED
      BY <3>1 DEF FewerLikes
  <2>3. CASE x # c
    <3>1. <<"like", u, x>> \in raced => <<"like", u, x>> \in raced'
      BY <2>3
    <3>2. [user |-> u, on |-> x] # NoLike
      BY NoRows, Identifiers
    <3>3. LikesOf(u, x)' \subseteq LikesOf(u, x)
      BY <1>3, <3>2 DEF LikesOf
    <3> QED
      BY <3>1, <3>3 DEF FewerLikes
  <2> QED
    BY <2>2, <2>3
<1>8. \A x \in raced : x[3] \in Posts => x \in raced'
  BY Identifiers
<1> DEFINE R == Requests
<1>9. /\ R \in SUBSET Requests
      /\ \A q \in R : request'[q] = request[q]
      /\ \A q \in Requests \ R : request[q].pc # "edit" /\ request'[q] = Idle
      /\ request' \in [Requests -> Request]
  BY <1>1 DEF TypeOK
<1>10. \A d \in Comments : comment'[d] # NoComment => comment'[d] = comment[d]
  BY <1>2
<1>11. handled' \in 0..MaxRequests /\ raced' \subseteq raced
  BY HandledCounts
<1> HIDE DEF R
<1> QED
  BY <1>4, <1>5, <1>6, <1>7, <1>8, <1>9, <1>10, <1>11, CommentsChange

LEMMA DeleteCommentStep ==
  ASSUME IInv, NEW r \in Requests, NEW u \in Users, NEW c \in Comments,
         DeleteComment(r, u, c)
  PROVE  IInv'
<1>1. comment[c] # NoComment /\ UNCHANGED <<post, option, vote, named, crossed, cut>>
  BY DEF DeleteComment
<1>2. CASE Replies(c) = {}
  <2>1. /\ Counted
        /\ comment' = [comment EXCEPT ![c] = NoComment]
        /\ like' = [l \in Likes |-> IF like[l].on = c THEN NoLike ELSE like[l]]
        /\ raced' = {x \in raced : x[3] # c}
        /\ UNCHANGED request
    BY <1>2 DEF DeleteComment
  <2> QED
    BY <1>1, <1>2, <2>1, DropCommentStep
<1>3. CASE Replies(c) # {}
  <2> DEFINE next == [Idle EXCEPT !.pc = "soft", !.user = u, !.on = c]
  <2>1. Start(r, next) /\ UNCHANGED <<comment, like, raced>>
    BY <1>3 DEF DeleteComment
  <2>2. next \in Request /\ next.pc = "soft" /\ next.on = c
    BY IdleIsARequest DEF Idle, Request
  <2> HIDE DEF next
  <2>3. request'[r] = next => RequestIsSound(r)' /\ RequestKnows(r)'
    BY <2>2 DEF RequestIsSound, RequestKnows
  <2> QED
    BY <1>1, <2>1, <2>2, <2>3, Starting
<1> QED
  BY <1>2, <1>3

LEMMA MarkDeletedStep ==
  ASSUME IInv, NEW r \in Requests, MarkDeleted(r)
  PROVE  IInv'
<1>1. PICK c : c = request[r].on
  OBVIOUS
<1>2. /\ request[r].pc = "soft" /\ comment[c] # NoComment
      /\ comment' = [comment EXCEPT ![c].deleted = TRUE]
      /\ request' = [request EXCEPT ![r] = Idle]
      /\ UNCHANGED <<post, option, vote, like, handled, named, raced, crossed, cut>>
  BY <1>1 DEF MarkDeleted
<1>3. TypeOK /\ c \in Comments
  BY <1>1, <1>2 DEF IInv, RequestIsSound
<1> DEFINE new == [comment[c] EXCEPT !.deleted = TRUE]
<1>4. /\ new \in CommunityComment /\ new.post = comment[c].post
      /\ new.parent = comment[c].parent
  <2>1. comment[c] \in CommunityComment
    BY <1>3 DEF TypeOK
  <2> QED
    BY <2>1 DEF CommunityComment
<1>5. new # NoComment
  <2>1. comment[c].post \in Posts
    BY <1>2, <1>3 DEF IInv, RowsAreWhole
  <2> QED
    BY <1>4, <2>1, NoRows, Identifiers
<1>6. comment' = [comment EXCEPT ![c] = new]
  BY <1>2
<1> HIDE DEF new
<1>7. /\ comment' \in [Comments -> CommunityComment] /\ comment'[c] = new
      /\ \A d \in Comments \ {c} : comment'[d] = comment[d]
  BY <1>3, <1>4, <1>6 DEF TypeOK
<1>8. \A d \in Comments : /\ comment'[d] # NoComment <=> comment[d] # NoComment
                          /\ comment'[d].post = comment[d].post
                          /\ comment'[d].parent = comment[d].parent
  BY <1>2, <1>4, <1>5, <1>7
<1>9. RowTypes'
  <2>1. \A l \in Likes : like[l].on \in Comments => comment'[like[l].on] # NoComment
    BY <1>3, <1>8 DEF TypeOK
  <2>2. \A o \in Options : option[o] # None => Exists(option[o])
    BY <1>3 DEF TypeOK
  <2> QED
    BY <1>2, <1>3, <1>7, <2>1, <2>2 DEF TypeOK, RowTypes, Exists
<1>10. RowsAreWhole'
  BY <1>2, <1>8 DEF IInv, RowsAreWhole, Exists
<1>11. RepliesAreInThreads'
  BY <1>8 DEF IInv, RepliesAreInThreads
<1> DEFINE R == Requests \ {r}
<1>12. /\ request' \in [Requests -> Request] /\ R \in SUBSET Requests
       /\ \A q \in R : request'[q] = request[q]
       /\ \A q \in Requests \ R : request[q].pc # "edit" /\ request'[q] = Idle
  BY <1>2, <1>3, IdleIsARequest DEF TypeOK
<1>13. \A u \in Users, x \in Posts \cup Comments : FewerLikes(u, x)
  BY <1>2, FewerLikesStays
<1>14. handled' \in 0..MaxRequests
  BY <1>2, <1>3 DEF TypeOK
<1> HIDE DEF R
<1> QED
  BY <1>2, <1>8, <1>9, <1>10, <1>11, <1>12, <1>13, <1>14, CommentsChange

-----------------------------------------------------------------------------
(* Likes and votes *)

LEMMA Finished ==
  ASSUME IInv, NEW r \in Requests, request[r].pc \in {"like", "vote", "edit"}, Finish(r)
  PROVE  /\ request' \in [Requests -> Request] /\ request'[r] = Idle
         /\ \A q \in Requests \ {r} : request'[q] = request[q]
         /\ raced \subseteq raced' /\ handled' = handled
         /\ raced' \subseteq {"like", "vote", "edit"} \X Users \X (Posts \cup Comments)
         /\ \A q \in Requests \ {r} :
              /\ request[q].pc = request[r].pc /\ request[q].user = request[r].user
              /\ request[q].on = request[r].on
              => <<request[r].pc, request[r].user, request[r].on>> \in raced'
<1> DEFINE about == {q \in Requests \ {r} :
             /\ request[q].pc = request[r].pc
             /\ request[q].user = request[r].user
             /\ request[q].on = request[r].on}
           late == <<request[r].pc, request[r].user, request[r].on>>
<1>1. /\ request' = [request EXCEPT ![r] = Idle] /\ handled' = handled
      /\ raced' = IF about = {} THEN raced ELSE raced \cup {late}
  BY DEF Finish
<1>2. TypeOK /\ RequestIsSound(r)
  BY DEF IInv
<1>3. late \in {"like", "vote", "edit"} \X Users \X (Posts \cup Comments)
  BY <1>2 DEF RequestIsSound
<1>4. raced \subseteq {"like", "vote", "edit"} \X Users \X (Posts \cup Comments)
  BY <1>2 DEF TypeOK
<1>5. /\ request' \in [Requests -> Request] /\ request'[r] = Idle
      /\ \A q \in Requests \ {r} : request'[q] = request[q]
  BY <1>1, <1>2, IdleIsARequest DEF TypeOK
<1>6. \A q \in Requests \ {r} :
        /\ request[q].pc = request[r].pc /\ request[q].user = request[r].user
        /\ request[q].on = request[r].on
        => late \in raced'
  BY <1>1
<1>7. raced \subseteq raced' /\ raced' \subseteq raced \cup {late}
  BY <1>1
<1> HIDE DEF about
<1> QED
  BY <1>1, <1>3, <1>4, <1>5, <1>6, <1>7

\* Nobody but r is concerned by what r writes, or he is late.
LEMMA Writing ==
  ASSUME IInv, NEW r \in Requests, request[r].pc \in {"like", "vote"}, Finish(r),
         UNCHANGED <<post, option, comment, named, cut>>,
         RowTypes', RowsAreWhole', crossed' \subseteq Users \X Posts, OneVote', OneLike',
         \A u \in Users, p \in Posts :
           \/ FewerVotes(u, p)
           \/ request[r].pc = "vote" /\ request[r].user = u /\ request[r].on = p,
         \A u \in Users, x \in Posts \cup Comments :
           \/ FewerLikes(u, x)
           \/ request[r].pc = "like" /\ request[r].user = u /\ request[r].on = x
  PROVE  IInv'
<1>1. /\ request' \in [Requests -> Request] /\ request'[r] = Idle
      /\ \A q \in Requests \ {r} : request'[q] = request[q]
      /\ raced \subseteq raced' /\ handled' = handled
      /\ raced' \subseteq {"like", "vote", "edit"} \X Users \X (Posts \cup Comments)
      /\ \A q \in Requests \ {r} :
           /\ request[q].pc = request[r].pc /\ request[q].user = request[r].user
           /\ request[q].on = request[r].on
           => <<request[r].pc, request[r].user, request[r].on>> \in raced'
  BY Finished
<1>2. NoteTypes'
  BY <1>1, Types DEF IInv, NoteTypes
<1>3. post' \in [Posts -> CommunityPost]
  BY DEF IInv, TypeOK
<1>4. TypeOK'
  BY <1>1, <1>2, <1>3, Types DEF TypeOK, RowTypes, NoteTypes
<1>5. PollIsAsNamed'
  BY <1>1, PollStays
<1>6. RepliesAreInThreads'
  BY DEF IInv, RepliesAreInThreads
<1>7. ASSUME NEW q \in Requests \ {r}
      PROVE  RequestIsSound(q)' /\ RequestKnows(q)'
  <2>1. request[q].pc = "edit" =>
          \A u \in Users, p \in Posts :
            u = request[q].user /\ p = request[q].on => FewerOptions(u, p)
    BY <1>1, FewerOptionsStays
  <2>2. request[q].pc = "vote" =>
          \A u \in Users, p \in Posts :
            u = request[q].user /\ p = request[q].on => FewerVotes(u, p)
    BY <1>1 DEF FewerVotes
  <2>3. request[q].pc = "like" =>
          \A u \in Users, x \in Posts \cup Comments :
            u = request[q].user /\ x = request[q].on => FewerLikes(u, x)
    BY <1>1 DEF FewerLikes
  <2> QED
    BY <1>1, <2>1, <2>2, <2>3, KnowsStays DEF Exists
<1>8. RequestIsSound(r)' /\ RequestKnows(r)'
  BY <1>1, IdleIsARequest DEF RequestIsSound, RequestKnows
<1> QED
  BY <1>4, <1>5, <1>6, <1>7, <1>8 DEF IInv

LEMMA LikeStepOne ==
  ASSUME IInv, NEW r \in Requests, Like(r)
  PROVE  IInv'
<1>1. PICK u, x : u = request[r].user /\ x = request[r].on
  OBVIOUS
<1>2. /\ request[r].pc = "like" /\ request[r].row = None
      /\ IF x \in Posts THEN Exists(x) ELSE comment[x] # NoComment
      /\ Finish(r)
      /\ UNCHANGED <<post, option, vote, comment, named, crossed, cut>>
  BY <1>1 DEF Like
<1>3. PICK l \in NewLike : like' = [like EXCEPT ![l] = [user |-> u, on |-> x]]
  BY <1>1 DEF Like
<1>4. TypeOK /\ u \in Users /\ x \in Posts \cup Comments /\ l \in Likes /\ like[l] = NoLike
  BY <1>1, <1>2, NewRows DEF IInv, RequestIsSound
<1> DEFINE new == [user |-> u, on |-> x]
<1>5. new \in CommunityLike /\ new.user = u /\ new.on = x
  BY <1>4 DEF CommunityLike
<1>6. like' = [like EXCEPT ![l] = new]
  BY <1>3
<1>7. \A w, y : new = [user |-> w, on |-> y] => w = u /\ y = x
  OBVIOUS
<1> HIDE DEF new
<1>8. /\ like' \in [Likes -> CommunityLike] /\ like'[l] = new
      /\ \A k \in Likes \ {l} : like'[k] = like[k]
  BY <1>4, <1>5, <1>6 DEF TypeOK
<1>9. RowTypes'
  <2>1. ASSUME NEW k \in Likes, like'[k].on \in Comments
        PROVE  comment[like'[k].on] # NoComment
    <3>1. CASE k = l
      BY <1>2, <1>5, <1>8, <2>1, <3>1, Identifiers
    <3>2. CASE k # l
      BY <1>4, <1>8, <2>1, <3>2 DEF TypeOK
    <3> QED
      BY <3>1, <3>2
  <2>2. \A o \in Options : option[o] # None => Exists(option[o])
    BY <1>4 DEF TypeOK
  <2> QED
    BY <1>2, <1>4, <1>8, <2>1, <2>2 DEF TypeOK, RowTypes, Exists
<1>10. RowsAreWhole'
  BY <1>2 DEF IInv, RowsAreWhole, Exists
<1>11. raced \subseteq raced'
  BY <1>2, Finished
<1>12. \A w \in Users, p \in Posts : FewerVotes(w, p)
  BY <1>2, <1>11, FewerVotesStays
<1>13. \A w \in Users, y \in Posts \cup Comments : w # u \/ y # x => FewerLikes(w, y)
  <2>1. SUFFICES ASSUME NEW w \in Users, NEW y \in Posts \cup Comments, w # u \/ y # x
                 PROVE  FewerLikes(w, y)
    OBVIOUS
  <2>2. LikesOf(w, y)' \subseteq LikesOf(w, y)
    BY <1>7, <1>8, <2>1 DEF LikesOf
  <2> QED
    BY <1>11, <2>2 DEF FewerLikes
<1>14. OneVote'
  BY <1>12, OneStays
<1>15. OneLike'
  <2>1. SUFFICES ASSUME NEW w \in Users, NEW y \in Posts \cup Comments,
                        <<"like", w, y>> \notin raced'
                 PROVE  \A j, k \in LikesOf(w, y)' : j = k
    BY DEF OneLike
  <2>2. CASE w = u /\ y = x
    <3>1. LikesOf(u, x) \subseteq {None}
      BY <1>1, <1>2, <1>11, <2>1, <2>2 DEF IInv, RequestKnows
    <3>2. LikesOf(u, x)' \subseteq {l}
      BY <1>8, <3>1, Identifiers DEF LikesOf
    <3> QED
      BY <2>2, <3>2
  <2>3. CASE w # u \/ y # x
    BY <1>13, <2>1, <2>3, LikesStayOne
  <2> QED
    BY <2>2, <2>3
<1>16. crossed' \subseteq Users \X Posts
  BY <1>2, <1>4 DEF TypeOK
<1> QED
  BY <1>1, <1>2, <1>9, <1>10, <1>12, <1>13, <1>14, <1>15, <1>16, Writing

LEMMA UnlikeStep ==
  ASSUME IInv, NEW r \in Requests, Unlike(r)
  PROVE  IInv'
<1>1. PICK l : l = request[r].row
  OBVIOUS
<1>2. /\ request[r].pc = "like" /\ l # None /\ like' = [like EXCEPT ![l] = NoLike]
      /\ Finish(r)
      /\ UNCHANGED <<post, option, vote, comment, named, crossed, cut>>
  BY <1>1 DEF Unlike
<1>3. TypeOK
  BY DEF IInv
<1>4. /\ like' \in [Likes -> CommunityLike]
      /\ \A k \in Likes : like'[k] = like[k] \/ like'[k] = NoLike
  BY <1>2, <1>3, NoRows DEF TypeOK
<1>5. RowTypes'
  <2>1. \A k \in Likes : like'[k].on \in Comments => comment[like'[k].on] # NoComment
    BY <1>3, <1>4, NoRows, Identifiers DEF TypeOK
  <2>2. \A o \in Options : option[o] # None => Exists(option[o])
    BY <1>3 DEF TypeOK
  <2> QED
    BY <1>2, <1>3, <1>4, <2>1, <2>2 DEF TypeOK, RowTypes, Exists
<1>6. RowsAreWhole'
  BY <1>2 DEF IInv, RowsAreWhole, Exists
<1>7. raced \subseteq raced'
  BY <1>2, Finished
<1>8. \A w \in Users, p \in Posts : FewerVotes(w, p)
  BY <1>2, <1>7, FewerVotesStays
<1>9. \A w \in Users, y \in Posts \cup Comments : FewerLikes(w, y)
  <2>1. SUFFICES ASSUME NEW w \in Users, NEW y \in Posts \cup Comments
                 PROVE  FewerLikes(w, y)
    OBVIOUS
  <2>2. [user |-> w, on |-> y] # NoLike
    BY NoRows, Identifiers
  <2>3. LikesOf(w, y)' \subseteq LikesOf(w, y)
    BY <1>4, <2>2 DEF LikesOf
  <2> QED
    BY <1>7, <2>3 DEF FewerLikes
<1>10. OneVote' /\ OneLike'
  BY <1>8, <1>9, OneStays
<1>11. crossed' \subseteq Users \X Posts
  BY <1>2, <1>3 DEF TypeOK
<1> QED
  BY <1>2, <1>5, <1>6, <1>8, <1>9, <1>10, <1>11, Writing

\* A vote v is written: a new one, or the one the request has found.
LEMMA CastStep ==
  ASSUME IInv, NEW r \in Requests, NEW v \in Votes, request[r].pc = "vote",
         request[r].to # None, request[r].row = None \/ request[r].row = v, Cast(r, v),
         UNCHANGED <<post, option, comment, like, named, cut>>
  PROVE  IInv'
<1>1. PICK u, on, to : u = request[r].user /\ on = request[r].on /\ to = request[r].to
  OBVIOUS
<1> DEFINE cast == [user |-> u, option |-> to]
<1>2. PICK p : p = option[to]
  OBVIOUS
<1>3. /\ p # None /\ vote' = [vote EXCEPT ![v] = cast] /\ Finish(r)
      /\ crossed' = IF p = on THEN crossed ELSE crossed \cup {<<u, p>>}
  BY <1>1, <1>2 DEF Cast
<1>4. TypeOK /\ u \in Users /\ on \in Posts /\ to \in Options
  BY <1>1, RequestFields, Identifiers DEF IInv, RequestIsSound
<1>5. p \in Posts
  BY <1>2, <1>3, <1>4, RowsBelong
<1>6. cast \in PollVote /\ cast.user = u /\ cast.option = to
  BY <1>4 DEF PollVote
<1> HIDE DEF cast
<1>7. /\ vote' \in [Votes -> PollVote] /\ vote'[v] = cast
      /\ \A w \in Votes \ {v} : vote'[w] = vote[w]
  BY <1>3, <1>4, <1>6 DEF TypeOK
<1>8. RowTypes'
  <2>1. \A w \in Votes : vote'[w] # NoVote => option[vote'[w].option] # None
    BY <1>2, <1>3, <1>4, <1>6, <1>7 DEF TypeOK
  <2>2. \A o \in Options : option[o] # None => Exists(option[o])
    BY <1>4 DEF TypeOK
  <2> QED
    BY <1>4, <1>7, <2>1, <2>2 DEF TypeOK, RowTypes, Exists
<1>9. RowsAreWhole'
  BY <1>4, <1>6, <1>7 DEF IInv, RowsAreWhole, Exists
<1>10. raced \subseteq raced' /\ crossed \subseteq crossed' /\ crossed' \subseteq Users \X Posts
  <2>1. raced \subseteq raced'
    BY <1>3, Finished
  <2>2. crossed \subseteq crossed'
    BY <1>3
  <2>3. crossed' \subseteq Users \X Posts
    BY <1>3, <1>4, <1>5 DEF TypeOK
  <2> QED
    BY <2>1, <2>2, <2>3
<1>11. \A w \in Users, y \in Posts : w # u \/ y # p => VotesOf(w, y)' \subseteq VotesOf(w, y)
  <2>1. SUFFICES ASSUME NEW w \in Users, NEW y \in Posts, w # u \/ y # p,
                        NEW k \in Votes, vote'[k].user = w,
                        vote'[k].option \in Options, option[vote'[k].option] = y
                 PROVE  k \in VotesOf(w, y)
    BY DEF VotesOf, OptionsOf
  <2>2. k # v
    BY <1>2, <1>6, <1>7, <2>1
  <2> QED
    BY <1>7, <2>1, <2>2 DEF VotesOf, OptionsOf
<1>12. \A w \in Users, y \in Posts : FewerVotes(w, y) \/ (w = u /\ y = on)
  <2>1. SUFFICES ASSUME NEW w \in Users, NEW y \in Posts, w # u \/ y # on
                 PROVE  FewerVotes(w, y)
    OBVIOUS
  <2>2. CASE w = u /\ y = p
    BY <1>3, <2>1, <2>2 DEF FewerVotes
  <2>3. CASE w # u \/ y # p
    BY <1>10, <1>11, <2>3 DEF FewerVotes
  <2> QED
    BY <2>2, <2>3
<1>13. OneVote'
  <2>1. SUFFICES ASSUME NEW w \in Users, NEW y \in Posts, <<"vote", w, y>> \notin raced',
                        <<w, y>> \notin crossed'
                 PROVE  \A j, k \in VotesOf(w, y)' : j = k
    BY DEF OneVote
  <2>2. CASE w = u /\ y = on
    <3>1. VotesOf(u, on) \subseteq {v}
      <4>1. VotesOf(u, on) \subseteq {request[r].row}
        BY <1>1, <1>10, <2>1, <2>2 DEF IInv, RequestKnows
      <4>2. VotesOf(u, on) \subseteq Votes
        BY DEF VotesOf
      <4> QED
        BY <4>1, <4>2, Identifiers
    <3>2. VotesOf(u, on)' \subseteq {v}
      BY <1>7, <3>1 DEF VotesOf, OptionsOf
    <3> QED
      BY <2>2, <3>2
  <2>3. CASE w # u \/ y # on
    BY <1>12, <2>1, <2>3, VotesStayOne
  <2> QED
    BY <2>2, <2>3
<1>14. \A w \in Users, x \in Posts \cup Comments : FewerLikes(w, x)
  BY <1>10, FewerLikesStays
<1>15. OneLike'
  BY <1>14, OneStays
<1> QED
  BY <1>1, <1>3, <1>8, <1>9, <1>10, <1>12, <1>13, <1>14, <1>15, Writing

LEMMA VoteStepOne ==
  ASSUME IInv, NEW r \in Requests, Vote(r)
  PROVE  IInv'
<1>1. PICK v \in NewVote : Cast(r, v)
  BY DEF Vote
<1>2. request[r].pc = "vote" /\ request[r].row = None /\ v \in Votes
  BY NewRows DEF Vote
<1>3. request[r].to # None
  BY <1>2 DEF IInv, RequestIsSound
<1>4. UNCHANGED <<post, option, comment, like, named, cut>>
  BY <1>1 DEF Cast
<1> QED
  BY <1>1, <1>2, <1>3, <1>4, CastStep

LEMMA ChangeVoteStep ==
  ASSUME IInv, NEW r \in Requests, ChangeVote(r)
  PROVE  IInv'
<1>1. /\ request[r].pc = "vote" /\ request[r].row # None /\ request[r].to # None
      /\ Cast(r, request[r].row)
  BY DEF ChangeVote
<1>2. PICK v : v = request[r].row
  OBVIOUS
<1>3. v \in Votes
  BY <1>1, <1>2, RequestFields, Identifiers DEF IInv
<1>4. Cast(r, v) /\ UNCHANGED <<post, option, comment, like, named, cut>>
  BY <1>1, <1>2 DEF Cast
<1> QED
  BY <1>1, <1>2, <1>3, <1>4, CastStep

LEMMA UnvoteStep ==
  ASSUME IInv, NEW r \in Requests, Unvote(r)
  PROVE  IInv'
<1>1. PICK v : v = request[r].row
  OBVIOUS
<1>2. /\ request[r].pc = "vote" /\ vote' = [vote EXCEPT ![v] = NoVote]
      /\ Finish(r)
      /\ UNCHANGED <<post, option, comment, like, named, crossed, cut>>
  BY <1>1 DEF Unvote
<1>3. TypeOK
  BY DEF IInv
<1>4. /\ vote' \in [Votes -> PollVote]
      /\ \A w \in Votes : vote'[w] = vote[w] \/ vote'[w] = NoVote
  BY <1>2, <1>3, NoRows DEF TypeOK
<1>5. RowTypes'
  <2>1. \A w \in Votes : vote'[w] # NoVote => option[vote'[w].option] # None
    BY <1>3, <1>4 DEF TypeOK
  <2>2. \A o \in Options : option[o] # None => Exists(option[o])
    BY <1>3 DEF TypeOK
  <2> QED
    BY <1>2, <1>3, <1>4, <2>1, <2>2 DEF TypeOK, RowTypes, Exists
<1>6. RowsAreWhole'
  BY <1>2, <1>4 DEF IInv, RowsAreWhole, Exists
<1>7. raced \subseteq raced'
  BY <1>2, Finished
<1>8. \A w \in Users, p \in Posts : FewerVotes(w, p)
  <2>1. SUFFICES ASSUME NEW w \in Users, NEW p \in Posts
                 PROVE  FewerVotes(w, p)
    OBVIOUS
  <2>2. VotesOf(w, p)' \subseteq VotesOf(w, p)
    BY <1>2, <1>4, NoRows, Identifiers DEF VotesOf, OptionsOf
  <2> QED
    BY <1>2, <1>7, <2>2 DEF FewerVotes
<1>9. \A w \in Users, x \in Posts \cup Comments : FewerLikes(w, x)
  BY <1>2, <1>7, FewerLikesStays
<1>10. OneVote' /\ OneLike'
  BY <1>8, <1>9, OneStays
<1>11. crossed' \subseteq Users \X Posts
  BY <1>2, <1>3 DEF TypeOK
<1> QED
  BY <1>2, <1>5, <1>6, <1>8, <1>9, <1>10, <1>11, Writing

-----------------------------------------------------------------------------
(* Posts *)

\* Whom a post is shown to, or its status, changes.
LEMMA PostChanges ==
  ASSUME IInv, NEW p \in Posts, NEW row \in CommunityPost, row.author = post[p].author,
         Exists(p), Counted, post' = [post EXCEPT ![p] = row],
         UNCHANGED <<option, vote, comment, like, request, named, raced, crossed, cut>>
  PROVE  IInv'
<1>1. TypeOK /\ post[p].author \in Users
  BY DEF IInv, RowsAreWhole
<1>2. /\ post' \in [Posts -> CommunityPost] /\ post'[p] = row
      /\ \A y \in Posts \ {p} : post'[y] = post[y]
  BY <1>1 DEF TypeOK
<1>3. row # NoPost
  BY <1>1, NoRows, Identifiers
<1>4. \A y \in Posts : post'[y].author = post[y].author /\ (Exists(y)' <=> Exists(y))
  BY <1>2, <1>3 DEF Exists
<1>5. RowTypes' /\ RowsAreWhole' /\ RepliesAreInThreads' /\ ThreadsStay /\ PostsStay
  BY <1>4, RowsStay DEF PostsStay
<1>6. Fewer
  BY FewerStays
<1>7. OneVote' /\ OneLike'
  BY <1>6, OneStays DEF Fewer
<1>8. PollIsAsNamed'
  BY <1>4, PollStays
<1>9. \A q \in Requests : RequestIsSound(q)' /\ RequestKnows(q)'
  <2> DEFINE R == Requests
  <2>1. R \in SUBSET Requests /\ \A q \in R : request'[q] = request[q]
    OBVIOUS
  <2> HIDE DEF R
  <2>2. \A q \in R : RequestIsSound(q)' /\ RequestKnows(q)'
    BY <1>5, <1>6, <2>1, OthersKnow
  <2> QED
    BY <2>2 DEF R
<1>10. NoteTypes'
  BY HandledCounts, Types DEF IInv, NoteTypes
<1>11. TypeOK'
  BY <1>1, <1>2, <1>5, <1>10, Types DEF TypeOK, RowTypes, NoteTypes
<1> QED
  BY <1>5, <1>7, <1>8, <1>9, <1>11 DEF IInv

LEMMA UpdatePostStep ==
  ASSUME IInv, NEW p \in Posts, NEW A \in SUBSET Users, UpdatePost(p, A)
  PROVE  IInv'
<1> DEFINE row == [post[p] EXCEPT !.audience = A]
<1>1. post[p] \in CommunityPost
  BY DEF IInv, TypeOK
<1>2. row \in CommunityPost /\ row.author = post[p].author
  BY <1>1 DEF CommunityPost
<1>3. /\ Exists(p) /\ Counted /\ post' = [post EXCEPT ![p] = row]
      /\ UNCHANGED <<option, vote, comment, like, request, named, raced, crossed, cut>>
  BY DEF UpdatePost
<1> HIDE DEF row
<1> QED
  BY <1>2, <1>3, PostChanges

LEMMA ChangePostStatusStep ==
  ASSUME IInv, NEW p \in Posts, NEW status \in Statuses, ChangePostStatus(p, status)
  PROVE  IInv'
<1> DEFINE row == [post[p] EXCEPT !.status = status]
<1>1. post[p] \in CommunityPost /\ status \in PostStatus
  BY CommunityAssumption DEF IInv, TypeOK
<1>2. row \in CommunityPost /\ row.author = post[p].author
  BY <1>1 DEF CommunityPost
<1>3. /\ Exists(p) /\ Counted /\ post' = [post EXCEPT ![p] = row]
      /\ UNCHANGED <<option, vote, comment, like, request, named, raced, crossed, cut>>
  BY DEF ChangePostStatus
<1> HIDE DEF row
<1> QED
  BY <1>2, <1>3, PostChanges

\* A post gets new options; nobody has voted for them.
LEMMA Named ==
  ASSUME IInv, NEW p \in Posts, NEW n, Names(p, n)
  PROVE  /\ option' \in [Options -> Posts \cup {None}]
         /\ named' \in [Posts -> SUBSET Options] /\ named'[p] = NewOptions(n)
         /\ \A y \in Posts \ {p} : named'[y] = named[y] /\ OptionsOf(y)' = OptionsOf(y)
         /\ OptionsOf(p)' = OptionsOf(p) \cup NewOptions(n)
         /\ \A o \in Options : option[o] # None => option'[o] = option[o]
         /\ \A o \in Options : option'[o] = option[o] \/ option'[o] = p
         /\ vote' = vote => \A u \in Users, y \in Posts : VotesOf(u, y)' = VotesOf(u, y)
<1>1. PICK N : N = NewOptions(n)
  OBVIOUS
<1>2. /\ option' = [o \in Options |-> IF o \in N THEN p ELSE option[o]]
      /\ named' = [named EXCEPT ![p] = N]
  BY <1>1 DEF Names
<1>3. TypeOK
  BY DEF IInv
<1>4. N \subseteq Options /\ \A o \in N : option[o] = None
  BY <1>1, NewRows
<1>5. option' \in [Options -> Posts \cup {None}]
  BY <1>2, <1>3 DEF TypeOK
<1>6. /\ named' \in [Posts -> SUBSET Options] /\ named'[p] = N
      /\ \A y \in Posts \ {p} : named'[y] = named[y]
  BY <1>2, <1>3, <1>4 DEF TypeOK
<1>7. /\ \A o \in Options : option[o] # None => option'[o] = option[o]
      /\ \A o \in Options : option'[o] = option[o] \/ option'[o] = p
      /\ \A o \in Options : o \in N => option'[o] = p
      /\ \A o \in Options : o \notin N => option'[o] = option[o]
  BY <1>2, <1>4
<1>8. OptionsOf(p)' = OptionsOf(p) \cup N
  BY <1>4, <1>7 DEF OptionsOf
<1>9. \A y \in Posts \ {p} : OptionsOf(y)' = OptionsOf(y)
  BY <1>4, <1>7, Identifiers DEF OptionsOf
<1>10. ASSUME vote' = vote, NEW u \in Users, NEW y \in Posts
       PROVE  VotesOf(u, y)' = VotesOf(u, y)
  <2>1. \A v \in Votes : vote[v].user = u =>
          vote[v].option \in Options /\ option[vote[v].option] # None
    BY <1>3, NoRows, Identifiers DEF IInv, TypeOK, RowsAreWhole
  <2>2. \A v \in Votes : vote[v].user = u =>
          option'[vote[v].option] = option[vote[v].option]
    BY <1>7, <2>1
  <2> QED
    BY <1>10, <2>1, <2>2 DEF VotesOf, OptionsOf
<1> QED
  BY <1>1, <1>5, <1>6, <1>7, <1>8, <1>9, <1>10

LEMMA NewPostStep ==
  ASSUME IInv, NEW p \in Posts, NEW u \in Users, NEW status \in PostStatus,
         NEW A \in SUBSET Users, NEW n \in 0..MaxOptions, NewPost(p, u, status, A, n)
  PROVE  IInv'
<1> DEFINE row == [author |-> u, poll |-> n > 0, status |-> status, audience |-> A]
<1>1. /\ Counted /\ ~Exists(p) /\ \A r \in Requests : request[r].on # p
      /\ post' = [post EXCEPT ![p] = row] /\ Names(p, n)
      /\ UNCHANGED <<vote, comment, like, request, raced, crossed, cut>>
  BY DEF NewPost
<1>2. row \in CommunityPost /\ row.author = u /\ row # NoPost
  <2>1. row \in CommunityPost /\ row.author = u
    BY DEF CommunityPost
  <2> QED
    BY <2>1, NoRows, Identifiers
<1> HIDE DEF row
<1>3. TypeOK
  BY DEF IInv
<1>4. /\ post' \in [Posts -> CommunityPost] /\ post'[p] = row
      /\ \A y \in Posts \ {p} : post'[y] = post[y]
  BY <1>1, <1>2, <1>3 DEF TypeOK
<1>5. /\ \A y \in Posts : Exists(y) => post'[y] = post[y] /\ Exists(y)'
      /\ Exists(p)'
  BY <1>1, <1>2, <1>4 DEF Exists
<1>6. /\ option' \in [Options -> Posts \cup {None}]
      /\ named' \in [Posts -> SUBSET Options] /\ named'[p] = NewOptions(n)
      /\ \A y \in Posts \ {p} : named'[y] = named[y] /\ OptionsOf(y)' = OptionsOf(y)
      /\ OptionsOf(p)' = OptionsOf(p) \cup NewOptions(n)
      /\ \A o \in Options : option[o] # None => option'[o] = option[o]
      /\ \A o \in Options : option'[o] = option[o] \/ option'[o] = p
      /\ \A w \in Users, y \in Posts : VotesOf(w, y)' = VotesOf(w, y)
  BY <1>1, Named
<1>7. RowTypes'
  <2>1. \A o \in Options : option'[o] # None => post'[option'[o]] # NoPost
    <3>1. SUFFICES ASSUME NEW o \in Options, option'[o] # None
                   PROVE  post'[option'[o]] # NoPost
      OBVIOUS
    <3>2. CASE option'[o] = option[o]
      BY <1>5, <3>1, <3>2, RowsBelong DEF Exists
    <3>3. CASE option'[o] = p
      BY <1>5, <3>3 DEF Exists
    <3> QED
      BY <1>6, <3>2, <3>3
  <2>2. \A v \in Votes : vote[v] # NoVote => option'[vote[v].option] # None
    BY <1>3, <1>6 DEF IInv, TypeOK, RowsAreWhole
  <2> QED
    BY <1>1, <1>3, <1>6, <2>1, <2>2 DEF TypeOK, RowTypes, Exists
<1>8. RowsAreWhole'
  <2>1. \A y \in Posts : Exists(y)' => post'[y].author \in Users
    BY <1>2, <1>4 DEF IInv, RowsAreWhole, Exists
  <2> QED
    BY <1>1, <1>5, <2>1 DEF IInv, RowsAreWhole, Exists
<1>9. RepliesAreInThreads' /\ ThreadsStay
  BY <1>1 DEF IInv, RepliesAreInThreads, ThreadsStay
<1>10. \A w \in Users, y \in Posts : FewerVotes(w, y)
  BY <1>1, <1>6 DEF FewerVotes
<1>11. \A w \in Users, x \in Posts \cup Comments : FewerLikes(w, x)
  BY <1>1, FewerLikesStays
<1>12. OneVote' /\ OneLike'
  BY <1>10, <1>11, OneStays
<1>13. PollIsAsNamed'
  <2>1. SUFFICES ASSUME NEW y \in Posts
                 PROVE  \/ OptionsOf(y)' = named'[y]
                        \/ \E q \in Requests : request'[q].pc = "edit" /\ request'[q].on = y
                        \/ <<"edit", post'[y].author, y>> \in raced'
                        \/ y \in cut'
    BY DEF PollIsAsNamed, OptionsOf
  <2>2. CASE y = p
    <3>1. OptionsOf(p) = {}
      BY <1>1, RowsBelong
    <3>2. OptionsOf(p)' = NewOptions(n)
      BY <1>6, <3>1
    <3>3. OptionsOf(y)' = OptionsOf(p)'
      BY <2>2 DEF OptionsOf
    <3> QED
      BY <1>6, <2>2, <3>2, <3>3
  <2>3. CASE y # p
    BY <1>1, <1>4, <1>6, <2>3 DEF IInv, PollIsAsNamed
  <2> QED
    BY <2>2, <2>3
<1>14. \A q \in Requests : RequestIsSound(q)' /\ RequestKnows(q)'
  <2>1. SUFFICES ASSUME NEW q \in Requests
                 PROVE  RequestIsSound(q)' /\ RequestKnows(q)'
    OBVIOUS
  <2>2. \A y \in Posts : y = request[q].on /\ Exists(y)' =>
          Exists(y) /\ post'[y].author = post[y].author
    BY <1>1, <1>4 DEF Exists
  <2>3. \A w \in Users, y \in Posts : y = request[q].on => FewerOptions(w, y)
    BY <1>1, <1>6 DEF FewerOptions
  <2> QED
    BY <1>1, <1>10, <1>11, <2>2, <2>3, KnowsStays
<1>15. NoteTypes'
  BY <1>1, <1>6, HandledCounts, Types DEF IInv, NoteTypes
<1>16. TypeOK'
  BY <1>1, <1>3, <1>4, <1>7, <1>15, Types DEF TypeOK, RowTypes, NoteTypes
<1> QED
  BY <1>7, <1>8, <1>9, <1>12, <1>13, <1>14, <1>16 DEF IInv

LEMMA CreatePostStep ==
  ASSUME IInv, NEW p \in Posts, NEW u \in Users, NEW A \in SUBSET Users,
         NEW n \in 0..MaxOptions, CreatePost(p, u, A, n) \/ Announce(p, u, n)
  PROVE  IInv'
<1>1. PICK status \in PostStatus, B \in SUBSET Users : NewPost(p, u, status, B, n)
  <2>1. "REQUEST" \in PostStatus /\ "ANNOUNCEMENT" \in PostStatus /\ Users \ {u} \in SUBSET Users
    BY DEF PostStatus
  <2> QED
    BY <2>1 DEF CreatePost, Announce
<1> QED
  BY <1>1, NewPostStep

\* The options of a post go, and their votes.
LEMMA Removed ==
  ASSUME IInv, NEW p \in Posts, Without(OptionsOf(p))
  PROVE  /\ option' \in [Options -> Posts \cup {None}] /\ vote' \in [Votes -> PollVote]
         /\ OptionsOf(p)' = {}
         /\ \A y \in Posts \ {p} : OptionsOf(y)' = OptionsOf(y)
         /\ \A o \in Options : option'[o] # None => option'[o] = option[o] /\ option[o] # p
         /\ \A v \in Votes : vote'[v] # NoVote =>
              vote'[v] = vote[v] /\ option'[vote'[v].option] # None
         /\ \A u \in Users, y \in Posts : VotesOf(u, y)' \subseteq VotesOf(u, y)
         /\ \A u \in Users : VotesOf(u, p)' = {}
<1>1. PICK O : O = OptionsOf(p)
  OBVIOUS
<1>2. /\ option' = [o \in Options |-> IF o \in O THEN None ELSE option[o]]
      /\ vote' = [v \in Votes |-> IF vote[v].option \in O THEN NoVote ELSE vote[v]]
  BY <1>1 DEF Without
<1>3. TypeOK
  BY DEF IInv
<1>4. \A o \in Options : o \in O <=> option[o] = p
  BY <1>1 DEF OptionsOf
<1>5. option' \in [Options -> Posts \cup {None}] /\ vote' \in [Votes -> PollVote]
  BY <1>2, <1>3, NoRows DEF TypeOK
<1>6. /\ \A o \in Options : o \in O => option'[o] = None
      /\ \A o \in Options : o \notin O => option'[o] = option[o]
      /\ \A v \in Votes : vote[v].option \in O => vote'[v] = NoVote
      /\ \A v \in Votes : vote[v].option \notin O => vote'[v] = vote[v]
  BY <1>2
<1>7. OptionsOf(p)' = {}
  BY <1>4, <1>6, Identifiers DEF OptionsOf
<1>8. \A y \in Posts \ {p} : OptionsOf(y)' = OptionsOf(y)
  BY <1>4, <1>6, Identifiers DEF OptionsOf
<1>9. \A o \in Options : option'[o] # None => option'[o] = option[o] /\ option[o] # p
  BY <1>4, <1>6
<1>10. \A v \in Votes : vote'[v] # NoVote =>
         vote'[v] = vote[v] /\ option'[vote'[v].option] # None
  <2>1. SUFFICES ASSUME NEW v \in Votes, vote'[v] # NoVote
                 PROVE  vote'[v] = vote[v] /\ option'[vote'[v].option] # None
    OBVIOUS
  <2>2. vote[v].option \notin O /\ vote'[v] = vote[v]
    BY <1>6, <2>1
  <2>3. vote[v].option \in Options /\ option[vote[v].option] # None
    BY <1>3, <2>1, <2>2 DEF IInv, TypeOK, RowsAreWhole
  <2> QED
    BY <1>6, <2>2, <2>3
<1>11. \A u \in Users, y \in Posts : VotesOf(u, y)' \subseteq VotesOf(u, y)
  <2>1. SUFFICES ASSUME NEW u \in Users, NEW y \in Posts, NEW v \in Votes,
                        vote'[v].user = u, vote'[v].option \in Options,
                        option'[vote'[v].option] = y
                 PROVE  v \in VotesOf(u, y)
    BY DEF VotesOf, OptionsOf
  <2>2. vote'[v] # NoVote
    BY <2>1, NoRows, Identifiers
  <2>3. vote'[v] = vote[v] /\ option'[vote'[v].option] # None
    BY <1>10, <2>2
  <2>4. option[vote[v].option] = y
    BY <1>9, <2>1, <2>3
  <2> QED
    BY <2>1, <2>3, <2>4 DEF VotesOf, OptionsOf
<1>12. \A u \in Users : VotesOf(u, p)' = {}
  BY <1>7 DEF VotesOf
<1> QED
  BY <1>5, <1>7, <1>8, <1>9, <1>10, <1>11, <1>12

LEMMA DropOptionsStep ==
  ASSUME IInv, NEW r \in Requests, NEW p \in Posts, NEW n \in 0..MaxOptions,
         DropOptions(r, p, n)
  PROVE  IInv'
<1> DEFINE next == [Idle EXCEPT !.pc = "edit", !.user = post[p].author, !.on = p, !.size = n]
<1>1. /\ post[p].poll /\ Start(r, next) /\ Without(OptionsOf(p))
      /\ UNCHANGED <<post, comment, like, named, raced, crossed, cut>>
  BY DEF DropOptions
<1>2. TypeOK /\ Exists(p) /\ post[p].author \in Users
  <2>1. Exists(p)
    BY <1>1, NoRows DEF Exists
  <2> QED
    BY <2>1 DEF IInv, RowsAreWhole
<1>3. /\ next \in Request /\ next.pc = "edit" /\ next.user = post[p].author /\ next.on = p
  BY <1>2, IdleIsARequest DEF Idle, Request
<1> HIDE DEF next
<1>4. request[r].pc = "idle" /\ Counted /\ request' = [request EXCEPT ![r] = next]
  BY <1>1, IdleIsARequest DEF Start
<1>5. /\ request' \in [Requests -> Request] /\ request'[r] = next
      /\ \A q \in Requests \ {r} : request'[q] = request[q]
  BY <1>2, <1>3, <1>4 DEF TypeOK
<1>6. /\ option' \in [Options -> Posts \cup {None}] /\ vote' \in [Votes -> PollVote]
      /\ OptionsOf(p)' = {}
      /\ \A y \in Posts \ {p} : OptionsOf(y)' = OptionsOf(y)
      /\ \A o \in Options : option'[o] # None => option'[o] = option[o] /\ option[o] # p
      /\ \A v \in Votes : vote'[v] # NoVote =>
           vote'[v] = vote[v] /\ option'[vote'[v].option] # None
      /\ \A u \in Users, y \in Posts : VotesOf(u, y)' \subseteq VotesOf(u, y)
      /\ \A u \in Users : VotesOf(u, p)' = {}
  BY <1>1, Removed
<1>7. RowTypes'
  <2>1. \A o \in Options : option'[o] # None => post[option'[o]] # NoPost
    BY <1>6, RowsBelong DEF Exists
  <2> QED
    BY <1>1, <1>2, <1>6, <2>1 DEF TypeOK, RowTypes, Exists
<1>8. RowsAreWhole'
  BY <1>1, <1>6 DEF IInv, RowsAreWhole, Exists
<1>9. RepliesAreInThreads' /\ ThreadsStay /\ PostsStay
  BY <1>1 DEF IInv, RepliesAreInThreads, ThreadsStay, PostsStay, Exists
<1>10. Fewer
  <2>1. \A u \in Users, y \in Posts : FewerVotes(u, y)
    BY <1>1, <1>6 DEF FewerVotes
  <2>2. \A u \in Users, y \in Posts : FewerOptions(u, y)
    <3>1. SUFFICES ASSUME NEW u \in Users, NEW y \in Posts
                   PROVE  FewerOptions(u, y)
      OBVIOUS
    <3>2. CASE y = p
      <4>1. OptionsOf(y)' = OptionsOf(p)'
        BY <3>2 DEF OptionsOf
      <4> QED
        BY <1>6, <4>1 DEF FewerOptions
    <3>3. CASE y # p
      BY <1>1, <1>6, <3>3 DEF FewerOptions
    <3> QED
      BY <3>2, <3>3
  <2>3. \A u \in Users, x \in Posts \cup Comments : FewerLikes(u, x)
    BY <1>1, FewerLikesStays
  <2> QED
    BY <2>1, <2>2, <2>3 DEF Fewer
<1>11. OneVote' /\ OneLike'
  BY <1>10, OneStays DEF Fewer
<1>12. PollIsAsNamed'
  <2>1. SUFFICES ASSUME NEW y \in Posts
                 PROVE  \/ OptionsOf(y)' = named'[y]
                        \/ \E q \in Requests : request'[q].pc = "edit" /\ request'[q].on = y
                        \/ <<"edit", post'[y].author, y>> \in raced'
                        \/ y \in cut'
    BY DEF PollIsAsNamed, OptionsOf
  <2>2. CASE y = p
    BY <1>3, <1>5, <2>2
  <2>3. CASE y # p
    <3>1. \A q \in Requests : request[q].pc = "edit" => q # r
      BY <1>4
    <3> QED
      BY <1>1, <1>5, <1>6, <2>3, <3>1 DEF IInv, PollIsAsNamed
  <2> QED
    BY <2>2, <2>3
<1>13. \A q \in Requests \ {r} : RequestIsSound(q)' /\ RequestKnows(q)'
  <2> DEFINE R == Requests \ {r}
  <2>1. R \in SUBSET Requests /\ \A q \in R : request'[q] = request[q]
    BY <1>5
  <2> HIDE DEF R
  <2>2. \A q \in R : RequestIsSound(q)' /\ RequestKnows(q)'
    BY <1>9, <1>10, <2>1, OthersKnow
  <2> QED
    BY <2>2 DEF R
<1>14. RequestIsSound(r)' /\ RequestKnows(r)'
  <2>1. OptionsOf(p)' = {}
    BY <1>6
  <2> QED
    BY <1>1, <1>2, <1>3, <1>5, <2>1 DEF RequestIsSound, RequestKnows, OptionsOf, Exists
<1>15. NoteTypes'
  BY <1>1, <1>4, HandledCounts, Types DEF IInv, NoteTypes
<1>16. post' \in [Posts -> CommunityPost]
  BY <1>1, <1>2 DEF TypeOK
<1>17. TypeOK'
  BY <1>5, <1>7, <1>15, <1>16, Types DEF TypeOK, RowTypes, NoteTypes
<1> QED
  BY <1>8, <1>9, <1>11, <1>12, <1>13, <1>14, <1>17 DEF IInv

\* The new options are all there are, or two edits of the author overlapped.
LEMMA AddOptionsStep ==
  ASSUME IInv, NEW r \in Requests, NEW A \in SUBSET Users, AddOptions(r, A)
  PROVE  IInv'
<1>1. PICK p, n : p = request[r].on /\ n = request[r].size
  OBVIOUS
<1> DEFINE row == [post[p] EXCEPT !.audience = A]
<1>2. /\ request[r].pc = "edit" /\ Exists(p) /\ Names(p, n) /\ Finish(r)
      /\ post' = [post EXCEPT ![p] = row]
      /\ UNCHANGED <<vote, comment, like, crossed, cut>>
  BY <1>1 DEF AddOptions
<1>3. /\ TypeOK /\ p \in Posts /\ request[r].user = post[p].author
      /\ post[p].author \in Users
  BY <1>1, <1>2 DEF IInv, RequestIsSound, RowsAreWhole
<1>4. row \in CommunityPost /\ row.author = post[p].author /\ row # NoPost
  <2>1. post[p] \in CommunityPost
    BY <1>3 DEF TypeOK
  <2>2. row \in CommunityPost /\ row.author = post[p].author
    BY <2>1 DEF CommunityPost
  <2> QED
    BY <1>3, <2>2, NoRows, Identifiers
<1> HIDE DEF row
<1>5. /\ post' \in [Posts -> CommunityPost]
      /\ \A y \in Posts : post'[y].author = post[y].author /\ (Exists(y)' <=> Exists(y))
  <2>1. /\ post' \in [Posts -> CommunityPost] /\ post'[p] = row
        /\ \A y \in Posts \ {p} : post'[y] = post[y]
    BY <1>2, <1>3, <1>4 DEF TypeOK
  <2> QED
    BY <1>2, <1>4, <2>1 DEF Exists
<1>6. /\ option' \in [Options -> Posts \cup {None}]
      /\ named' \in [Posts -> SUBSET Options] /\ named'[p] = NewOptions(n)
      /\ \A y \in Posts \ {p} : named'[y] = named[y] /\ OptionsOf(y)' = OptionsOf(y)
      /\ OptionsOf(p)' = OptionsOf(p) \cup NewOptions(n)
      /\ \A o \in Options : option[o] # None => option'[o] = option[o]
      /\ \A o \in Options : option'[o] = option[o] \/ option'[o] = p
      /\ \A w \in Users, y \in Posts : VotesOf(w, y)' = VotesOf(w, y)
  BY <1>2, <1>3, Named
<1>7. /\ request' \in [Requests -> Request] /\ request'[r] = Idle
      /\ \A q \in Requests \ {r} : request'[q] = request[q]
      /\ raced \subseteq raced' /\ handled' = handled
      /\ raced' \subseteq {"like", "vote", "edit"} \X Users \X (Posts \cup Comments)
      /\ \A q \in Requests \ {r} :
           /\ request[q].pc = "edit" /\ request[q].user = post[p].author
           /\ request[q].on = p
           => <<"edit", post[p].author, p>> \in raced'
  BY <1>1, <1>2, <1>3, Finished
<1>8. RowTypes'
  <2>1. \A o \in Options : option'[o] # None => Exists(option'[o])
    BY <1>2, <1>6, RowsBelong
  <2>2. \A o \in Options : option'[o] # None => post'[option'[o]] # NoPost
    BY <1>5, <1>6, <2>1 DEF Exists
  <2>3. \A v \in Votes : vote[v] # NoVote => option'[vote[v].option] # None
    BY <1>3, <1>6 DEF IInv, TypeOK, RowsAreWhole
  <2> QED
    BY <1>2, <1>3, <1>6, <2>2, <2>3 DEF TypeOK, RowTypes, Exists
<1>9. RowsAreWhole'
  BY <1>2, <1>5 DEF IInv, RowsAreWhole, Exists
<1>10. RepliesAreInThreads' /\ ThreadsStay /\ PostsStay
  BY <1>2, <1>5 DEF IInv, RepliesAreInThreads, ThreadsStay, PostsStay
<1>11. \A w \in Users, y \in Posts : FewerVotes(w, y)
  BY <1>2, <1>6, <1>7 DEF FewerVotes
<1>12. \A w \in Users, x \in Posts \cup Comments : FewerLikes(w, x)
  BY <1>2, <1>7, FewerLikesStays
<1>13. OneVote' /\ OneLike'
  BY <1>11, <1>12, OneStays
<1>14. PollIsAsNamed'
  <2>1. SUFFICES ASSUME NEW y \in Posts
                 PROVE  \/ OptionsOf(y)' = named'[y]
                        \/ \E q \in Requests : request'[q].pc = "edit" /\ request'[q].on = y
                        \/ <<"edit", post'[y].author, y>> \in raced'
                        \/ y \in cut'
    BY DEF PollIsAsNamed, OptionsOf
  <2>2. CASE y = p
    <3>1. CASE <<"edit", post[p].author, p>> \in raced
      BY <1>3, <1>5, <1>7, <2>2, <3>1
    <3>2. CASE <<"edit", post[p].author, p>> \notin raced
      <4>1. OptionsOf(p) = {}
        BY <1>1, <1>2, <1>3, <3>2 DEF IInv, RequestKnows
      <4>2. OptionsOf(y)' = OptionsOf(p)'
        BY <2>2 DEF OptionsOf
      <4> QED
        BY <1>6, <2>2, <4>1, <4>2
    <3> QED
      BY <3>1, <3>2
  <2>3. CASE y # p
    BY <1>1, <1>2, <1>5, <1>6, <1>7, <2>3 DEF IInv, PollIsAsNamed
  <2> QED
    BY <2>2, <2>3
<1>15. ASSUME NEW q \in Requests \ {r}
       PROVE  RequestIsSound(q)' /\ RequestKnows(q)'
  <2>1. request[q].pc = "edit" =>
          \A w \in Users, y \in Posts :
            w = request[q].user /\ y = request[q].on => FewerOptions(w, y)
    <3>1. SUFFICES ASSUME request[q].pc = "edit", NEW w \in Users, NEW y \in Posts,
                          w = request[q].user, y = request[q].on
                   PROVE  FewerOptions(w, y)
      OBVIOUS
    <3>2. CASE y = p
      <4>1. request[q].user = post[p].author
        BY <1>2, <3>1, <3>2 DEF IInv, RequestIsSound
      <4> QED
        BY <1>7, <3>1, <3>2, <4>1 DEF FewerOptions
    <3>3. CASE y # p
      BY <1>6, <1>7, <3>3 DEF FewerOptions
    <3> QED
      BY <3>2, <3>3
  <2> QED
    BY <1>7, <1>10, <1>11, <1>12, <2>1, KnowsStays DEF PostsStay, ThreadsStay
<1>16. RequestIsSound(r)' /\ RequestKnows(r)'
  BY <1>7, IdleIsARequest DEF RequestIsSound, RequestKnows
<1>17. NoteTypes'
  BY <1>2, <1>6, <1>7, Types DEF IInv, NoteTypes
<1>18. TypeOK'
  BY <1>5, <1>7, <1>8, <1>17, Types DEF TypeOK, RowTypes, NoteTypes
<1> QED
  BY <1>9, <1>10, <1>13, <1>14, <1>15, <1>16, <1>18 DEF IInv

\* A post goes with all that hangs on it, and with what is noted of it.
LEMMA DeletePostStep ==
  ASSUME IInv, NEW p \in Posts, DeletePost(p)
  PROVE  IInv'
<1>1. PICK C : C = CommentsOf(p)
  OBVIOUS
<1>2. /\ Counted /\ Exists(p) /\ post' = [post EXCEPT ![p] = NoPost]
      /\ Without(OptionsOf(p))
      /\ comment' = [c \in Comments |-> IF c \in C THEN NoComment ELSE comment[c]]
      /\ like' = [l \in Likes |-> IF like[l].on \in C \cup {p} THEN NoLike ELSE like[l]]
      /\ named' = [named EXCEPT ![p] = {}]
      /\ raced' = {x \in raced : x[3] \notin C \cup {p}}
      /\ crossed' = {x \in crossed : x[2] # p} /\ cut' = cut \ {p}
      /\ request' = request
  BY <1>1 DEF DeletePost
<1>3. TypeOK /\ C \subseteq Comments /\ \A c \in Comments : c \in C <=> comment[c].post = p
  BY <1>1 DEF IInv, CommentsOf
<1>4. /\ post' \in [Posts -> CommunityPost] /\ post'[p] = NoPost
      /\ \A y \in Posts \ {p} : post'[y] = post[y]
  BY <1>2, <1>3, NoRows DEF TypeOK
<1>5. /\ option' \in [Options -> Posts \cup {None}] /\ vote' \in [Votes -> PollVote]
      /\ OptionsOf(p)' = {}
      /\ \A y \in Posts \ {p} : OptionsOf(y)' = OptionsOf(y)
      /\ \A o \in Options : option'[o] # None => option'[o] = option[o] /\ option[o] # p
      /\ \A v \in Votes : vote'[v] # NoVote =>
           vote'[v] = vote[v] /\ option'[vote'[v].option] # None
      /\ \A u \in Users, y \in Posts : VotesOf(u, y)' \subseteq VotesOf(u, y)
      /\ \A u \in Users : VotesOf(u, p)' = {}
  BY <1>2, Removed
<1>6. comment' \in [Comments -> CommunityComment] /\ like' \in [Likes -> CommunityLike]
  BY <1>2, <1>3, NoRows DEF TypeOK
<1>7. \A c \in Comments : comment'[c] # NoComment =>
        comment'[c] = comment[c] /\ c \notin C /\ comment[c].post # p
  BY <1>2, <1>3
<1>8. \A c \in Comments : c \notin C => comment'[c] = comment[c]
  BY <1>2
<1>9. \A l \in Likes : \/ like'[l] = NoLike
                       \/ like'[l] = like[l] /\ like[l].on \notin C \cup {p}
  BY <1>2
<1>10. RowTypes'
  <2>1. \A o \in Options : option'[o] # None => post'[option'[o]] # NoPost
    BY <1>4, <1>5, RowsBelong DEF Exists
  <2>2. \A v \in Votes : vote'[v] # NoVote => option'[vote'[v].option] # None
    BY <1>5
  <2>3. \A l \in Likes : like'[l].on \in Comments => comment'[like'[l].on] # NoComment
    <3>1. SUFFICES ASSUME NEW l \in Likes, like'[l].on \in Comments
                   PROVE  comment'[like'[l].on] # NoComment
      OBVIOUS
    <3>2. like'[l] = like[l] /\ like[l].on \notin C
      BY <1>9, <3>1, NoRows, Identifiers
    <3> QED
      BY <1>3, <1>8, <3>1, <3>2 DEF TypeOK
  <2> QED
    BY <1>5, <1>6, <2>1, <2>2, <2>3 DEF RowTypes, Exists
<1>11. RowsAreWhole'
  <2>1. \A y \in Posts : post'[y] # NoPost => post'[y].author \in Users
    BY <1>4 DEF IInv, RowsAreWhole, Exists
  <2>2. \A v \in Votes : vote'[v] # NoVote =>
          vote'[v].user \in Users /\ vote'[v].option \in Options
    BY <1>5 DEF IInv, RowsAreWhole
  <2>3. \A c \in Comments : comment'[c] # NoComment =>
          comment'[c].post \in Posts /\ post'[comment'[c].post] # NoPost
    BY <1>4, <1>7 DEF IInv, RowsAreWhole, Exists
  <2> QED
    BY <2>1, <2>2, <2>3 DEF RowsAreWhole, Exists
<1>12. RepliesAreInThreads'
  <2>1. SUFFICES ASSUME NEW c \in Comments, NEW d \in Comments, comment'[c].parent = d
                 PROVE  /\ comment'[d] # NoComment /\ comment'[d].post = comment'[c].post
                        /\ comment'[d].parent = None
    BY DEF RepliesAreInThreads
  <2>2. comment'[c] # NoComment
    BY <2>1, NoRows, Identifiers
  <2>3. comment'[c] = comment[c] /\ comment[c].post # p /\ comment[c].parent = d
    BY <1>7, <2>1, <2>2
  <2>4. comment[d] # NoComment /\ comment[d].post = comment[c].post /\ comment[d].parent = None
    BY <2>3 DEF IInv, RepliesAreInThreads
  <2>5. comment'[d] = comment[d]
    BY <1>3, <1>8, <2>3, <2>4
  <2> QED
    BY <2>3, <2>4, <2>5
<1>13. ThreadsStay /\ PostsStay
  BY <1>4, <1>7 DEF ThreadsStay, PostsStay, Exists
<1>14. /\ \A pc, u : \A x \in Posts \cup Comments :
            <<pc, u, x>> \in raced /\ x \notin C \cup {p} => <<pc, u, x>> \in raced'
       /\ \A u : \A y \in Posts \ {p} : <<u, y>> \in crossed => <<u, y>> \in crossed'
       /\ \A y \in Posts : y \notin C
  BY <1>2, <1>3, Identifiers
<1>15. \A u \in Users, y \in Posts : FewerVotes(u, y) /\ FewerOptions(u, y)
  <2>1. SUFFICES ASSUME NEW u \in Users, NEW y \in Posts
                 PROVE  FewerVotes(u, y) /\ FewerOptions(u, y)
    OBVIOUS
  <2>2. CASE y = p
    <3>1. VotesOf(u, y)' = {} /\ OptionsOf(y)' = {}
      BY <1>5, <2>2 DEF VotesOf, OptionsOf
    <3> QED
      BY <3>1 DEF FewerVotes, FewerOptions
  <2>3. CASE y # p
    BY <1>5, <1>14, <2>3 DEF FewerVotes, FewerOptions
  <2> QED
    BY <2>2, <2>3
<1>16. \A u \in Users, x \in Posts \cup Comments : FewerLikes(u, x)
  <2>1. SUFFICES ASSUME NEW u \in Users, NEW x \in Posts \cup Comments
                 PROVE  FewerLikes(u, x)
    OBVIOUS
  <2>2. [user |-> u, on |-> x] # NoLike
    BY NoRows, Identifiers
  <2>3. CASE x \in C \cup {p}
    <3>1. LikesOf(u, x)' = {}
      BY <1>9, <2>2, <2>3 DEF LikesOf
    <3> QED
      BY <3>1 DEF FewerLikes
  <2>4. CASE x \notin C \cup {p}
    <3>1. LikesOf(u, x)' \subseteq LikesOf(u, x)
      BY <1>9, <2>2 DEF LikesOf
    <3> QED
      BY <1>14, <2>4, <3>1 DEF FewerLikes
  <2> QED
    BY <2>3, <2>4
<1>17. OneVote' /\ OneLike'
  BY <1>15, <1>16, OneStays
<1>18. PollIsAsNamed'
  <2>1. SUFFICES ASSUME NEW y \in Posts
                 PROVE  \/ OptionsOf(y)' = named'[y]
                        \/ \E q \in Requests : request'[q].pc = "edit" /\ request'[q].on = y
                        \/ <<"edit", post'[y].author, y>> \in raced'
                        \/ y \in cut'
    BY DEF PollIsAsNamed, OptionsOf
  <2>2. CASE y = p
    <3>1. OptionsOf(y)' = {}
      BY <1>5, <2>2 DEF OptionsOf
    <3>2. named'[y] = {}
      BY <1>2, <1>3, <2>2 DEF TypeOK
    <3> QED
      BY <3>1, <3>2
  <2>3. CASE y # p
    <3>1. named'[y] = named[y] /\ OptionsOf(y)' = OptionsOf(y) /\ post'[y] = post[y]
      BY <1>2, <1>3, <1>4, <1>5, <2>3 DEF TypeOK
    <3>2. \/ OptionsOf(y) = named[y]
          \/ \E q \in Requests : request[q].pc = "edit" /\ request[q].on = y
          \/ <<"edit", post[y].author, y>> \in raced
          \/ y \in cut
      BY DEF IInv, PollIsAsNamed
    <3> QED
      BY <1>2, <1>14, <2>3, <3>1, <3>2
  <2> QED
    BY <2>2, <2>3
<1>19. \A q \in Requests : RequestIsSound(q)' /\ RequestKnows(q)'
  <2> DEFINE R == Requests
  <2>1. R \in SUBSET Requests /\ \A q \in R : request'[q] = request[q]
    BY <1>2
  <2> HIDE DEF R
  <2>2. \A q \in R : RequestIsSound(q)' /\ RequestKnows(q)'
    BY <1>13, <1>15, <1>16, <2>1, OthersKnow DEF Fewer
  <2> QED
    BY <2>2 DEF R
<1>20. NoteTypes'
  <2>1. named' \in [Posts -> SUBSET Options]
    BY <1>2, <1>3 DEF TypeOK
  <2> QED
    BY <1>2, <2>1, HandledCounts, Types DEF IInv, NoteTypes
<1>21. request' \in [Requests -> Request]
  BY <1>2, <1>3 DEF TypeOK
<1>22. TypeOK'
  BY <1>4, <1>10, <1>20, <1>21, Types DEF TypeOK, RowTypes, NoteTypes
<1> QED
  BY <1>11, <1>12, <1>17, <1>18, <1>19, <1>22 DEF IInv

-----------------------------------------------------------------------------
(* The invariant *)

LEMMA InitIInv == Init => IInv
<1>1. SUFFICES ASSUME Init
               PROVE  IInv
  OBVIOUS
<1>2. /\ \A p \in Posts : OptionsOf(p) = {}
      /\ \A u \in Users, p \in Posts : VotesOf(u, p) = {}
      /\ \A u \in Users, x \in Posts \cup Comments : LikesOf(u, x) = {}
  <2>1. \A u \in Users : \A x : [user |-> u, on |-> x] # NoLike
    BY NoRows, Identifiers
  <2> QED
    BY <1>1, <2>1, Identifiers DEF Init, OptionsOf, VotesOf, LikesOf
<1>3. TypeOK
  <2>1. 0 \in 0..MaxRequests
    BY CommunityAssumption
  <2> QED
    BY <1>1, <2>1, NoRows, Identifiers, IdleIsARequest DEF Init, TypeOK
<1>4. RowsAreWhole
  BY <1>1 DEF Init, RowsAreWhole, Exists
<1>5. RepliesAreInThreads
  BY <1>1, NoRows, Identifiers DEF Init, RepliesAreInThreads
<1>6. PollIsAsNamed
  BY <1>1, <1>2 DEF Init, PollIsAsNamed
<1>7. OneVote /\ OneLike
  BY <1>2 DEF OneVote, OneLike
<1>8. \A r \in Requests : RequestIsSound(r) /\ RequestKnows(r)
  BY <1>1, IdleIsARequest DEF Init, RequestIsSound, RequestKnows
<1> QED
  BY <1>3, <1>4, <1>5, <1>6, <1>7, <1>8 DEF IInv

LEMMA StutterStep ==
  ASSUME IInv, UNCHANGED vars
  PROVE  IInv'
<1>1. UNCHANGED <<post, option, vote, comment, like, request, handled, named, raced, crossed, cut>>
  BY DEF vars
<1>2. RowTypes' /\ RowsAreWhole' /\ RepliesAreInThreads'
  BY <1>1, RowsStay DEF Exists
<1>3. handled' \in 0..MaxRequests /\ request' \in [Requests -> Request]
  BY <1>1 DEF IInv, TypeOK
<1>4. \A u \in Users, x \in Posts \cup Comments : FewerLikes(u, x)
  BY <1>1, FewerLikesStays
<1> DEFINE R == Requests
<1>5. /\ R \in SUBSET Requests /\ \A q \in R : request'[q] = request[q]
      /\ \A q \in Requests \ R : request[q].pc # "edit" /\ request'[q] = Idle
  BY <1>1
<1> HIDE DEF R
<1> QED
  BY <1>1, <1>2, <1>3, <1>4, <1>5, CommentsChange

LEMMA NextIInv == IInv /\ [Next]_vars => IInv'
<1>1. SUFFICES ASSUME IInv, [Next]_vars
               PROVE  IInv'
  OBVIOUS
<1>2. CASE PostStep
  BY <1>1, <1>2, CreatePostStep, UpdatePostStep, DropOptionsStep, ChangePostStatusStep,
     DeletePostStep DEF PostStep
<1>3. ASSUME NEW r \in Requests, EditStep(r) \/ Abort(r)
      PROVE  IInv'
  BY <1>1, <1>3, AddOptionsStep, AbortStep DEF EditStep
<1>4. ASSUME NEW r \in Requests, LikeStep(r)
      PROVE  IInv'
  BY <1>1, <1>4, ReadLikeStep, LikeStepOne, UnlikeStep DEF LikeStep
<1>5. ASSUME NEW r \in Requests, VoteStep(r)
      PROVE  IInv'
  BY <1>1, <1>5, ReadVoteStep, VoteStepOne, ChangeVoteStep, UnvoteStep DEF VoteStep
<1>6. ASSUME NEW r \in Requests, CommentStep(r)
      PROVE  IInv'
  BY <1>1, <1>6, ReadCommentStep, CommentPostStep, DeleteCommentStep, MarkDeletedStep
     DEF CommentStep
<1>7. CASE UNCHANGED vars
  BY <1>1, <1>7, StutterStep
<1> QED
  BY <1>1, <1>2, <1>3, <1>4, <1>5, <1>6, <1>7 DEF Next

-----------------------------------------------------------------------------
(* The theorems *)

\* The inductive invariant holds: what a request that nobody overtook has found
\* of votes, likes, options and threads is still all there is when it writes.
THEOREM Invariance == Spec => []IInv
<1>1. Init => IInv
  BY InitIInv
<1>2. IInv /\ [Next]_vars => IInv'
  BY NextIInv
<1> QED
  BY <1>1, <1>2, PTL DEF Spec

\* The variables keep their types, and what hangs on a row goes with it.
THEOREM TypeCorrectness == Spec => []TypeOK
<1>1. IInv => TypeOK
  BY DEF IInv
<1> QED
  BY <1>1, Invariance, PTL

\* A user has one vote in a poll and one like of a thing, unless two of his
\* requests overlapped or a vote was asked for under another post.
THEOREM VotesAndLikesAreOne == Spec => []OneVoteAndOneLike
<1>1. IInv => OneVoteAndOneLike
  BY AtMostOne DEF IInv, OneVote, OneLike, OneVoteAndOneLike
<1> QED
  BY <1>1, Invariance, PTL

\* A poll has the options it was last given, unless its author edits it, edited
\* it twice at the same time, or an edit stopped half way.
THEOREM PollsAreAsNamed == Spec => []PollIsAsNamed
<1>1. IInv => PollIsAsNamed
  BY DEF IInv
<1> QED
  BY <1>1, Invariance, PTL

\* Every comment of a post is in its list.
THEOREM CommentsAreListed == Spec => []EveryCommentIsListed
<1>1. IInv => EveryCommentIsListed
  <2>1. SUFFICES ASSUME IInv, NEW p \in Posts, NEW c \in CommentsOf(p),
                        comment[c].parent # None
                 PROVE  \E d \in CommentsOf(p) : comment[d].parent = None /\ c \in Replies(d)
    BY DEF EveryCommentIsListed, Listed
  <2>2. c \in Comments /\ comment[c].post = p
    BY DEF CommentsOf
  <2>3. comment[c].parent \in Comments
    BY <2>1, <2>2 DEF IInv, TypeOK, CommunityComment
  <2>4. PICK d \in Comments : comment[c].parent = d
    BY <2>3
  <2>5. comment[d].post = p /\ comment[d].parent = None
    BY <2>1, <2>2, <2>4 DEF IInv, RepliesAreInThreads
  <2> QED
    BY <2>2, <2>4, <2>5 DEF CommentsOf, Replies
<1> QED
  BY <1>1, Invariance, PTL
================================================================================
