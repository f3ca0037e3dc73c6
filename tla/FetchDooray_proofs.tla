-------------------------- MODULE FetchDooray_proofs --------------------------
(***************************************************************************)
(* Proofs about FetchDooray, for any project, any number of retries and    *)
(* any number of runs.                                                     *)
(***************************************************************************)
EXTENDS FetchDooray, TLAPS

-----------------------------------------------------------------------------
(* The inductive invariant *)

AtPosts == {"post", "post get", "post comment list"}
AtPages == {"page", "wiki page", "wiki children"}
AtNames == {"tags", "project tags", "members", "member list"}
AtMembers == {"member", "member get"}
Finished == {"ok", "failed"}

\* What a list on disk holds; a run that asks for a list does not have it.
DiskOf ==
    /\ "posts" \notin lists => posts = {}
    /\ "members" \notin lists => members = {}
    /\ pc = "post list" => "posts" \notin lists
    /\ pc = "member list" => "members" \notin lists

\* What is still under way: tasks to do and the one at hand.
PostsLeft ==
    (IF pc = "post" THEN todo ELSE {})
      \cup (IF pc \in {"post get", "post comment list"} THEN todo \cup {subject} ELSE {})

\* Every task of the list is to do, or stored and searched for members, or has failed.
PostsOf ==
    pc \in AtPosts \cup {"wiki roots"} \cup AtPages \cup AtNames \cup AtMembers \cup Finished =>
        /\ "posts" \in lists \/ <<"posts", None>> \in failures
        /\ ~limited =>
             \A n \in posts :
                 \/ n \in PostsLeft
                 \/ n \in docs /\ Mentions[n] \subseteq mentioned
                 \/ <<"post", n>> \in failures
        /\ \A n \in posts : Summaries[n] \subseteq mentioned

\* Every page that was found is looked at or in the queue, and every page that
\* was looked at is stored, has failed or is at hand; so are its children.
PagesOf ==
    /\ pc \in {"wiki page", "wiki children"} => subject \in seen
    /\ pc \in AtPages \cup AtNames \cup AtMembers \cup Finished
         /\ <<"wiki roots", None>> \notin failures /\ ~limited =>
        /\ pc \notin AtPages => queue = {}
        /\ Roots \subseteq seen \cup queue \cup {None}
        /\ \A p \in seen : None \in children[p] =>
              \/ None \in queue \/ <<"wiki", None>> \in failures
              \/ <<"wiki children", p>> \in failures
              \/ pc \in {"wiki page", "wiki children"} /\ subject = p
        /\ \A p \in seen :
              \/ p \in docs /\ Mentions[p] \subseteq mentioned
              \/ <<"wiki", p>> \in failures
              \/ pc = "wiki page" /\ subject = p
        /\ \A p \in seen :
              \/ children[p] \subseteq seen \cup queue \cup {None}
              \/ <<"wiki children", p>> \in failures
              \/ pc \in {"wiki page", "wiki children"} /\ subject = p
    /\ pc \in AtPosts \cup {"posts", "post list", "wiki roots"} => seen = {} /\ queue = {}
    /\ pc \in AtPosts \cup {"posts", "post list", "wiki roots"} \cup AtPages =>
         <<"wiki roots", None>> \notin failures
    /\ <<"wiki roots", None>> \in failures => seen = {} /\ queue = {}

TagsOf ==
    pc \in {"members", "member list"} \cup AtMembers \cup Finished =>
        "tags" \in lists \/ <<"tags", None>> \in failures

\* Who is mentioned is named, to do, at hand or failed; and the map in memory
\* has what the one on disk has.
MembersOf ==
    /\ changed => pc \notin {"posts", "post list", "wiki roots"} \cup AtPosts \cup AtPages \cup AtNames
    /\ pc \in AtMembers =>
         /\ \A m \in mentioned :
              \/ m \in names \cup todo
              \/ pc = "member get" /\ subject = m
              \/ <<"member", m>> \in failures
         /\ members \subseteq names
         /\ "members" \notin lists => <<"members", None>> \in failures
         /\ ~changed => names = members
    /\ pc \in Finished =>
         \A m \in mentioned :
            ("members" \in lists /\ m \in members) \/ <<"member", m>> \in failures
    /\ pc \in Finished => "members" \in lists \/ <<"members", None>> \in failures

Ok == pc = "ok" => failures = {}

IInv == TypeOK /\ DiskOf /\ PostsOf /\ PagesOf /\ TagsOf /\ MembersOf /\ Ok

-----------------------------------------------------------------------------
(* What the assumption gives *)

LEMMA Zero == 0 \in 0 .. RetryDelays
  BY FetchAssumption

LEMMA Delays == RetryDelays \in Nat
  BY FetchAssumption

LEMMA Apart == None \notin Posts \cup Pages \cup Members
  BY FetchAssumption DEF Documents

LEMMA Constants ==
    /\ \A l \in PostLists : l \subseteq Posts \cup {None}
    /\ Roots \subseteq Pages \cup {None}
    /\ \A c \in Wikis : \A p \in Pages : c[p] \subseteq Pages \cup {None}
    /\ Directory \subseteq Members
    /\ \A d \in Documents : Mentions[d] \subseteq Members
    /\ \A n \in Posts \cup {None} : Summaries[n] \subseteq Members
  BY FetchAssumption

-----------------------------------------------------------------------------
(* Every step keeps every part of the invariant *)

\* The wiki is the same for all runs.
LEMMA SameWiki == Next => children' = children
  BY DEF Next, Start, Ingest, Kill

\* What is on disk keeps its type.
LEMMA DiskTypesKept == ASSUME IInv, Next PROVE DiskTypes'
  <1> USE DEF disk, wiki, map, Look, Call, GivesUp, Answered, Handled, Selects,
          Takes, Collected, CallChildren, Knows, AtPosts, AtPages, AtNames,
          AtMembers, Finished, PostsLeft, Documents, Ended, Looking, Calling
  <1>1. ASSUME CollectPosts PROVE DiskTypes'
    BY <1>1, Constants DEF IInv, TypeOK, DiskTypes, CallTypes, RunTypes,
         CollectPosts, PostsOnDisk, PostsMissing, PostsListed, PostListFails,
         PostUnknown, PostGot, PostStored, PostFails, PostsDone, PostOnDisk,
         PostMissing
  <1>2. ASSUME CollectWiki PROVE DiskTypes'
    BY <1>2, Constants DEF IInv, TypeOK, DiskTypes, CallTypes, RunTypes,
         CollectWiki, RootsListed, RootsFail, PageUnknown, PageStored,
         PageFails, ChildrenListed, ChildrenFail, PagesDone, PageSeen,
         PageOnDisk, PageMissing
  <1>3. ASSUME CollectNames PROVE DiskTypes'
    BY <1>3, Constants DEF IInv, TypeOK, DiskTypes, CallTypes, RunTypes,
         CollectNames, TagsOnDisk, TagsMissing, TagsListed, TagsFail,
         MembersOnDisk, MembersMissing, MembersListed, MembersFail, MemberNamed,
         MemberFails, Finish, MemberMissing
  <1>4. ASSUME Retry \/ Abort \/ Kill \/ \E limit \in BOOLEAN : Start(limit)
       PROVE  DiskTypes'
    BY <1>4, Constants DEF IInv, TypeOK, DiskTypes, CallTypes, RunTypes, Retry,
         Abort, Kill, Start
  <1>5. QED BY <1>1, <1>2, <1>3, <1>4 DEF Next, Ingest

\* The program counter and the call at hand keep theirs.
LEMMA CallTypesKept == ASSUME IInv, Next PROVE CallTypes'
  <1> USE DEF disk, wiki, map, Look, Call, GivesUp, Answered, Handled, Selects,
          Takes, Collected, CallChildren, Knows, AtPosts, AtPages, AtNames,
          AtMembers, Finished, PostsLeft, Documents, Ended, Looking, Calling
  <1>1. ASSUME CollectPosts PROVE CallTypes'
    BY <1>1, Zero DEF IInv, TypeOK, CallTypes, RunTypes, CollectPosts,
         PostsOnDisk, PostsMissing, PostsListed, PostListFails, PostUnknown,
         PostGot, PostStored, PostFails, PostsDone, PostOnDisk, PostMissing
  <1>2. ASSUME CollectWiki PROVE CallTypes'
    BY <1>2, Zero DEF IInv, TypeOK, CallTypes, RunTypes, CollectWiki,
         RootsListed, RootsFail, PageUnknown, PageStored, PageFails,
         ChildrenListed, ChildrenFail, PagesDone, PageSeen, PageOnDisk,
         PageMissing
  <1>3. ASSUME CollectNames PROVE CallTypes'
    BY <1>3, Zero DEF IInv, TypeOK, CallTypes, RunTypes, CollectNames,
         TagsOnDisk, TagsMissing, TagsListed, TagsFail, MembersOnDisk,
         MembersMissing, MembersListed, MembersFail, MemberNamed, MemberFails,
         Finish, MemberMissing
  <1>4. ASSUME Retry \/ Abort \/ Kill \/ \E limit \in BOOLEAN : Start(limit)
       PROVE  CallTypes'
    <2>1. CASE Retry
      <3>0. attempt \in 0 .. RetryDelays /\ attempt < RetryDelays
        BY <2>1 DEF Retry, IInv, TypeOK, CallTypes
      <3>1. attempt + 1 \in 0 .. RetryDelays
        BY <3>0, Delays
      <3>2. attempt' \in 0 .. RetryDelays /\ pc' = pc /\ subject' = subject
        BY <2>1, <3>1 DEF Retry
      <3>3. CallTypes
        BY DEF IInv, TypeOK
      <3>4. QED
        BY <3>2, <3>3 DEF CallTypes
    <2>2. CASE Abort
      BY <2>2, Zero DEF IInv, TypeOK, CallTypes, RunTypes, Abort
    <2>3. CASE Kill
      BY <2>3, Zero DEF IInv, TypeOK, CallTypes, RunTypes, Kill
    <2>4. ASSUME NEW limit \in BOOLEAN, Start(limit) PROVE CallTypes'
      BY <2>4, Zero DEF IInv, TypeOK, CallTypes, RunTypes, Start
    <2>5. QED
      BY <1>4, <2>1, <2>2, <2>3, <2>4
  <1>5. QED BY <1>1, <1>2, <1>3, <1>4 DEF Next, Ingest

\* So do the variables of the run.
LEMMA RunTypesKept == ASSUME IInv, Next PROVE RunTypes'
  <1> USE DEF disk, wiki, map, Look, Call, GivesUp, Answered, Handled, Selects,
          Takes, Collected, CallChildren, Knows, AtPosts, AtPages, AtNames,
          AtMembers, Finished, PostsLeft, Documents, Ended, Looking, Calling
  <1>1. ASSUME CollectPosts PROVE RunTypes'
    <2>1. CASE PostsOnDisk
      BY <2>1, Constants DEF IInv, TypeOK, RunTypes, CallTypes, DiskTypes,
           PostsOnDisk
    <2>2. CASE PostsMissing
      BY <2>2, Constants DEF IInv, TypeOK, RunTypes, CallTypes, DiskTypes,
           PostsMissing
    <2>3. CASE PostsListed
      BY <2>3, Constants DEF IInv, TypeOK, RunTypes, CallTypes, DiskTypes,
           PostsListed
    <2>4. CASE PostListFails
      BY <2>4, Constants DEF IInv, TypeOK, RunTypes, CallTypes, DiskTypes,
           PostListFails
    <2>5. CASE PostUnknown
      BY <2>5, Constants DEF IInv, TypeOK, RunTypes, CallTypes, DiskTypes,
           PostUnknown
    <2>6. CASE PostGot
      BY <2>6, Constants DEF IInv, TypeOK, RunTypes, CallTypes, DiskTypes,
           PostGot
    <2>7. CASE PostStored
      BY <2>7, Constants DEF IInv, TypeOK, RunTypes, CallTypes, DiskTypes,
           PostStored
    <2>8. CASE PostFails
      BY <2>8, Constants DEF IInv, TypeOK, RunTypes, CallTypes, DiskTypes,
           PostFails
    <2>9. CASE PostsDone
      BY <2>9, Constants DEF IInv, TypeOK, RunTypes, CallTypes, DiskTypes,
           PostsDone
    <2>10. ASSUME NEW n \in Posts, PostOnDisk(n) PROVE RunTypes'
      BY <2>10, Constants DEF IInv, TypeOK, RunTypes, CallTypes, DiskTypes,
           PostOnDisk
    <2>11. ASSUME NEW n \in Posts, PostMissing(n) PROVE RunTypes'
      BY <2>11, Constants DEF IInv, TypeOK, RunTypes, CallTypes, DiskTypes,
           PostMissing
    <2>12. QED
      BY <1>1, <2>1, <2>2, <2>3, <2>4, <2>5, <2>6, <2>7, <2>8, <2>9, <2>10,
         <2>11 DEF CollectPosts
  <1>2. ASSUME CollectWiki PROVE RunTypes'
    BY <1>2, Constants DEF IInv, TypeOK, RunTypes, CallTypes, DiskTypes,
         CollectWiki, RootsListed, RootsFail, PageUnknown, PageStored,
         PageFails, ChildrenListed, ChildrenFail, PagesDone, PageSeen,
         PageOnDisk, PageMissing
  <1>3. ASSUME CollectNames PROVE RunTypes'
    BY <1>3, Constants DEF IInv, TypeOK, RunTypes, CallTypes, DiskTypes,
         CollectNames, TagsOnDisk, TagsMissing, TagsListed, TagsFail,
         MembersOnDisk, MembersMissing, MembersListed, MembersFail, MemberNamed,
         MemberFails, Finish, MemberMissing
  <1>4. ASSUME Retry \/ Abort \/ Kill \/ \E limit \in BOOLEAN : Start(limit)
       PROVE  RunTypes'
    <2>1. CASE Retry
      BY <2>1, Constants DEF IInv, TypeOK, RunTypes, CallTypes, DiskTypes, Retry
    <2>2. CASE Abort
      BY <2>2, Constants DEF IInv, TypeOK, RunTypes, CallTypes, DiskTypes, Abort
    <2>3. CASE Kill
      BY <2>3, Constants DEF IInv, TypeOK, RunTypes, CallTypes, DiskTypes, Kill
    <2>4. ASSUME NEW limit \in BOOLEAN, Start(limit) PROVE RunTypes'
      <3>1. runs' \in Nat
        BY <2>4 DEF Start, IInv, TypeOK, RunTypes
      <3>2. limited' \in BOOLEAN /\ changed' \in BOOLEAN
        BY <2>4 DEF Start
      <3>3. /\ todo' = {} /\ queue' = {} /\ seen' = {}
            /\ mentioned' = {} /\ names' = {}
        BY <2>4 DEF Start
      <3>4. QED BY <3>1, <3>2, <3>3 DEF RunTypes
    <2>5. QED
      BY <1>4, <2>1, <2>2, <2>3, <2>4
  <1>5. QED BY <1>1, <1>2, <1>3, <1>4 DEF Next, Ingest

\* A list that is not on disk has no content, and a run asks only for lists
\* that are not there.
LEMMA DiskOfKept == ASSUME IInv, Next PROVE DiskOf'
  <1> USE DEF disk, wiki, map, Look, Call, GivesUp, Answered, Handled, Selects,
          Takes, Collected, CallChildren, Knows, AtPosts, AtPages, AtNames,
          AtMembers, Finished, PostsLeft, Documents, Ended, Looking, Calling
  <1>1. ASSUME CollectPosts PROVE DiskOf'
    BY <1>1 DEF IInv, DiskOf, CollectPosts, PostsOnDisk, PostsMissing,
         PostsListed, PostListFails, PostUnknown, PostGot, PostStored,
         PostFails, PostsDone, PostOnDisk, PostMissing
  <1>2. ASSUME CollectWiki PROVE DiskOf'
    BY <1>2 DEF IInv, DiskOf, CollectWiki, RootsListed, RootsFail, PageUnknown,
         PageStored, PageFails, ChildrenListed, ChildrenFail, PagesDone,
         PageSeen, PageOnDisk, PageMissing
  <1>3. ASSUME CollectNames PROVE DiskOf'
    BY <1>3 DEF IInv, DiskOf, CollectNames, TagsOnDisk, TagsMissing, TagsListed,
         TagsFail, MembersOnDisk, MembersMissing, MembersListed, MembersFail,
         MemberNamed, MemberFails, Finish, MemberMissing
  <1>4. ASSUME Retry \/ Abort \/ Kill \/ \E limit \in BOOLEAN : Start(limit)
       PROVE  DiskOf'
    BY <1>4 DEF IInv, DiskOf, Retry, Abort, Kill, Start
  <1>5. QED BY <1>1, <1>2, <1>3, <1>4 DEF Next, Ingest

\* No task gets lost on its way from the list to the disk.
LEMMA PostsOfKept == ASSUME IInv, Next PROVE PostsOf'
  <1> USE DEF disk, wiki, map, Look, Call, GivesUp, Answered, Handled, Selects,
          Takes, Collected, CallChildren, Knows, AtPosts, AtPages, AtNames,
          AtMembers, Finished, PostsLeft, Documents, Ended, Looking, Calling
  <1>1. ASSUME CollectPosts PROVE PostsOf'
    <2>1. CASE PostsOnDisk
      BY <2>1, Apart DEF IInv, PostsOf, DiskOf, TypeOK, DiskTypes, CallTypes,
           PostsOnDisk
    <2>2. CASE PostsMissing
      BY <2>2, Apart DEF IInv, PostsOf, DiskOf, TypeOK, DiskTypes, CallTypes,
           PostsMissing
    <2>3. CASE PostsListed
      <3>1. PICK l \in PostLists : posts' = l /\ Selects(l)
        BY <2>3 DEF PostsListed
      <3>2. pc' = "post" /\ (~limited => todo' = posts')
        BY <3>1
      <3>3. \A n \in posts' : Summaries[n] \subseteq mentioned'
        BY <3>1
      <3>4. "posts" \in lists' /\ limited' = limited
        BY <2>3 DEF PostsListed
      <3>5. QED BY <3>2, <3>3, <3>4 DEF PostsOf
    <2>4. CASE PostListFails
      BY <2>4, Apart DEF IInv, PostsOf, DiskOf, TypeOK, DiskTypes, CallTypes,
           PostListFails
    <2>5. CASE PostUnknown
      BY <2>5, Apart DEF IInv, PostsOf, DiskOf, TypeOK, DiskTypes, CallTypes,
           PostUnknown
    <2>6. CASE PostGot
      BY <2>6, Apart DEF IInv, PostsOf, DiskOf, TypeOK, DiskTypes, CallTypes,
           PostGot
    <2>7. CASE PostStored
      BY <2>7, Apart DEF IInv, PostsOf, DiskOf, TypeOK, DiskTypes, CallTypes,
           PostStored
    <2>8. CASE PostFails
      BY <2>8, Apart DEF IInv, PostsOf, DiskOf, TypeOK, DiskTypes, CallTypes,
           PostFails
    <2>9. CASE PostsDone
      BY <2>9, Apart DEF IInv, PostsOf, DiskOf, TypeOK, DiskTypes, CallTypes,
           PostsDone
    <2>10. ASSUME NEW n \in Posts, PostOnDisk(n) PROVE PostsOf'
      BY <2>10, Apart DEF IInv, PostsOf, DiskOf, TypeOK, DiskTypes, CallTypes,
           PostOnDisk
    <2>11. ASSUME NEW n \in Posts, PostMissing(n) PROVE PostsOf'
      BY <2>11, Apart DEF IInv, PostsOf, DiskOf, TypeOK, DiskTypes, CallTypes,
           PostMissing
    <2>12. QED
      BY <1>1, <2>1, <2>2, <2>3, <2>4, <2>5, <2>6, <2>7, <2>8, <2>9, <2>10,
         <2>11 DEF CollectPosts
  <1>2. ASSUME CollectWiki PROVE PostsOf'
    <2>1. CASE RootsListed
      BY <2>1, Apart DEF IInv, PostsOf, DiskOf, TypeOK, DiskTypes, CallTypes,
           RootsListed
    <2>2. CASE RootsFail
      BY <2>2, Apart DEF IInv, PostsOf, DiskOf, TypeOK, DiskTypes, CallTypes,
           RootsFail
    <2>3. CASE PageUnknown
      BY <2>3, Apart DEF IInv, PostsOf, DiskOf, TypeOK, DiskTypes, CallTypes,
           PageUnknown
    <2>4. CASE PageStored
      BY <2>4, Apart DEF IInv, PostsOf, DiskOf, TypeOK, DiskTypes, CallTypes,
           PageStored
    <2>5. CASE PageFails
      BY <2>5, Apart DEF IInv, PostsOf, DiskOf, TypeOK, DiskTypes, CallTypes,
           PageFails
    <2>6. CASE ChildrenListed
      BY <2>6, Apart DEF IInv, PostsOf, DiskOf, TypeOK, DiskTypes, CallTypes,
           ChildrenListed
    <2>7. CASE ChildrenFail
      BY <2>7, Apart DEF IInv, PostsOf, DiskOf, TypeOK, DiskTypes, CallTypes,
           ChildrenFail
    <2>8. CASE PagesDone
      BY <2>8, Apart DEF IInv, PostsOf, DiskOf, TypeOK, DiskTypes, CallTypes,
           PagesDone
    <2>9. ASSUME NEW p \in Pages, PageSeen(p) PROVE PostsOf'
      BY <2>9, Apart DEF IInv, PostsOf, DiskOf, TypeOK, DiskTypes, CallTypes,
           PageSeen
    <2>10. ASSUME NEW p \in Pages, PageOnDisk(p) PROVE PostsOf'
      BY <2>10, Apart DEF IInv, PostsOf, DiskOf, TypeOK, DiskTypes, CallTypes,
           PageOnDisk
    <2>11. ASSUME NEW p \in Pages, PageMissing(p) PROVE PostsOf'
      BY <2>11, Apart DEF IInv, PostsOf, DiskOf, TypeOK, DiskTypes, CallTypes,
           PageMissing
    <2>12. QED
      BY <1>2, <2>1, <2>2, <2>3, <2>4, <2>5, <2>6, <2>7, <2>8, <2>9, <2>10,
         <2>11 DEF CollectWiki
  <1>3. ASSUME CollectNames PROVE PostsOf'
    BY <1>3, Apart DEF IInv, PostsOf, DiskOf, TypeOK, DiskTypes, CallTypes,
         CollectNames, TagsOnDisk, TagsMissing, TagsListed, TagsFail,
         MembersOnDisk, MembersMissing, MembersListed, MembersFail, MemberNamed,
         MemberFails, Finish, MemberMissing
  <1>4. ASSUME Retry \/ Abort \/ Kill \/ \E limit \in BOOLEAN : Start(limit)
       PROVE  PostsOf'
    BY <1>4, Apart DEF IInv, PostsOf, DiskOf, TypeOK, DiskTypes, CallTypes,
         Retry, Abort, Kill, Start
  <1>5. QED BY <1>1, <1>2, <1>3, <1>4 DEF Next, Ingest

\* No page gets lost between the roots, the queue and the disk.
LEMMA PagesOfKept == ASSUME IInv, Next PROVE PagesOf'
  <1> USE DEF disk, wiki, map, Look, Call, GivesUp, Answered, Handled, Selects,
          Takes, Collected, CallChildren, Knows, AtPosts, AtPages, AtNames,
          AtMembers, Finished, PostsLeft, Documents, Ended, Looking, Calling
  <1>0. children' = children
    BY SameWiki
  <1> USE <1>0
  <1>1. ASSUME CollectPosts PROVE PagesOf'
    BY <1>1, Apart DEF IInv, PagesOf, TypeOK, CallTypes, RunTypes, CollectPosts,
         PostsOnDisk, PostsMissing, PostsListed, PostListFails, PostUnknown,
         PostGot, PostStored, PostFails, PostsDone, PostOnDisk, PostMissing
  <1>2. ASSUME CollectWiki PROVE PagesOf'
    <2>1. CASE RootsListed
      BY <2>1, Apart DEF IInv, PagesOf, TypeOK, CallTypes, RunTypes, RootsListed
    <2>2. CASE RootsFail
      BY <2>2, Apart DEF IInv, PagesOf, TypeOK, CallTypes, RunTypes, RootsFail
    <2>3. CASE PageUnknown
      BY <2>3, Apart DEF IInv, PagesOf, TypeOK, CallTypes, RunTypes, PageUnknown
    <2>4. CASE PageStored
      BY <2>4, Apart DEF IInv, PagesOf, TypeOK, CallTypes, RunTypes, PageStored
    <2>5. CASE PageFails
      BY <2>5, Apart DEF IInv, PagesOf, TypeOK, CallTypes, RunTypes, PageFails
    <2>6. CASE ChildrenListed
      BY <2>6, Apart DEF IInv, PagesOf, TypeOK, CallTypes, RunTypes,
           ChildrenListed
    <2>7. CASE ChildrenFail
      BY <2>7, Apart DEF IInv, PagesOf, TypeOK, CallTypes, RunTypes,
           ChildrenFail
    <2>8. CASE PagesDone
      BY <2>8, Apart DEF IInv, PagesOf, TypeOK, CallTypes, RunTypes, PagesDone
    <2>9. ASSUME NEW p \in Pages, PageSeen(p) PROVE PagesOf'
      BY <2>9, Apart DEF IInv, PagesOf, TypeOK, CallTypes, RunTypes, PageSeen
    <2>10. ASSUME NEW p \in Pages, PageOnDisk(p) PROVE PagesOf'
      BY <2>10, Apart DEF IInv, PagesOf, TypeOK, CallTypes, RunTypes, PageOnDisk
    <2>11. ASSUME NEW p \in Pages, PageMissing(p) PROVE PagesOf'
      BY <2>11, Apart DEF IInv, PagesOf, TypeOK, CallTypes, RunTypes,
           PageMissing
    <2>12. QED
      BY <1>2, <2>1, <2>2, <2>3, <2>4, <2>5, <2>6, <2>7, <2>8, <2>9, <2>10,
         <2>11 DEF CollectWiki
  <1>3. ASSUME CollectNames PROVE PagesOf'
    BY <1>3, Apart DEF IInv, PagesOf, TypeOK, CallTypes, RunTypes, CollectNames,
         TagsOnDisk, TagsMissing, TagsListed, TagsFail, MembersOnDisk,
         MembersMissing, MembersListed, MembersFail, MemberNamed, MemberFails,
         Finish, MemberMissing
  <1>4. ASSUME Retry \/ Abort \/ Kill \/ \E limit \in BOOLEAN : Start(limit)
       PROVE  PagesOf'
    BY <1>4, Apart DEF IInv, PagesOf, TypeOK, CallTypes, RunTypes, Retry, Abort,
         Kill, Start
  <1>5. QED BY <1>1, <1>2, <1>3, <1>4 DEF Next, Ingest

\* Past the tags, they are on disk or have failed.
LEMMA TagsOfKept == ASSUME IInv, Next PROVE TagsOf'
  <1> USE DEF disk, wiki, map, Look, Call, GivesUp, Answered, Handled, Selects,
          Takes, Collected, CallChildren, Knows, AtPosts, AtPages, AtNames,
          AtMembers, Finished, PostsLeft, Documents, Ended, Looking, Calling
  <1>1. ASSUME CollectPosts PROVE TagsOf'
    BY <1>1 DEF IInv, TagsOf, TypeOK, CallTypes, CollectPosts, PostsOnDisk,
         PostsMissing, PostsListed, PostListFails, PostUnknown, PostGot,
         PostStored, PostFails, PostsDone, PostOnDisk, PostMissing
  <1>2. ASSUME CollectWiki PROVE TagsOf'
    BY <1>2 DEF IInv, TagsOf, TypeOK, CallTypes, CollectWiki, RootsListed,
         RootsFail, PageUnknown, PageStored, PageFails, ChildrenListed,
         ChildrenFail, PagesDone, PageSeen, PageOnDisk, PageMissing
  <1>3. ASSUME CollectNames PROVE TagsOf'
    BY <1>3 DEF IInv, TagsOf, TypeOK, CallTypes, CollectNames, TagsOnDisk,
         TagsMissing, TagsListed, TagsFail, MembersOnDisk, MembersMissing,
         MembersListed, MembersFail, MemberNamed, MemberFails, Finish,
         MemberMissing
  <1>4. ASSUME Retry \/ Abort \/ Kill \/ \E limit \in BOOLEAN : Start(limit)
       PROVE  TagsOf'
    BY <1>4 DEF IInv, TagsOf, TypeOK, CallTypes, Retry, Abort, Kill, Start
  <1>5. QED BY <1>1, <1>2, <1>3, <1>4 DEF Next, Ingest

\* No member gets lost on the way to members.json.
LEMMA MembersOfKept == ASSUME IInv, Next PROVE MembersOf'
  <1> USE DEF disk, wiki, map, Look, Call, GivesUp, Answered, Handled, Selects,
          Takes, Collected, CallChildren, Knows, AtPosts, AtPages, AtNames,
          AtMembers, Finished, PostsLeft, Documents, Ended, Looking, Calling
  <1>1. ASSUME CollectPosts PROVE MembersOf'
    <2>1. CASE PostsOnDisk
      BY <2>1 DEF IInv, MembersOf, DiskOf, TypeOK, CallTypes, PostsOnDisk
    <2>2. CASE PostsMissing
      BY <2>2 DEF IInv, MembersOf, DiskOf, TypeOK, CallTypes, PostsMissing
    <2>3. CASE PostsListed
      <3>1. pc = "post list" /\ pc' = "post" /\ changed' = changed
        BY <2>3 DEF PostsListed
      <3>2. QED BY <3>1 DEF IInv, MembersOf
    <2>4. CASE PostListFails
      BY <2>4 DEF IInv, MembersOf, DiskOf, TypeOK, CallTypes, PostListFails
    <2>5. CASE PostUnknown
      BY <2>5 DEF IInv, MembersOf, DiskOf, TypeOK, CallTypes, PostUnknown
    <2>6. CASE PostGot
      BY <2>6 DEF IInv, MembersOf, DiskOf, TypeOK, CallTypes, PostGot
    <2>7. CASE PostStored
      BY <2>7 DEF IInv, MembersOf, DiskOf, TypeOK, CallTypes, PostStored
    <2>8. CASE PostFails
      BY <2>8 DEF IInv, MembersOf, DiskOf, TypeOK, CallTypes, PostFails
    <2>9. CASE PostsDone
      BY <2>9 DEF IInv, MembersOf, DiskOf, TypeOK, CallTypes, PostsDone
    <2>10. ASSUME NEW n \in Posts, PostOnDisk(n) PROVE MembersOf'
      BY <2>10 DEF IInv, MembersOf, DiskOf, TypeOK, CallTypes, PostOnDisk
    <2>11. ASSUME NEW n \in Posts, PostMissing(n) PROVE MembersOf'
      BY <2>11 DEF IInv, MembersOf, DiskOf, TypeOK, CallTypes, PostMissing
    <2>12. QED
      BY <1>1, <2>1, <2>2, <2>3, <2>4, <2>5, <2>6, <2>7, <2>8, <2>9, <2>10,
         <2>11 DEF CollectPosts
  <1>2. ASSUME CollectWiki PROVE MembersOf'
    <2>1. CASE RootsListed
      BY <2>1 DEF IInv, MembersOf, DiskOf, TypeOK, CallTypes, RootsListed
    <2>2. CASE RootsFail
      BY <2>2 DEF IInv, MembersOf, DiskOf, TypeOK, CallTypes, RootsFail
    <2>3. CASE PageUnknown
      BY <2>3 DEF IInv, MembersOf, DiskOf, TypeOK, CallTypes, PageUnknown
    <2>4. CASE PageStored
      BY <2>4 DEF IInv, MembersOf, DiskOf, TypeOK, CallTypes, PageStored
    <2>5. CASE PageFails
      BY <2>5 DEF IInv, MembersOf, DiskOf, TypeOK, CallTypes, PageFails
    <2>6. CASE ChildrenListed
      BY <2>6 DEF IInv, MembersOf, DiskOf, TypeOK, CallTypes, ChildrenListed
    <2>7. CASE ChildrenFail
      BY <2>7 DEF IInv, MembersOf, DiskOf, TypeOK, CallTypes, ChildrenFail
    <2>8. CASE PagesDone
      BY <2>8 DEF IInv, MembersOf, DiskOf, TypeOK, CallTypes, PagesDone
    <2>9. ASSUME NEW p \in Pages, PageSeen(p) PROVE MembersOf'
      BY <2>9 DEF IInv, MembersOf, DiskOf, TypeOK, CallTypes, PageSeen
    <2>10. ASSUME NEW p \in Pages, PageOnDisk(p) PROVE MembersOf'
      BY <2>10 DEF IInv, MembersOf, DiskOf, TypeOK, CallTypes, PageOnDisk
    <2>11. ASSUME NEW p \in Pages, PageMissing(p) PROVE MembersOf'
      BY <2>11 DEF IInv, MembersOf, DiskOf, TypeOK, CallTypes, PageMissing
    <2>12. QED
      BY <1>2, <2>1, <2>2, <2>3, <2>4, <2>5, <2>6, <2>7, <2>8, <2>9, <2>10,
         <2>11 DEF CollectWiki
  <1>3. ASSUME CollectNames PROVE MembersOf'
    <2>1. CASE TagsOnDisk
      BY <2>1 DEF IInv, MembersOf, DiskOf, TypeOK, CallTypes, TagsOnDisk
    <2>2. CASE TagsMissing
      BY <2>2 DEF IInv, MembersOf, DiskOf, TypeOK, CallTypes, TagsMissing
    <2>3. CASE TagsListed
      BY <2>3 DEF IInv, MembersOf, DiskOf, TypeOK, CallTypes, TagsListed
    <2>4. CASE TagsFail
      BY <2>4 DEF IInv, MembersOf, DiskOf, TypeOK, CallTypes, TagsFail
    <2>5. CASE MembersOnDisk
      BY <2>5 DEF IInv, MembersOf, DiskOf, TypeOK, CallTypes, MembersOnDisk
    <2>6. CASE MembersMissing
      BY <2>6 DEF IInv, MembersOf, DiskOf, TypeOK, CallTypes, MembersMissing
    <2>7. CASE MembersListed
      BY <2>7 DEF IInv, MembersOf, DiskOf, TypeOK, CallTypes, MembersListed
    <2>8. CASE MembersFail
      BY <2>8 DEF IInv, MembersOf, DiskOf, TypeOK, CallTypes, MembersFail
    <2>9. CASE MemberNamed
      BY <2>9 DEF IInv, MembersOf, DiskOf, TypeOK, CallTypes, MemberNamed
    <2>10. CASE MemberFails
      BY <2>10 DEF IInv, MembersOf, DiskOf, TypeOK, CallTypes, MemberFails
    <2>11. CASE Finish
      BY <2>11 DEF IInv, MembersOf, DiskOf, TypeOK, CallTypes, Finish
    <2>12. ASSUME NEW m \in Members, MemberMissing(m) PROVE MembersOf'
      BY <2>12 DEF IInv, MembersOf, DiskOf, TypeOK, CallTypes, MemberMissing
    <2>13. QED
      BY <1>3, <2>1, <2>2, <2>3, <2>4, <2>5, <2>6, <2>7, <2>8, <2>9, <2>10,
         <2>11, <2>12 DEF CollectNames
  <1>4. ASSUME Retry \/ Abort \/ Kill \/ \E limit \in BOOLEAN : Start(limit)
       PROVE  MembersOf'
    <2>1. CASE Retry
      BY <2>1 DEF IInv, MembersOf, DiskOf, TypeOK, CallTypes, Retry
    <2>2. CASE Abort
      BY <2>2 DEF IInv, MembersOf, DiskOf, TypeOK, CallTypes, Abort
    <2>3. CASE Kill
      BY <2>3 DEF IInv, MembersOf, DiskOf, TypeOK, CallTypes, Kill
    <2>4. ASSUME NEW limit \in BOOLEAN, Start(limit) PROVE MembersOf'
      BY <2>4 DEF IInv, MembersOf, DiskOf, TypeOK, CallTypes, Start
    <2>5. QED
      BY <1>4, <2>1, <2>2, <2>3, <2>4
  <1>5. QED BY <1>1, <1>2, <1>3, <1>4 DEF Next, Ingest

\* Only a run without failures ends with 0.
LEMMA OkKept == ASSUME IInv, Next PROVE Ok'
  <1> USE DEF disk, wiki, map, Look, Call, GivesUp, Answered, Handled, Selects,
          Takes, Collected, CallChildren, Knows, AtPosts, AtPages, AtNames,
          AtMembers, Finished, PostsLeft, Documents, Ended, Looking, Calling
  <1>1. ASSUME CollectPosts PROVE Ok'
    BY <1>1 DEF IInv, Ok, CollectPosts, PostsOnDisk, PostsMissing, PostsListed,
         PostListFails, PostUnknown, PostGot, PostStored, PostFails, PostsDone,
         PostOnDisk, PostMissing
  <1>2. ASSUME CollectWiki PROVE Ok'
    BY <1>2 DEF IInv, Ok, CollectWiki, RootsListed, RootsFail, PageUnknown,
         PageStored, PageFails, ChildrenListed, ChildrenFail, PagesDone,
         PageSeen, PageOnDisk, PageMissing
  <1>3. ASSUME CollectNames PROVE Ok'
    BY <1>3 DEF IInv, Ok, CollectNames, TagsOnDisk, TagsMissing, TagsListed,
         TagsFail, MembersOnDisk, MembersMissing, MembersListed, MembersFail,
         MemberNamed, MemberFails, Finish, MemberMissing
  <1>4. ASSUME Retry \/ Abort \/ Kill \/ \E limit \in BOOLEAN : Start(limit)
       PROVE  Ok'
    BY <1>4 DEF IInv, Ok, Retry, Abort, Kill, Start
  <1>5. QED BY <1>1, <1>2, <1>3, <1>4 DEF Next, Ingest

-----------------------------------------------------------------------------
(* The theorems *)

LEMMA InitIInv == Init => IInv
  <1> SUFFICES ASSUME Init PROVE IInv
    OBVIOUS
  <1> USE DEF Init, AtPosts, AtPages, AtNames, AtMembers, Finished
  <1>1. DiskTypes
    BY DEF DiskTypes
  <1>2. CallTypes
    BY Zero DEF CallTypes, Ended
  <1>3. RunTypes
    BY DEF RunTypes
  <1>4. DiskOf /\ PostsOf /\ TagsOf
    BY DEF DiskOf, PostsOf, TagsOf
  <1>5. PagesOf
    BY DEF PagesOf
  <1>6. MembersOf /\ Ok
    BY DEF MembersOf, Ok
  <1>7. QED BY <1>1, <1>2, <1>3, <1>4, <1>5, <1>6 DEF IInv, TypeOK

LEMMA NextIInv == IInv /\ [Next]_vars => IInv'
  <1>1. ASSUME IInv, Next PROVE IInv'
    BY <1>1, DiskTypesKept, CallTypesKept, RunTypesKept, DiskOfKept, PostsOfKept,
       PagesOfKept, TagsOfKept, MembersOfKept, OkKept, SameWiki DEF IInv, TypeOK
  <1>2. ASSUME IInv, UNCHANGED vars PROVE IInv'
    <2> USE <1>2 DEF IInv, vars, disk, wiki, map
    <2>1. TypeOK'
      BY DEF TypeOK, DiskTypes, CallTypes, RunTypes
    <2>2. (DiskOf /\ PostsOf)'
      BY DEF DiskOf, PostsOf, PostsLeft
    <2>3. (PagesOf /\ TagsOf)'
      BY DEF PagesOf, TagsOf
    <2>4. (MembersOf /\ Ok)'
      BY DEF MembersOf, Ok
    <2>5. QED BY <2>1, <2>2, <2>3, <2>4
  <1>3. QED BY <1>1, <1>2

\* IInv holds in every state of every sequence of runs.
THEOREM Invariance == Spec => []IInv
  <1>1. QED BY InitIInv, NextIInv, PTL DEF Spec

\* TypeOK: types, and a call is not repeated more often than there are delays.
THEOREM TypeCorrect == Spec => []TypeOK
  <1>1. IInv => TypeOK
    BY DEF IInv
  <1>2. QED BY Invariance, <1>1, PTL

\* NothingSkipped: what a run found and did not store, it reports.
THEOREM FailuresAreReported == Spec => []NothingSkipped
  <1>1. IInv => NothingSkipped
    <2> SUFFICES ASSUME IInv, pc \in Finished, ~limited PROVE NothingSkipped
      BY DEF NothingSkipped, Finished
    <2> USE DEF IInv, Finished
    <2>1. "posts" \in lists \/ <<"posts", None>> \in failures
      BY DEF PostsOf
    <2>2. \A n \in posts : n \in docs \/ <<"post", n>> \in failures
      BY DEF PostsOf, PostsLeft
    <2>3. \A p \in seen : p \in docs \/ <<"wiki", p>> \in failures
      BY DEF PagesOf, AtPages
    <2>4. Closed(seen) \/ <<"wiki roots", None>> \in failures
            \/ \E p \in seen : <<"wiki children", p>> \in failures
      BY DEF PagesOf, AtPages, Closed
    <2>5. \A m \in mentioned :
             ("members" \in lists /\ m \in members) \/ <<"member", m>> \in failures
      BY DEF MembersOf
    <2>6. \A p \in seen : None \in children[p] =>
             <<"wiki", None>> \in failures \/ <<"wiki children", p>> \in failures
      BY DEF PagesOf, AtPages
    <2>7. QED BY <2>1, <2>2, <2>3, <2>4, <2>5, <2>6 DEF NothingSkipped
  <1>2. QED BY Invariance, <1>1, PTL

\* SuccessIsComplete: exit code 0 means that everything was collected, after
\* any number of runs that failed or were killed.
THEOREM SuccessMeansComplete == Spec => []SuccessIsComplete
  <1>1. IInv => SuccessIsComplete
    <2> SUFFICES ASSUME IInv, pc = "ok", ~limited PROVE SuccessIsComplete
      BY DEF SuccessIsComplete
    <2> USE DEF IInv, Finished
    <2>1. failures = {} /\ pc \in Finished
      BY DEF Ok
    <2>2. \A n \in posts : n \in docs /\ Mentions[n] \subseteq mentioned
      BY <2>1 DEF PostsOf, PostsLeft
    <2>3. \A n \in posts : Summaries[n] \subseteq mentioned
      BY <2>1, <2>2, FetchAssumption DEF PostsOf, TypeOK, DiskTypes
    <2>4. \A p \in seen : p \in docs /\ Mentions[p] \subseteq mentioned
      BY <2>1 DEF PagesOf, AtPages
    <2>5. Closed(seen) /\ seen \in SUBSET Pages
      BY <2>1 DEF PagesOf, AtPages, Closed, TypeOK, RunTypes
    <2>6. Reachable \subseteq seen
      BY <2>5 DEF Reachable
    <2>7. mentioned \subseteq members
      BY <2>1 DEF MembersOf
    <2>8. {"posts", "tags", "members"} \subseteq lists
      BY <2>1 DEF PostsOf, TagsOf, MembersOf
    <2>9. lists = {"posts", "tags", "members"}
      BY <2>8 DEF TypeOK, DiskTypes
    <2>10. posts \cup Reachable \subseteq docs
      BY <2>2, <2>4, <2>6
    <2>11. UNION {Summaries[n] \cup Mentions[n] : n \in posts} \subseteq members
      BY <2>2, <2>3, <2>7
    <2>12. UNION {Mentions[p] : p \in Reachable} \subseteq members
      BY <2>4, <2>6, <2>7
    <2>13. QED BY <2>9, <2>10, <2>11, <2>12 DEF SuccessIsComplete
  <1>2. QED BY Invariance, <1>1, PTL

\* FilesStay: runs only add to what is on disk.
THEOREM CollectionGrows == Spec => FilesStay
  <1> DEFINE Stays == /\ docs \subseteq docs'
                      /\ lists \subseteq lists'
                      /\ members \subseteq members'
                      /\ "posts" \in lists => posts' = posts
  <1>1. ASSUME IInv, Next PROVE Stays
    <2> USE DEF disk, Look, Call, GivesUp, Answered, Selects, Knows, Takes, Collected,
                CallChildren
    <2>1. ASSUME CollectPosts PROVE Stays
      BY <1>1, <2>1 DEF IInv, DiskOf, CollectPosts, PostsOnDisk, PostsMissing,
         PostsListed, PostListFails, PostOnDisk, PostMissing, PostUnknown, PostGot,
         PostStored, PostFails, PostsDone
    <2>2. ASSUME CollectWiki PROVE Stays
      BY <2>2 DEF CollectWiki, RootsListed, RootsFail, PageUnknown, PageSeen,
         PageOnDisk, PageMissing, PageStored, PageFails, ChildrenListed, ChildrenFail,
         PagesDone
    <2>3. ASSUME CollectNames PROVE Stays
      BY <1>1, <2>3 DEF IInv, DiskOf, MembersOf, AtMembers, CollectNames, TagsOnDisk,
         TagsMissing, TagsListed, TagsFail, MembersOnDisk, MembersMissing,
         MembersListed, MembersFail, MemberMissing, MemberNamed, MemberFails, Finish
    <2>4. ASSUME Retry \/ Abort \/ Kill \/ \E limit \in BOOLEAN : Start(limit)
          PROVE  Stays
      BY <2>4 DEF Retry, Abort, Kill, Start
    <2>5. QED BY <1>1, <2>1, <2>2, <2>3, <2>4 DEF Next, Ingest
  <1>2. UNCHANGED vars => Stays
    BY DEF vars, disk
  <1>3. IInv /\ [Next]_vars => [Stays]_vars
    BY <1>1, <1>2
  <1>4. QED BY Invariance, <1>3, PTL DEF Spec, FilesStay
================================================================================
