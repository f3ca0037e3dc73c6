----------------------------- MODULE FetchDooray -----------------------------
(***************************************************************************)
(* The command `fetch-dooray` (apps/pipeline/src/fetch/ingest.service.ts): *)
(* it copies a project's tasks, wiki pages, tags and members to disk by    *)
(* calling the `dooray` CLI, and is run again after a failure or a kill.   *)
(*                                                                         *)
(* A step is one call of the CLI with what is done with its answer, or one *)
(* look at the disk.  A file appears whole, by rename, in the step of the  *)
(* call that filled it.  Runs follow one another: two of them at the same  *)
(* time would share their temporary files, and are not modelled.           *)
(*                                                                         *)
(* What a document says is the set of members it mentions.  The order of   *)
(* tasks, pages and members is left open, and so is the number given with  *)
(* --limit: a limited run may leave out any tasks and stop after any page. *)
(***************************************************************************)
EXTENDS Naturals

CONSTANTS
    Posts, Pages, Members,   \* task numbers, wiki page ids, member ids
    None,         \* in a list: an entry without its number or id
    PostLists,    \* what `post list` may answer
    Roots,        \* what `wiki pages` answers
    Wikis,        \* what `wiki pages --parent` may answer, by page
    Directory,    \* what `member list` answers
    Mentions,     \* by document: the members it mentions
    Summaries,    \* by entry of the list: the members the entry mentions
    RetryDelays,  \* how often a failed call is repeated
    MaxRuns       \* bound: how often the command is started

Documents == Posts \cup Pages

ASSUME FetchAssumption ==
    /\ None \notin Documents \cup Members
    /\ Posts \cap Pages = {}
    /\ PostLists \subseteq SUBSET (Posts \cup {None})
    /\ Roots \subseteq Pages \cup {None}
    /\ Wikis \subseteq [Pages -> SUBSET (Pages \cup {None})]
    /\ Directory \subseteq Members
    /\ Mentions \in [Documents -> SUBSET Members]
    /\ Summaries \in [Posts \cup {None} -> SUBSET Members]
    /\ RetryDelays \in Nat
    /\ MaxRuns \in Nat

VARIABLES
    \* the wiki, the same for all runs
    children,   \* what `wiki pages --parent` answers, by page
    \* the disk
    lists,      \* which of posts.json, tags.json and members.json exist
    posts,      \* the task list in posts.json
    members,    \* the members named in members.json
    docs,       \* the files in posts/ and wiki/
    \* the run
    pc,
    limited,    \* --limit was given
    subject,    \* what the call at hand is about
    attempt,    \* how often that call has failed
    todo,       \* tasks, later members, still to do
    queue,      \* wiki pages found and not looked at
    seen,       \* wiki pages looked at
    mentioned,  \* the member ids in memberSources
    names,      \* the member map
    changed,    \* membersChanged
    failures,   \* the items of the failure list
    runs        \* how often the command was started

disk == <<lists, posts, members, docs>>
wiki == <<queue, seen>>
map == <<names, changed>>
vars == <<children, disk, pc, limited, subject, attempt, todo, wiki, mentioned, map,
          failures, runs>>

Ended == {"idle", "ok", "failed", "aborted", "killed"}
Looking == {"posts", "post", "page", "tags", "members", "member"}
Calling == {"post list", "post get", "post comment list", "wiki roots",
            "wiki page", "wiki children", "project tags", "member list",
            "member get"}

Init ==
    /\ children \in Wikis
    /\ lists = {} /\ posts = {} /\ members = {} /\ docs = {}
    /\ pc = "idle" /\ limited = FALSE /\ subject = None /\ attempt = 0
    /\ todo = {} /\ queue = {} /\ seen = {} /\ mentioned = {}
    /\ names = {} /\ changed = FALSE /\ failures = {} /\ runs = 0

-----------------------------------------------------------------------------
(* Calls and their failure *)

\* executeJson for `s` begins.
Call(what, s) == pc' = what /\ subject' = s /\ attempt' = 0

\* No call is under way; the run looks at its next item.
Look(what) == pc' = what /\ subject' = None /\ attempt' = 0

\* The next thing to do with a page that has been looked at.
CallChildren(p) == Call("wiki children", p)

\* Mutant: one attempt too many.
Retry_OneMore ==
    /\ pc \in Calling
    /\ attempt <= RetryDelays
    /\ attempt' = attempt + 1
    /\ UNCHANGED <<disk, pc, limited, subject, todo, wiki, mentioned, map,
                   failures, runs>>

\* The CLI fails, or its answer is not what it should be.
Retry ==
    /\ pc \in Calling
    /\ attempt < RetryDelays
    /\ attempt' = attempt + 1
    /\ UNCHANGED <<disk, pc, limited, subject, todo, wiki, mentioned, map,
                   failures, runs>>

\* The answers that are written to a file, or looked into, after executeJson:
\* an error there is not retried.
Handled == {"post list", "post comment list", "wiki page", "project tags",
            "member list", "member get"}

\* The call `what` has failed for good, and the failure list says so.
GivesUp(what, item) ==
    /\ pc = what
    /\ attempt = RetryDelays \/ what \in Handled
    /\ failures' = failures \cup {<<item, subject>>}
    /\ UNCHANGED <<disk, limited, runs>>

\* The answer to the call `what` is there.
Answered(what) == pc = what /\ UNCHANGED <<limited, failures, runs>>

-----------------------------------------------------------------------------
(* Starting, and ending early *)

Start(limit) ==
    /\ pc \in Ended
    /\ runs < MaxRuns
    /\ runs' = runs + 1
    /\ Look("posts")
    /\ limited' = limit
    /\ todo' = {} /\ queue' = {} /\ seen' = {} /\ mentioned' = {}
    /\ names' = {} /\ changed' = FALSE /\ failures' = {}
    /\ UNCHANGED <<children, disk>>

\* An error that nothing catches: of readExistingJson or of the last write.
Abort ==
    /\ pc \in Looking
    /\ pc = "post" => todo \ {None} # {}
    /\ pc = "page" => queue \ (seen \cup {None}) # {}
    /\ pc = "member" => todo = {}
    /\ Look("aborted")
    /\ UNCHANGED <<disk, limited, todo, wiki, mentioned, map, failures, runs>>

Kill ==
    /\ pc \in Looking \cup Calling
    /\ Look("killed")
    /\ UNCHANGED <<children, disk, limited, todo, wiki, mentioned, map, failures, runs>>

-----------------------------------------------------------------------------
(* collectPostList and collectPostDocuments *)

\* The run goes on with the task list `l`.
Selects(l) ==
    /\ Look("post")
    /\ todo' \in SUBSET l /\ (~limited => todo' = l)
    /\ mentioned' = UNION {Summaries[n] : n \in l}
    /\ UNCHANGED <<wiki, map>>

PostsOnDisk ==
    /\ pc = "posts"
    /\ "posts" \in lists
    /\ Selects(posts)
    /\ UNCHANGED <<disk, limited, failures, runs>>

PostsMissing ==
    /\ pc = "posts"
    /\ "posts" \notin lists
    /\ Call("post list", None)
    /\ UNCHANGED <<disk, limited, todo, wiki, mentioned, map, failures, runs>>

PostsListed ==
    /\ Answered("post list")
    /\ \E l \in PostLists :
          /\ posts' = l
          /\ Selects(l)
    /\ lists' = lists \cup {"posts"}
    /\ UNCHANGED <<members, docs>>

PostListFails == GivesUp("post list", "posts") /\ Selects({})

\* Mutant: such a task is passed over.
PostUnknown_Silent ==
    /\ pc = "post"
    /\ None \in todo
    /\ todo' = todo \ {None}
    /\ UNCHANGED <<disk, pc, limited, subject, attempt, wiki, mentioned, map,
                   failures, runs>>

\* A task of the list that has no number.
PostUnknown ==
    /\ pc = "post"
    /\ None \in todo
    /\ todo' = todo \ {None}
    /\ failures' = failures \cup {<<"post", None>>}
    /\ UNCHANGED <<disk, pc, limited, subject, attempt, wiki, mentioned, map, runs>>

PostOnDisk(n) ==
    /\ pc = "post"
    /\ n \in todo \cap docs
    /\ todo' = todo \ {n}
    /\ mentioned' = mentioned \cup Mentions[n]
    /\ UNCHANGED <<disk, pc, limited, subject, attempt, wiki, map, failures, runs>>

PostMissing(n) ==
    /\ pc = "post"
    /\ n \in todo \ (docs \cup {None})
    /\ todo' = todo \ {n}
    /\ Call("post get", n)
    /\ UNCHANGED <<disk, limited, wiki, mentioned, map, failures, runs>>

PostGot ==
    /\ Answered("post get")
    /\ Call("post comment list", subject)
    /\ UNCHANGED <<disk, todo, wiki, mentioned, map>>

PostStored ==
    /\ Answered("post comment list")
    /\ docs' = docs \cup {subject}
    /\ mentioned' = mentioned \cup Mentions[subject]
    /\ Look("post")
    /\ UNCHANGED <<lists, posts, members, todo, wiki, map>>

PostFails ==
    /\ GivesUp("post get", "post") \/ GivesUp("post comment list", "post")
    /\ Look("post")
    /\ UNCHANGED <<todo, wiki, mentioned, map>>

PostsDone ==
    /\ pc = "post"
    /\ todo = {}
    /\ Call("wiki roots", None)
    /\ UNCHANGED <<disk, limited, todo, wiki, mentioned, map, failures, runs>>

-----------------------------------------------------------------------------
(* collectWiki *)

RootsListed ==
    /\ Answered("wiki roots")
    /\ queue' = Roots
    /\ Look("page")
    /\ UNCHANGED <<disk, todo, seen, mentioned, map>>

RootsFail ==
    /\ GivesUp("wiki roots", "wiki roots")
    /\ Look("tags")
    /\ UNCHANGED <<todo, wiki, mentioned, map>>

\* Mutant: such a page is passed over.
PageUnknown_Silent ==
    /\ pc = "page"
    /\ None \in queue
    /\ queue' = queue \ {None}
    /\ UNCHANGED <<disk, pc, limited, subject, attempt, todo, seen, mentioned, map,
                   failures, runs>>

\* A page of a list that has no id.
PageUnknown ==
    /\ pc = "page"
    /\ None \in queue
    /\ queue' = queue \ {None}
    /\ failures' = failures \cup {<<"wiki", None>>}
    /\ UNCHANGED <<disk, pc, limited, subject, attempt, todo, seen, mentioned, map, runs>>

PageSeen(p) ==
    /\ pc = "page"
    /\ p \in queue \cap seen
    /\ queue' = queue \ {p}
    /\ UNCHANGED <<disk, pc, limited, subject, attempt, todo, seen, mentioned, map,
                   failures, runs>>

\* Mutant: pages that were looked at are looked at again.
Takes_Again(p) ==
    /\ pc = "page"
    /\ p \in queue
    /\ queue' = queue \ {p}
    /\ seen' = seen \cup {p}

\* The page p is taken from the queue.
Takes(p) ==
    /\ pc = "page"
    /\ p \in queue \ (seen \cup {None})
    /\ queue' = queue \ {p}
    /\ seen' = seen \cup {p}

\* The page is in `pages`: its children come next, unless that was the limit.
Collected(p) ==
    /\ mentioned' = mentioned \cup Mentions[p]
    /\ CallChildren(p) \/ (limited /\ Look("tags"))

\* Mutant: a page that is there needs no further call.
PageOnDisk_Skips(p) ==
    /\ Takes(p)
    /\ p \in docs
    /\ mentioned' = mentioned \cup Mentions[p]
    /\ Look("page")
    /\ UNCHANGED <<disk, limited, todo, map, failures, runs>>

PageOnDisk(p) ==
    /\ Takes(p)
    /\ p \in docs
    /\ Collected(p)
    /\ UNCHANGED <<disk, limited, todo, map, failures, runs>>

PageMissing(p) ==
    /\ Takes(p)
    /\ p \notin docs
    /\ Call("wiki page", p)
    /\ UNCHANGED <<disk, limited, todo, mentioned, map, failures, runs>>

PageStored ==
    /\ Answered("wiki page")
    /\ docs' = docs \cup {subject}
    /\ Collected(subject)
    /\ UNCHANGED <<lists, posts, members, todo, wiki, map>>

\* The children of a page that could not be fetched are looked for all the same.
PageFails ==
    /\ GivesUp("wiki page", "wiki")
    /\ CallChildren(subject)
    /\ UNCHANGED <<todo, wiki, mentioned, map>>

ChildrenListed ==
    /\ Answered("wiki children")
    /\ queue' = queue \cup children[subject]
    /\ Look("page")
    /\ UNCHANGED <<disk, todo, seen, mentioned, map>>

\* Mutant: a page without children and a failed call are the same.
ChildrenFail_Silent ==
    /\ pc = "wiki children"
    /\ attempt = RetryDelays
    /\ Look("page")
    /\ UNCHANGED <<disk, limited, todo, wiki, mentioned, map, failures, runs>>

ChildrenFail ==
    /\ GivesUp("wiki children", "wiki children")
    /\ Look("page")
    /\ UNCHANGED <<todo, wiki, mentioned, map>>

PagesDone ==
    /\ pc = "page"
    /\ queue = {}
    /\ Look("tags")
    /\ UNCHANGED <<disk, limited, todo, wiki, mentioned, map, failures, runs>>

-----------------------------------------------------------------------------
(* collectNameMap, for tags and for members, and collectMissingMembers *)

TagsOnDisk ==
    /\ pc = "tags"
    /\ "tags" \in lists
    /\ Look("members")
    /\ UNCHANGED <<disk, limited, todo, wiki, mentioned, map, failures, runs>>

TagsMissing ==
    /\ pc = "tags"
    /\ "tags" \notin lists
    /\ Call("project tags", None)
    /\ UNCHANGED <<disk, limited, todo, wiki, mentioned, map, failures, runs>>

TagsListed ==
    /\ Answered("project tags")
    /\ lists' = lists \cup {"tags"}
    /\ Look("members")
    /\ UNCHANGED <<posts, members, docs, todo, wiki, mentioned, map>>

TagsFail ==
    /\ GivesUp("project tags", "tags")
    /\ Look("members")
    /\ UNCHANGED <<todo, wiki, mentioned, map>>

\* The run goes on with the member map `known`.
Knows(known) ==
    /\ Look("member")
    /\ names' = known
    /\ todo' = mentioned \ known
    /\ UNCHANGED <<wiki, mentioned, changed>>

MembersOnDisk ==
    /\ pc = "members"
    /\ "members" \in lists
    /\ Knows(members)
    /\ UNCHANGED <<disk, limited, failures, runs>>

MembersMissing ==
    /\ pc = "members"
    /\ "members" \notin lists
    /\ Call("member list", None)
    /\ UNCHANGED <<disk, limited, todo, wiki, mentioned, map, failures, runs>>

MembersListed ==
    /\ Answered("member list")
    /\ lists' = lists \cup {"members"}
    /\ members' = Directory
    /\ Knows(Directory)
    /\ UNCHANGED <<posts, docs>>

MembersFail == GivesUp("member list", "members") /\ Knows({})

MemberMissing(m) ==
    /\ pc = "member"
    /\ m \in todo
    /\ todo' = todo \ {m}
    /\ Call("member get", m)
    /\ UNCHANGED <<disk, limited, wiki, mentioned, map, failures, runs>>

MemberNamed ==
    /\ Answered("member get")
    /\ names' = names \cup {subject}
    /\ changed' = TRUE
    /\ Look("member")
    /\ UNCHANGED <<disk, todo, wiki, mentioned>>

MemberFails ==
    /\ GivesUp("member get", "member")
    /\ Look("member")
    /\ UNCHANGED <<todo, wiki, mentioned, map>>

\* The last write, and the exit code of main.ts; counting the files may fail.
Finish ==
    /\ pc = "member"
    /\ todo = {}
    /\ lists' = IF changed THEN lists \cup {"members"} ELSE lists
    /\ members' = IF changed THEN names ELSE members
    /\ Look(IF failures = {} THEN "ok" ELSE "failed") \/ Look("aborted")
    /\ UNCHANGED <<posts, docs, limited, todo, wiki, mentioned, map, failures, runs>>

-----------------------------------------------------------------------------

CollectPosts ==
    \/ PostsOnDisk \/ PostsMissing \/ PostsListed \/ PostListFails
    \/ \E n \in Posts : PostOnDisk(n) \/ PostMissing(n)
    \/ PostUnknown \/ PostGot \/ PostStored \/ PostFails \/ PostsDone

CollectWiki ==
    \/ RootsListed \/ RootsFail \/ PageUnknown
    \/ \E p \in Pages : PageSeen(p) \/ PageOnDisk(p) \/ PageMissing(p)
    \/ PageStored \/ PageFails \/ ChildrenListed \/ ChildrenFail \/ PagesDone

CollectNames ==
    \/ TagsOnDisk \/ TagsMissing \/ TagsListed \/ TagsFail
    \/ MembersOnDisk \/ MembersMissing \/ MembersListed \/ MembersFail
    \/ \E m \in Members : MemberMissing(m)
    \/ MemberNamed \/ MemberFails \/ Finish

Ingest ==
    /\ UNCHANGED children
    /\ CollectPosts \/ CollectWiki \/ CollectNames \/ Retry \/ Abort

Next ==
    \/ \E limit \in BOOLEAN : Start(limit)
    \/ Ingest
    \/ Kill

\* Every call of the CLI and of the file system returns.
Spec == Init /\ [][Next]_vars /\ WF_vars(Ingest)

-----------------------------------------------------------------------------
(* Properties *)

DiskTypes ==
    /\ lists \subseteq {"posts", "tags", "members"}
    /\ posts \subseteq Posts \cup {None}
    /\ members \subseteq Members
    /\ docs \subseteq Documents

CallTypes ==
    /\ pc \in Ended \cup Looking \cup Calling
    /\ pc \in {"post get", "post comment list"} => subject \in Posts
    /\ pc \in {"wiki page", "wiki children"} => subject \in Pages
    /\ pc = "member get" => subject \in Members
    /\ pc \in {"post list", "wiki roots", "project tags", "member list"} =>
          subject = None
    /\ attempt \in 0 .. RetryDelays

RunTypes ==
    /\ limited \in BOOLEAN
    /\ todo \subseteq Posts \cup {None} \cup Members
    /\ queue \subseteq Pages \cup {None}
    /\ seen \subseteq Pages
    /\ mentioned \subseteq Members
    /\ names \subseteq Members
    /\ changed \in BOOLEAN
    /\ runs \in Nat

\* Every variable has its type, a call is about something of its kind, and it
\* is repeated no more often than there are delays.
TypeOK == children \in Wikis /\ DiskTypes /\ CallTypes /\ RunTypes

\* The pages that can be reached from the roots of the wiki.
Closed(S) ==
    /\ Roots \subseteq S \cup {None}
    /\ \A p \in S : children[p] \subseteq S \cup {None}

Reachable == {p \in Pages : \A S \in SUBSET Pages : Closed(S) => p \in S}

\* A run without --limit that exits with 0 has everything on disk: the tasks
\* of the list, all pages of the wiki, tags and members, and the name of
\* everyone a document mentions; however many runs it took, and whichever of
\* them failed or was killed.
SuccessIsComplete ==
    pc = "ok" /\ ~limited =>
        /\ posts \cup Reachable \subseteq docs
        /\ lists = {"posts", "tags", "members"}
        /\ UNION {Summaries[n] \cup Mentions[n] : n \in posts} \subseteq members
        /\ UNION {Mentions[p] : p \in Reachable} \subseteq members

\* One failure does not stop a run, and none is silent: what a run without
\* --limit found and did not store is in the list it prints.
NothingSkipped ==
    pc \in {"ok", "failed"} /\ ~limited =>
        /\ "posts" \in lists \/ <<"posts", None>> \in failures
        /\ \A n \in posts : n \in docs \/ <<"post", n>> \in failures
        /\ \A p \in seen : p \in docs \/ <<"wiki", p>> \in failures
        /\ Closed(seen) \/ <<"wiki roots", None>> \in failures
             \/ \E p \in seen : <<"wiki children", p>> \in failures
        /\ \A p \in seen : None \in children[p] =>
              <<"wiki", None>> \in failures \/ <<"wiki children", p>> \in failures
        /\ \A m \in mentioned :
              ("members" \in lists /\ m \in members) \/ <<"member", m>> \in failures

\* What was collected stays: no run removes a file or a member, or goes back
\* to another task list.
FilesStay ==
    [][/\ docs \subseteq docs'
       /\ lists \subseteq lists'
       /\ members \subseteq members'
       /\ "posts" \in lists => posts' = posts]_vars

\* Every run ends, whatever fails and however the pages of the wiki are linked.
EveryRunEnds == pc \in Looking \cup Calling ~> pc \in Ended

\* docs/flow.md on fetch-dooray: collection has to succeed as a whole.  Here:
\* a run without --limit that exits with 0 has the members of the project, of
\* whom addMembers (parse/structural-extractor.ts) makes the Person nodes.
SuccessHasDirectory == pc = "ok" /\ ~limited => Directory \subseteq members
==============================================================================
