------------------------------ MODULE Listing ------------------------------
(***************************************************************************)
(* A walk along the pages of a list.  An agent asks for a page, the answer *)
(* names the offset at which the next page begins, and the agent asks      *)
(* again until an answer names none.  Every page is a process of its own   *)
(* that reads the list afresh, so that the offset of one page is applied   *)
(* to another list:                                                        *)
(*                                                                         *)
(*   directory    list_files and list_directories of the file manager:     *)
(*                the entries are read, then each is asked for its         *)
(*                modification time, the newest come first; anybody may    *)
(*                create, touch, backdate or remove an entry meanwhile     *)
(*   instruments  list_instruments: records in the order of their          *)
(*                tickers, behind a filter that the command for the next   *)
(*                page repeats                                             *)
(*   taxonomy     list_forms and list_families: rows of a bundled table    *)
(*   buckets      list_priority_buckets: rows without a cursor; the        *)
(*                command for the rest asks for all                        *)
(*                                                                         *)
(* The tables are bundled with the program and do not change.              *)
(***************************************************************************)
EXTENDS Integers, FiniteSets

CONSTANTS Name,         \* what can be in the list; a name stands for its place in the order of names
          Times,        \* modification times
          MaxLimit,     \* the largest page
          MaxChanges    \* bound on what happens to a directory during a walk

ASSUME NameAssumption  == Name \subseteq Nat /\ IsFiniteSet(Name)
ASSUME TimesAssumption == Times \subseteq Nat /\ 0 \in Times
ASSUME LimitAssumption == MaxLimit \in Nat \ {0} /\ MaxChanges \in Nat

VARIABLES
  surface,    \* which list is walked
  spaced,     \* the filter of the walk is a value of several words
  wanted,     \* what the filter of the walk selects
  barred,     \* names that _safe_path refuses: links that lead out of the safe root, and names it
              \*   reads as an identifier (file:, directory:) of something of the other kind
  there,      \* the directory itself is there
  present,    \* what is in the list now
  mtime,      \* the modification times now
  phase,      \* what the adapter does: nothing, or asking for modification times
  listed,     \* the entries the adapter has read
  stated,     \* those it has asked for their modification time
  keys,       \* what it was told
  limit,      \* the size of the page it is to return
  cursor,     \* the offset of the page asked for next, or being computed
  seen,       \* how often the agent was shown an entry since it began
  walk,       \* going, ended, refused, or not found
  steady,     \* history: what was there all the time and was not touched
  receded,    \* history: something went away, or back in time
  advanced,   \* history: something came, or came to another place
  changes

data    == <<surface, spaced, wanted, barred>>
tree    == <<there, present, mtime>>
call    == <<phase, listed, stated, keys, limit>>
history == <<steady, receded, advanced, changes>>
listingVars == <<data, tree, call, cursor, seen, walk, history>>

Surfaces == {"directory", "instruments", "taxonomy", "buckets"}

ListingTypeOK ==
  /\ surface \in Surfaces /\ spaced \in BOOLEAN
  /\ there \in BOOLEAN
  /\ wanted \subseteq Name /\ barred \subseteq Name /\ present \subseteq Name
  /\ mtime \in [Name -> Times]
  /\ phase \in {"idle", "sorting"}
  /\ listed \subseteq Name /\ stated \subseteq listed
  /\ keys \in [Name -> Times]
  /\ limit \in 1 .. MaxLimit
  /\ cursor \in Nat
  /\ seen \in [Name -> Nat]
  /\ walk \in {"going", "ended", "refused", "not_found"}
  /\ steady \subseteq Name /\ receded \in BOOLEAN /\ advanced \in BOOLEAN
  /\ changes \in 0 .. MaxChanges

-----------------------------------------------------------------------------
(* The order of a list and its pages. *)

\* Mutation check of Precedes: reverse=True is forgotten.
PrecedesOldest(k, m, n) == k[m] < k[n] \/ (k[m] = k[n] /\ m < n)

\* entries.sort(key=(mtime, name), reverse=True).  The records of a table all
\* have the same key, and are numbered from the last to the first.
Precedes(k, m, n) == k[m] > k[n] \/ (k[m] = k[n] /\ m > n)

Before(S, k, n) == {m \in S : Precedes(k, m, n)}

\* Mutation check of Page: the slice includes its end.
PageWithNext(S, k, from, size) ==
  {n \in S : Cardinality(Before(S, k, n)) \in from .. from + size}

\* items[cursor : cursor + limit]
Page(S, k, from, size) ==
  {n \in S : Cardinality(Before(S, k, n)) \in from .. from + size - 1}

\* Mutation check of HasMore: there is more wherever the page begins in the list.
HasMoreFromHere(S, from, size) == from < Cardinality(S)

\* next_cursor, which is None on the last page.
HasMore(S, from, size) == from + size < Cardinality(S)

-----------------------------------------------------------------------------
ListingInit ==
  /\ surface \in Surfaces
  /\ spaced \in (IF surface = "instruments" THEN BOOLEAN ELSE {FALSE})
  /\ wanted \in (IF surface = "instruments" THEN SUBSET Name ELSE {Name})
  /\ there = TRUE /\ present \in SUBSET Name
  /\ barred \in (IF surface = "directory" THEN SUBSET Name ELSE {{}})
  /\ Cardinality(barred) <= 1
  /\ mtime \in [Name -> IF surface = "directory" THEN Times ELSE {0}]
  /\ \A n \in Name \ present : mtime[n] = 0
  /\ phase = "idle" /\ listed = {} /\ stated = {} /\ keys = [n \in Name |-> 0]
  /\ limit = 1 /\ cursor = 0 /\ seen = [n \in Name |-> 0] /\ walk = "going"
  /\ steady = present /\ receded = FALSE /\ advanced = FALSE /\ changes = 0

-----------------------------------------------------------------------------
(* What the agent asks, and what refuses it. *)

\* validate_declared_action_args refuses a limit over the maximum that the action
\* declares, before any adapter sees it: parse_controls would refuse it, too,
\* and that the parsers of the tables would cap it makes no difference.
LimitRefused(asked) == asked > MaxLimit

\* The command for the next page repeats the filter as it was read, without
\* quotes: the second word of its value is an unknown option.
CommandUnreadable == surface = "instruments" /\ spaced /\ cursor > 0

\* The command for the next page of a table repeats the size of the last page;
\* in a directory the agent chooses every size anew.
FollowsCommand == surface # "directory" /\ \E n \in Name : seen[n] > 0

\* list_instruments refuses an offset behind the end; the others return an
\* empty page.
CursorRefused == surface = "instruments" /\ cursor > Cardinality(wanted \intersect present)

Refuse(asked) ==
  /\ walk = "going" /\ phase = "idle"
  /\ FollowsCommand => asked = limit
  /\ LimitRefused(asked) \/ CommandUnreadable \/ CursorRefused
  /\ walk' = "refused"
  /\ UNCHANGED <<data, tree, call, cursor, seen, history>>

\* The list is read: iterdir with is_file or is_dir (entries of the other kind
\* do not matter and are not in the model), or the query with its filter.
Read(asked) ==
  /\ walk = "going" /\ phase = "idle" /\ there
  /\ FollowsCommand => asked = limit
  /\ ~ LimitRefused(asked) /\ ~ CommandUnreadable /\ ~ CursorRefused
  /\ phase' = "sorting"
  /\ listed' = wanted \intersect present
  /\ stated' = IF surface = "directory" THEN {} ELSE listed'
  /\ limit' = asked
  /\ UNCHANGED <<data, tree, keys, cursor, seen, walk, history>>

\* _filesystem_not_found, an answer without entries and without an offset.
NotFound ==
  /\ walk = "going" /\ phase = "idle" /\ ~ there
  /\ walk' = "not_found"
  /\ UNCHANGED <<data, tree, call, cursor, seen, history>>

-----------------------------------------------------------------------------
(* The file manager asks the file system entry by entry. *)

EndCall == phase' = "idle" /\ listed' = {} /\ stated' = {} /\ keys' = [n \in Name |-> 0]

\* One item.stat() of the sort key.
StatEntry(n) ==
  /\ phase = "sorting" /\ n \in (listed \ stated) \intersect present
  /\ stated' = stated \union {n}
  /\ keys' = [keys EXCEPT ![n] = mtime[n]]
  /\ UNCHANGED <<data, tree, phase, listed, limit, cursor, seen, walk, history>>

\* The same, of an entry that is gone: the call ends in an error, and the agent
\* asks for the same page again.
StatFails(n) ==
  /\ phase = "sorting" /\ n \in listed \ (stated \union present)
  /\ EndCall
  /\ UNCHANGED <<data, tree, limit, cursor, seen, walk, history>>

CurrentPage == Page(listed, keys, cursor, limit)

\* _entry_projection asks for every entry of the page once more, and resolves its
\* name under the safe root as if it were an identifier.
Projectable == CurrentPage \subseteq present \ barred

\* An agent that begins again forgets what it was shown.
Shown == [n \in Name |-> (IF cursor = 0 THEN 0 ELSE seen[n]) + (IF n \in CurrentPage THEN 1 ELSE 0)]

\* Mutation check of AllInOnePage: all is asked for however much it is.
AllWhateverItIs == HasMore(listed, 0, limit)

\* The buckets have no cursor: what comes next is the whole list from its
\* beginning, if one page may hold it.
AllInOnePage == HasMore(listed, 0, limit) /\ Cardinality(listed) <= MaxLimit

AnswerPage ==
  /\ phase = "sorting" /\ stated = listed /\ Projectable
  /\ surface # "buckets"
  /\ EndCall
  /\ seen' = Shown
  /\ IF HasMore(listed, cursor, limit)
     THEN cursor' = cursor + limit /\ walk' = walk
     ELSE cursor' = cursor /\ walk' = "ended"
  /\ UNCHANGED <<data, tree, limit, history>>

AnswerBuckets ==
  /\ phase = "sorting" /\ surface = "buckets"
  /\ EndCall
  /\ seen' = Shown
  /\ IF AllInOnePage
     THEN limit' = Cardinality(listed) /\ walk' = walk
     ELSE limit' = limit /\ walk' = "ended"
  /\ UNCHANGED <<data, tree, cursor, history>>

PageFails ==
  /\ phase = "sorting" /\ stated = listed /\ ~ Projectable
  /\ EndCall
  /\ UNCHANGED <<data, tree, limit, cursor, seen, walk, history>>

Ask == \E asked \in 1 .. MaxLimit + 1 : Read(asked) \/ Refuse(asked)

Adapter == (\E n \in Name : StatEntry(n) \/ StatFails(n)) \/ AnswerPage \/ AnswerBuckets \/ PageFails

-----------------------------------------------------------------------------
(* Others work in the directory. *)

Changing == surface = "directory" /\ there /\ walk = "going" /\ changes < MaxChanges

Disturb(n, came, went) ==
  /\ steady' = steady \ {n}
  /\ advanced' = (advanced \/ came)
  /\ receded' = (receded \/ went)
  /\ changes' = changes + 1
  /\ UNCHANGED <<data, there, call, cursor, seen, walk>>

\* A new entry may be old: a file that is moved here keeps its time.
Create(n, t) ==
  /\ Changing /\ n \notin present
  /\ present' = present \union {n}
  /\ mtime' = [mtime EXCEPT ![n] = t]
  /\ Disturb(n, TRUE, FALSE)

Touch(n, t) ==
  /\ Changing /\ n \in present /\ t > mtime[n]
  /\ mtime' = [mtime EXCEPT ![n] = t]
  /\ present' = present
  /\ Disturb(n, TRUE, FALSE)

Backdate(n, t) ==
  /\ Changing /\ n \in present /\ t < mtime[n]
  /\ mtime' = [mtime EXCEPT ![n] = t]
  /\ present' = present
  /\ Disturb(n, TRUE, TRUE)

Remove(n) ==
  /\ Changing /\ n \in present
  /\ present' = present \ {n}
  /\ mtime' = [mtime EXCEPT ![n] = 0]
  /\ Disturb(n, FALSE, TRUE)

RemoveDirectory ==
  /\ Changing
  /\ there' = FALSE /\ present' = {} /\ mtime' = [n \in Name |-> 0]
  /\ steady' = {} /\ receded' = TRUE /\ changes' = changes + 1
  /\ UNCHANGED <<data, call, cursor, seen, walk, advanced>>

Environment ==
  \/ \E n \in Name, t \in Times : Create(n, t) \/ Touch(n, t) \/ Backdate(n, t)
  \/ \E n \in Name : Remove(n)
  \/ RemoveDirectory

-----------------------------------------------------------------------------
ListingNext == Ask \/ NotFound \/ Adapter \/ Environment

ListingSpec == ListingInit /\ [][ListingNext]_listingVars

\* The agent goes on, and every page is a process that is scheduled.
ListingFairness == WF_listingVars(Ask \/ NotFound \/ Adapter)

-----------------------------------------------------------------------------
(* Properties. *)

\* The offset of a page is counted in a list that may have changed since.  As
\* the newest entries come first, whatever is created or written during the
\* walk goes to the front and pushes the rest towards the agent: unless
\* something disappears or is backdated, an entry that was there all the time
\* and was not touched is on one of the pages (`_list_filesystem`, the sort
\* key and _paginate; the lists of the tables).
UntouchedIsNotMissed ==
  walk = "ended" /\ ~ receded /\ (surface = "buckets" => Cardinality(present) <= MaxLimit) =>
    \A n \in steady \intersect wanted : seen[n] > 0

\* And the other way round: removals pull the rest away from the agent, so that
\* it may miss entries but never sees one twice, unless something came or moved.
RemovalsDoNotRepeat ==
  ~ advanced => \A n \in Name : seen[n] <= 1

\* What an answer names as the next page of a table is answered: its offset is not
\* behind the end of the list, and its size, also that of all the buckets at
\* once, is not over the maximum.  Only the command that does not quote a filter
\* of two words is refused (list_page_run_cmd and `_list_run_cmd` on one side,
\* validate_declared_action_args and list_instruments on the other).
FollowedPageIsAnswered ==
  walk = "refused" /\ (\E n \in Name : seen[n] > 0) => surface = "directory" \/ CommandUnreadable

\* A walk ends if the directory does not change for ever and no name in it is
\* barred: an offset that grows overtakes a list that has stopped growing, a page
\* that failed over an entry that went is answered when it is asked for again,
\* and the buckets are asked for at most twice (_paginate, `_entry_projection`,
\* list_priority_buckets).  New entries before every page could keep a walk
\* going, removals during every page make every page fail, and the page of a
\* barred name is an error however often it is asked for.
WalkEnds == barred = {} => <>(walk # "going")

=============================================================================
