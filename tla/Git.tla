----------------------------------- MODULE Git ----------------------------------
(***************************************************************************)
(* nr.utils.git: the calls that the class Git makes of git, in a clone     *)
(* with one file, and what it makes of git's answers.  What git does with  *)
(* a command is not in this repository: it is modelled as far as the       *)
(* methods use it.                                                         *)
(***************************************************************************)
EXTENDS Naturals, Sequences, SequencesExt, FiniteSets, Functions, TLC

CONSTANTS Branches, RemoteNames, Urls,
  Contents,      \* of the file
  MaxCommits,    \* bound on the commits
  None

VARIABLES
  commits,       \* a sequence of [tree, parent]; a commit is its number
  branches,      \* branch -> commit
  head,          \* [branch |-> b], where b may have no commit yet, or [commit |-> c]
  index, work,   \* the content of the file that is staged, and of the file
  tag,           \* the commit that has the tag, or 0
  remotes,       \* remote -> url
  remoteRefs,    \* url -> branch -> commit
  said           \* the last call that was not done, or what it returned

repo == <<commits, branches, head, index, work, tag, remotes, remoteRefs>>
vars == <<commits, branches, head, index, work, tag, remotes, remoteRefs, said>>
NoAnswer == [call |-> "none"]

\* External: what git knows.
Empty == Restrict([b \in {None} |-> None], {})
Commits == DOMAIN commits
Tip == IF "commit" \in DOMAIN head THEN head.commit
       ELSE IF head.branch \in DOMAIN branches THEN branches[head.branch] ELSE 0
Tree(c) == IF c = 0 THEN None ELSE commits[c].tree
Ancestors(c) == LET Set[n \in 0 .. MaxCommits] ==
                      IF n = 0 THEN {} ELSE {n} \cup Set[commits[n].parent] IN Set[c]
Moved(c) == IF "commit" \in DOMAIN head THEN head' = [commit |-> c] /\ UNCHANGED branches
            ELSE branches' = (head.branch :> c) @@ branches /\ UNCHANGED head
\* A file that was changed is not overwritten when another commit is checked out.
Switches(c, to) ==
  /\ head' = to
  /\ \/ Tree(c) = Tree(Tip) /\ UNCHANGED <<index, work>>
     \/ Tree(c) # Tree(Tip) /\ work = Tree(Tip) /\ index = work /\ index' = Tree(c) /\ work' = Tree(c)
Fails(error) == said' = [call |-> "raised", value |-> error] /\ UNCHANGED repo

Init ==
  /\ commits = <<[tree |-> CHOOSE c \in Contents : TRUE, parent |-> 0]>>
  /\ \E b \in Branches : head = [branch |-> b] /\ branches = (b :> 1)
  /\ index = commits[1].tree /\ work = index /\ tag = 0
  /\ \E u \in Urls : remotes = ("origin" :> u)
  /\ remoteRefs = [u \in Urls |-> branches] /\ said = NoAnswer

\* Somebody else edits the file.
Edit(v) == work' = v /\ v # work /\ said' = NoAnswer
           /\ UNCHANGED <<commits, branches, head, index, tag, remotes, remoteRefs>>

Add == index' = work /\ said' = NoAnswer
       /\ UNCHANGED <<commits, branches, head, work, tag, remotes, remoteRefs>>

Commit(allowEmpty) ==
  \/ /\ ~allowEmpty => index # Tree(Tip)
     /\ Len(commits) < MaxCommits
     /\ commits' = Append(commits, [tree |-> index, parent |-> Tip]) /\ Moved(Len(commits'))
     /\ said' = NoAnswer /\ UNCHANGED <<index, work, tag, remotes, remoteRefs>>
  \/ ~allowEmpty /\ index = Tree(Tip) /\ Fails("CalledProcessError")

\* tag() of one name.
Tag(force) ==
  \/ /\ Tip # 0 /\ (~force => tag = 0) /\ tag' = Tip /\ said' = NoAnswer
     /\ UNCHANGED <<commits, branches, head, index, work, remotes, remoteRefs>>
  \/ Tip # 0 /\ tag # 0 /\ ~force /\ Fails("CalledProcessError")

\* create_branch(): an orphan starts from nothing; with `reset' the branch may exist.
CreateBranch(b, orphan, reset, ref) ==
  \/ orphan /\ ref # None /\ Fails("ValueError")
  \/ /\ orphan /\ ref = None /\ b \notin DOMAIN branches
     /\ head' = [branch |-> b] /\ said' = NoAnswer
     /\ UNCHANGED <<commits, branches, index, work, tag, remotes, remoteRefs>>
  \/ /\ ~orphan /\ (b \in DOMAIN branches => reset)
     /\ LET c == IF ref = None THEN Tip ELSE ref IN
        /\ c # 0 /\ Switches(c, [branch |-> b]) /\ branches' = (b :> c) @@ branches
     /\ said' = NoAnswer /\ UNCHANGED <<commits, tag, remotes, remoteRefs>>

RenameBranch(b, new) ==
  /\ b \in DOMAIN branches /\ new \notin DOMAIN branches
  /\ branches' = [x \in (DOMAIN branches \ {b}) \cup {new} |-> IF x = new THEN branches[b] ELSE branches[x]]
  /\ head' = (IF head = [branch |-> b] THEN [branch |-> new] ELSE head) /\ said' = NoAnswer
  /\ UNCHANGED <<commits, index, work, tag, remotes, remoteRefs>>

\* checkout(): of a branch, of a commit, or of the file from the index or a commit.
CheckoutBranch(b) ==
  /\ b \in DOMAIN branches /\ Switches(branches[b], [branch |-> b]) /\ said' = NoAnswer
  /\ UNCHANGED <<commits, branches, tag, remotes, remoteRefs>>
CheckoutCommit(c) ==
  /\ Switches(c, [commit |-> c]) /\ said' = NoAnswer
  /\ UNCHANGED <<commits, branches, tag, remotes, remoteRefs>>
CheckoutFile(ref) ==
  /\ index' = (IF ref = None THEN index ELSE Tree(ref)) /\ work' = index' /\ said' = NoAnswer
  /\ UNCHANGED <<commits, branches, head, tag, remotes, remoteRefs>>

\* Mutant: `hard' is passed on.
ResetHard(ref, files, hard) ==
  /\ Tip # 0
  /\ LET c == IF ref = None THEN Tip ELSE ref IN
     /\ IF files THEN UNCHANGED <<branches, head>> ELSE Moved(c)
     /\ index' = Tree(c) /\ work' = IF hard /\ ~files THEN Tree(c) ELSE work
  /\ said' = NoAnswer /\ UNCHANGED <<commits, tag, remotes, remoteRefs>>

\* reset(): `hard' is not passed on.
Reset(ref, files, hard) ==
  /\ Tip # 0
  /\ LET c == IF ref = None THEN Tip ELSE ref IN
     /\ IF files THEN UNCHANGED <<branches, head>> ELSE Moved(c)
     /\ index' = Tree(c)
  /\ said' = NoAnswer /\ UNCHANGED <<commits, work, tag, remotes, remoteRefs>>

AddRemote(r, u) ==
  \/ /\ r \notin DOMAIN remotes /\ remotes' = (r :> u) @@ remotes /\ said' = NoAnswer
     /\ UNCHANGED <<commits, branches, head, index, work, tag, remoteRefs>>
  \/ r \in DOMAIN remotes /\ Fails("CalledProcessError")

Push(r, b, force) ==
  LET refs == remoteRefs[remotes[r]]
      ok == ~force /\ b \in DOMAIN refs => refs[b] \in Ancestors(branches[b])
  IN  /\ r \in DOMAIN remotes /\ b \in DOMAIN branches
      /\ \/ /\ ok /\ remoteRefs' = [remoteRefs EXCEPT ![remotes[r]] = (b :> branches[b]) @@ @]
            /\ said' = NoAnswer /\ UNCHANGED <<commits, branches, head, index, work, tag, remotes>>
         \/ ~ok /\ Fails("CalledProcessError")

\* pull(): of both or none; here as far as it is a fast-forward.
Pull(r, b) ==
  \/ (r = None) # (b = None) /\ Fails("ValueError")
  \/ /\ r \in DOMAIN remotes /\ b \in DOMAIN remoteRefs[remotes[r]] /\ "branch" \in DOMAIN head
     /\ LET c == remoteRefs[remotes[r]][b] IN
        /\ Tip \in Ancestors(c) /\ Switches(c, head) /\ branches' = (head.branch :> c) @@ branches
     /\ said' = NoAnswer /\ UNCHANGED <<commits, tag, remotes, remoteRefs>>

-------------------------------------------------------------------------------
Answers(call, value) == said' = [call |-> call, value |-> value] /\ UNCHANGED repo

\* get_branches(): a detached HEAD is listed like a branch; one without a commit is not.
GetBranches ==
  {[name |-> b, current |-> head = [branch |-> b]] : b \in DOMAIN branches}
    \cup IF "commit" \in DOMAIN head THEN {[name |-> "(HEAD detached)", current |-> TRUE]} ELSE {}
CurrentBranchName ==
  LET current == {b \in GetBranches : b.current} IN
  IF current = {} THEN Fails("RuntimeError") ELSE Answers("branch", (CHOOSE b \in current : TRUE).name)

\* Whichever remote is asked for, origin answers.
RemoteBranchNames(r) == Answers("remote", <<r, DOMAIN remoteRefs[remotes["origin"]]>>)

\* porcelain(): the spaces before the line are stripped, and the name begins behind the
\* first that is left; so it has one in front where the file is only staged.
Porcelain ==
  Answers("porcelain",
    IF index = Tree(Tip) /\ work = index THEN {}
    ELSE IF work = index THEN {<<IF Tree(Tip) = None THEN "A" ELSE "M", " file">>}
    ELSE {<<IF index = Tree(Tip) THEN "M" ELSE IF Tree(Tip) = None THEN "AM" ELSE "MM", "file">>})

HasDiff == Answers("has_diff", work # index)
RevParse(b) == Answers("rev_parse", <<b, IF b \in DOMAIN branches THEN branches[b] ELSE None>>)
RevList(b) == Answers("rev_list", <<b, IF b \in DOMAIN branches THEN Ancestors(branches[b]) ELSE {}>>)
Describe == Answers("describe", IF Tip # 0 /\ tag \in Ancestors(Tip) THEN "tag" ELSE None)

Call ==
  \/ \E v \in Contents : Edit(v)
  \/ Add \/ CurrentBranchName \/ Porcelain \/ HasDiff \/ Describe
  \/ \E flag \in BOOLEAN : Commit(flag) \/ Tag(flag)
  \/ \E b \in Branches, ref \in Commits \cup {None}, orphan, reset \in BOOLEAN : CreateBranch(b, orphan, reset, ref)
  \/ \E b, new \in Branches : RenameBranch(b, new)
  \/ \E b \in Branches : CheckoutBranch(b) \/ RevParse(b) \/ RevList(b)
  \/ \E c \in Commits : CheckoutCommit(c)
  \/ \E ref \in Commits \cup {None} : CheckoutFile(ref)
  \/ \E ref \in Commits \cup {None}, files, hard \in BOOLEAN : Reset(ref, files, hard)
  \/ \E r \in RemoteNames, u \in Urls : AddRemote(r, u)
  \/ \E r \in RemoteNames, b \in Branches, force \in BOOLEAN : Push(r, b, force)
  \/ \E r \in RemoteNames \cup {None}, b \in Branches \cup {None} : Pull(r, b)
  \/ \E r \in RemoteNames : RemoteBranchNames(r)

\* A call that changes nothing is not followed by another, which could as well have come
\* without it.
Next ==
  /\ said = NoAnswer
  /\ Call

Spec == Init /\ [][Next]_vars

-------------------------------------------------------------------------------
\* What was not staged is lost by checkout() of the file only: reset(hard=True) does not
\* touch it either (__init__.py:323-349).
KeepsUnstagedWork ==
  work # index /\ work' # work =>
    (\E v \in Contents : Edit(v)) \/ \E ref \in Commits \cup {None} : CheckoutFile(ref)
UnstagedWorkSurvives == [][KeepsUnstagedWork]_vars

\* The current branch is HEAD's unless it is detached; a file that porcelain() does not list
\* is as it was committed, and one that has_diff() does not see is as it was staged
\* (__init__.py:140-149, 239-246, 293-304).
AnswersAreTrue ==
  /\ said.call = "branch" => head = [branch |-> said.value] \/ "commit" \in DOMAIN head
  /\ said.call = "porcelain" => (said.value = {} <=> index = Tree(Tip) /\ work = Tree(Tip))
  /\ said.call = "has_diff" /\ ~said.value => work = index
===============================================================================
