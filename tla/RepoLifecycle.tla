---------------------------- MODULE RepoLifecycle ----------------------------
(***************************************************************************)
(* Creating a repository: KartRepo.init_repository and                    *)
(* KartRepo.clone_repository (src/kart/repo.py), and how KartRepo.__init__ *)
(* finds a repository afterwards.                                          *)
(*                                                                         *)
(* Both commands make the directory, run `git init` or `git clone` (into   *)
(* the directory itself for a bare-style repository, into .kart with a    *)
(* temporary work tree .init or .clone for a tidy-style one), remove that *)
(* temporary work tree, lock the git index, write the config, the info    *)
(* files and the readme, activate the repository (write the .git file that *)
(* points at .kart) and install the LFS hooks.  Each of these is a write   *)
(* to the file system, and the process may die between any two of them.  *)
(* What is on disk is a set of entries named for what they are; their      *)
(* contents are left out.  Init and clone differ only in the git command, *)
(* which is one step either way.                                           *)
(***************************************************************************)
EXTENDS Naturals, Sequences

VARIABLES
    disk,   \* the entries that exist under the repository path
    bare,   \* the style of the repository being created
    step    \* the next step of the running command, 0 when none runs

vars == <<disk, bare, step>>

\* The steps of init_repository / clone_repository after
\* _ensure_exists_and_empty; a bare-style repository has no temporary work
\* tree and no locked index.
Steps(b) ==
    IF b THEN <<"git", "config", "info", "readme", "activate", "hooks">>
    ELSE <<"git", "rm_tmpgit", "rm_tmp", "lock_index", "config", "info",
           "readme", "activate", "hooks">>

\* `git init --bare` / `git clone --bare` make the path a git directory;
\* `--separate-git-dir=.kart` makes .kart one, plus the temporary work tree
\* holding a .git file.
git_command(b) == IF b THEN {"gitdir"} ELSE {"gitdir", "tmp", "tmpgit"}

\* _create_with_git_command tidies up the temporary work tree: unlink its
\* .git, then rmdir it.
TidyTempWorkdir == [rm_tmpgit |-> {"tmpgit"}, rm_tmp |-> {"tmp"}]

\* What each of the later calls writes.
lock_git_index == {"index"}
write_config == {"config"}
write_attributes == {"info"}
write_readme == {"readme"}

\* activate() writes the .git file of a tidy-style repository and returns
\* at once for a bare-style one.
activate(b) == IF b THEN {} ELSE {"dotgit"}

Written(b) ==
    [git |-> git_command(b), rm_tmpgit |-> {}, rm_tmp |-> {},
     lock_index |-> lock_git_index, config |-> write_config,
     info |-> write_attributes, readme |-> write_readme,
     activate |-> activate(b), hooks |-> {"hooks"}]

Removed(name) == IF name \in DOMAIN TidyTempWorkdir THEN TidyTempWorkdir[name] ELSE {}

\* KartRepo.__init__: the path's .kart is opened when it exists, else the
\* path itself; pygit2 opens either once it is a git directory, and
\* validate_gitdir_name accepts .kart, and any bare repository.
KartRepoFinds == "gitdir" \in disk

Init ==
    /\ disk \in {{}, {"root"}}
    /\ bare = FALSE
    /\ step = 0

\* `kart init` or `kart clone`: _ensure_exists_and_empty refuses a path
\* that is not empty (InvalidOperation) and makes a missing one.
Start(b) ==
    /\ step = 0
    /\ "root" \in disk => disk = {"root"}
    /\ disk' = disk \cup {"root"}
    /\ bare' = b
    /\ step' = 1

\* The next write of the command, in the order of Steps.
Step ==
    /\ step # 0
    /\ LET name == Steps(bare)[step] IN
         disk' = (disk \ Removed(name)) \cup Written(bare)[name]
    /\ step' = IF step = Len(Steps(bare)) THEN 0 ELSE step + 1
    /\ UNCHANGED bare

\* git exits non-zero: SubprocessError, and git leaves nothing behind.
GitFails ==
    /\ step # 0
    /\ Steps(bare)[step] = "git"
    /\ step' = 0
    /\ UNCHANGED <<disk, bare>>

\* write_readme logs and swallows any exception of the write.
ReadmeFails ==
    /\ step # 0
    /\ Steps(bare)[step] = "readme"
    /\ step' = step + 1
    /\ UNCHANGED <<disk, bare>>

\* The process dies (killed, power lost, an exception) between two writes.
Crash ==
    /\ step # 0
    /\ step' = 0
    /\ UNCHANGED <<disk, bare>>

Next == (\E b \in BOOLEAN : Start(b)) \/ Step \/ GitFails \/ ReadmeFails \/ Crash

Spec == Init /\ [][Next]_vars

-----------------------------------------------------------------------------
\* activate's docstring: tidy repositories are created in .kart and "until
\* that file [.git] is written, git or kart commands won't find the repo.
\* So, if creation fails, the result will be something that doesn't work
\* at all".  Once no command runs, KartRepo finds a tidy-style repository
\* only if it was activated.
FoundOnlyOnceActivated ==
    step = 0 /\ ~bare /\ KartRepoFinds => "dotgit" \in disk

=============================================================================
