---------------------------- MODULE UserSession ----------------------------
(***************************************************************************)
(* What a control connection remembers between commands: who is logged in, *)
(* the working directory and the first half of a renaming, with the user   *)
(* database that all sessions share.                                       *)
(*                                                                         *)
(* The commands of one session run one after the other on its command      *)
(* strand, so one session is modelled; the application adds users to the   *)
(* database at any time.  What the file system answers is a choice.        *)
(***************************************************************************)
EXTENDS Paths

CONSTANTS
  Names,        \* user names, those of the anonymous user included
  Accounts,     \* records: password_, local_root_path_, permissions_
  Passwords,
  Params,       \* the paths a client gives with a command
  RenameParams, \* bound: those it gives with RNFR
  MaxDepth,     \* bound: components of a working directory
  Nobody,       \* the null pointer to a user
  NoAccount     \* what the database holds for a name nobody added

\* A path is the parts of a string, which are one at least.
ASSUME PathsAssumption ==
  /\ Params \subseteq Seq(STRING) \ {<<>>}
  /\ \A account \in Accounts :
       account.local_root_path_ \in Seq(STRING) \ {<<>>}

VARIABLES
  database,              \* UserDatabase: database_ and anonymous_user_
  logged_in_user,
  username_for_login,
  ftp_working_directory,
  last_command,
  rename_from_path,
  shutdown_requested,
  entered,    \* history: local path of the last directory CWD found
  checked,    \* history: local path the last RNFR found, for one RNTO
  renamed     \* history: the local path the last step renamed

userVars   == <<logged_in_user, username_for_login>>
renameVars == <<rename_from_path, checked>>
dirVars    == <<ftp_working_directory, entered>>
vars == <<database, userVars, dirVars, renameVars, last_command,
          shutdown_requested, renamed>>

Empty   == <<"">>     \* the empty string, as a path
Nothing == <<>>       \* no path: in the histories

AnonymousNames == {"", "ftp", "anonymous"}

\* Where the database keeps the user of a name.
Slot(name) == IF name \in AnonymousNames THEN "anonymous" ELSE name

Slots == {Slot(name) : name \in Names}

getUser(name, password) ==
  LET user == Slot(name) IN
  IF database[user] # NoAccount /\ (\/ name \in AnonymousNames
                                    \/ database[user].password_ = password)
  THEN user ELSE Nobody

Init ==
  /\ database = [user \in Slots |-> NoAccount]
  /\ logged_in_user = Nobody /\ username_for_login = ""
  /\ ftp_working_directory = Root /\ last_command = ""
  /\ rename_from_path = Empty
  /\ shutdown_requested = FALSE
  /\ entered = Nothing /\ checked = Nothing /\ renamed = Nothing

-----------------------------------------------------------------------------
\* The application; a name that is taken is refused.
AddUser(name, account) ==
  /\ database[Slot(name)] = NoAccount
  /\ database' = [database EXCEPT ![Slot(name)] = account]
  /\ renamed' = Nothing
  /\ UNCHANGED <<userVars, dirVars, renameVars, last_command,
                 shutdown_requested>>

LoggedIn == logged_in_user # Nobody

Account == database[logged_in_user]

May(permission) == permission \in Account.permissions_

Local(path) ==
  toLocalPath(Account.local_root_path_, ftp_working_directory, path)

\* handleFtpCommand around the handler of a known command: no command is read
\* after a QUIT.  Only "USER" and "RNFR" are ever compared with.
Handle(command) ==
  /\ ~shutdown_requested
  /\ last_command' = command
  /\ UNCHANGED database

-----------------------------------------------------------------------------
\* Faulty variant: the login stays until the password was accepted.
USERKeepsLogin(name) ==
  /\ Handle("USER")
  /\ username_for_login' = name
  /\ ftp_working_directory' = Root /\ entered' = Nothing
  /\ renamed' = Nothing
  /\ UNCHANGED <<logged_in_user, renameVars, shutdown_requested>>

\* Faulty variant: the working directory stays.
USERKeepsDirectory(name) ==
  /\ Handle("USER")
  /\ logged_in_user' = Nobody
  /\ username_for_login' = name
  /\ renamed' = Nothing
  /\ UNCHANGED <<dirVars, renameVars, shutdown_requested>>

USER(name) ==
  /\ Handle("USER")
  /\ logged_in_user' = Nobody
  /\ username_for_login' = name
  /\ ftp_working_directory' = Root /\ entered' = Nothing
  /\ renamed' = Nothing
  /\ UNCHANGED <<renameVars, shutdown_requested>>

PASS(password) ==
  /\ Handle("other")
  /\ logged_in_user' = IF last_command # "USER" \/ username_for_login = ""
                       THEN logged_in_user
                       ELSE LET user == getUser(username_for_login, password)
                            IN IF user = Nobody THEN logged_in_user ELSE user
  /\ renamed' = Nothing
  /\ UNCHANGED <<username_for_login, dirVars, renameVars, shutdown_requested>>

QUIT ==
  /\ Handle("other")
  /\ logged_in_user' = Nobody
  /\ shutdown_requested' = TRUE
  /\ renamed' = Nothing
  /\ UNCHANGED <<username_for_login, dirVars, renameVars>>

-----------------------------------------------------------------------------
\* What stat and opendir answer for a path.
Statuses == {"missing", "file", "directory", "unreadable directory"}

\* executeCWD up to its assignment: otherwise an error is replied.
CanEnter(path, status) ==
  /\ LoggedIn /\ May("DirList")
  /\ path # Empty
  /\ status = "directory"

Enter(path) ==
  /\ ftp_working_directory' = toAbsoluteFtpPath(ftp_working_directory, path)
  /\ entered' = Local(toAbsoluteFtpPath(ftp_working_directory, path))

CWD(path, status) ==
  /\ Handle("other")
  /\ IF CanEnter(path, status) THEN Enter(path) ELSE UNCHANGED dirVars
  /\ renamed' = Nothing
  /\ UNCHANGED <<userVars, renameVars, shutdown_requested>>

CDUP(status) ==
  /\ Handle("other")
  /\ IF ftp_working_directory # Root /\ CanEnter(<<"..">>, status)
     THEN Enter(<<"..">>) ELSE UNCHANGED dirVars
  /\ renamed' = Nothing
  /\ UNCHANGED <<userVars, renameVars, shutdown_requested>>

-----------------------------------------------------------------------------
checkIfPathIsRenamable(path, status) ==
  /\ LoggedIn
  /\ path # Empty
  /\ status # "missing"
  /\ IF status = "file" THEN May("FileRename") ELSE May("DirRename")

RNFR(path, status) ==
  /\ Handle("RNFR")
  /\ IF checkIfPathIsRenamable(path, status)
     THEN rename_from_path' = path /\ checked' = Local(path)
     ELSE rename_from_path' = Empty /\ checked' = Nothing
  /\ renamed' = Nothing
  /\ UNCHANGED <<userVars, dirVars, shutdown_requested>>

\* Faulty variant: any command may stand between RNFR and RNTO.
AfterRNFRSomewhere == rename_from_path # Empty

AfterRNFR == last_command = "RNFR" /\ rename_from_path # Empty

\* "status" is that of the path to rename, "free" says that there is nothing
\* at the target, "done" that rename(2) succeeds.
RNTO(path, status, free, done) ==
  /\ Handle("other")
  /\ checked' = Nothing
  /\ renamed' = IF /\ LoggedIn
                   /\ AfterRNFR
                   /\ path # Empty
                   /\ checkIfPathIsRenamable(rename_from_path, status)
                   /\ free /\ done
                THEN Local(rename_from_path) ELSE Nothing
  /\ UNCHANGED <<userVars, dirVars, rename_from_path, shutdown_requested>>

\* Any other known command: none of them touches this state.
OtherCommand ==
  /\ Handle("other")
  /\ renamed' = Nothing
  /\ UNCHANGED <<userVars, dirVars, renameVars, shutdown_requested>>

UnrecognizedCommand ==
  /\ ~shutdown_requested
  /\ renamed' = Nothing
  /\ UNCHANGED <<database, userVars, dirVars, renameVars, last_command,
                 shutdown_requested>>

-----------------------------------------------------------------------------
Application == \E name \in Names, account \in Accounts : AddUser(name, account)

Login == \/ \E name \in Names : USER(name)
         \/ \E password \in Passwords : PASS(password)
         \/ QUIT

Walk == /\ \/ \E path \in Params, status \in Statuses : CWD(path, status)
           \/ \E status \in Statuses : CDUP(status)
        /\ Len(ftp_working_directory') <= MaxDepth + 1

Renaming == \E status \in Statuses :
              \/ \E path \in RenameParams : RNFR(path, status)
              \/ \E path \in {Empty, <<"b">>}, free, done \in BOOLEAN :
                    RNTO(path, status, free, done)

Next == \/ Application
        \/ Login
        \/ Walk
        \/ Renaming
        \/ OtherCommand
        \/ UnrecognizedCommand

Spec == Init /\ [][Next]_vars

-----------------------------------------------------------------------------
(***************************************************************************)
(* Properties.                                                             *)
(***************************************************************************)

(***************************************************************************)
(* The variables have their types; the working directory is absolute and   *)
(* clean, whatever it was changed by.                                      *)
(***************************************************************************)
IsClean(path) ==
  /\ IsAbsolute(path)
  /\ path = Root \/ \A i \in 2 .. Len(path) : path[i] \notin {"", ".", ".."}

TypeOK ==
  /\ database \in [Slots -> Accounts \cup {NoAccount}]
  /\ logged_in_user \in Slots \cup {Nobody}
  /\ LoggedIn => Account # NoAccount
  /\ username_for_login \in Names \cup {""}
  /\ IsClean(ftp_working_directory)
  /\ last_command \in {"", "USER", "RNFR", "other"}
  /\ rename_from_path \in RenameParams \cup {Empty}
  /\ shutdown_requested \in BOOLEAN

(***************************************************************************)
(* Whoever is logged in is the user that the last USER named: a USER that  *)
(* is followed by a wrong password, or by another command, leaves nobody   *)
(* logged in (ftp_session.cpp:302 and 320).                                *)
(***************************************************************************)
LoggedInAsNamed ==
  LoggedIn => /\ username_for_login # ""
              /\ logged_in_user = Slot(username_for_login)

(***************************************************************************)
(* The working directory belongs to the login: below the root of the user  *)
(* who is logged in, it is a directory that a CWD found there, and not one *)
(* that an earlier user of the connection went to.                         *)
(***************************************************************************)
WorkingDirectoryEntered ==
  LoggedIn /\ ftp_working_directory # Root
    => Local(ftp_working_directory) = entered

(***************************************************************************)
(* Whatever path a client gives, from whatever directory, and whatever the *)
(* user's root: the place it stands for is the root or below it.  (A slash *)
(* follows the root: an empty one is "/" and not the server's directory.)  *)
(***************************************************************************)
Confined ==
  LoggedIn =>
    LET root == IF Account.local_root_path_ = Empty
                THEN Root ELSE cleanPath(Account.local_root_path_) IN
    \A path \in Params :
      LET local == Local(path) IN
      /\ IsPrefix(Components(root), Components(local))
      /\ IsAbsolute(local) <=> IsAbsolute(root)
      /\ \A i \in Len(Components(root)) + 1 .. Len(Components(local)) :
            Components(local)[i] # ".."

(***************************************************************************)
(* cleanPath computes, in one pass with a stack, the reference path: for   *)
(* each path a client gives, alone and in the working directory, and below *)
(* each user's root.                                                       *)
(***************************************************************************)
CleanPathIsReference ==
  \A path \in Params :
    /\ cleanPath(path) = ReferencePath(path)
    /\ cleanPath(ftp_working_directory \o path)
         = ReferencePath(ftp_working_directory \o path)
    /\ LoggedIn => cleanPath(Account.local_root_path_ \o path)
                     = ReferencePath(Account.local_root_path_ \o path)

(***************************************************************************)
(* RNTO renames what the RNFR before it found and was allowed to rename:   *)
(* although the path is kept as it was given and resolved again, and       *)
(* rename_from_path_ is never cleared by RNTO, USER or CWD.  One RNFR is   *)
(* good for one RNTO.                                                      *)
(***************************************************************************)
RenameAsChecked == [][renamed' # Nothing => renamed' = checked]_vars
=============================================================================
