------------------------------- MODULE Users -------------------------------
(***************************************************************************)
(* The user accounts, kernel/user.c: a table in memory, of which every     *)
(* change is written to /disk/etc/passwd and from which it is read back at *)
(* boot; one account is logged in.  The shell's commands and kernel_main   *)
(* are the callers and decide what may be called when.                     *)
(*                                                                         *)
(* Names, passwords and the file are texts, sequences of characters: the   *)
(* file is a line "name:password:level" per account, which users_load      *)
(* takes apart again, while nothing keeps ":" out of a name or a password. *)
(* A disk is present.  Of StackFS is kept that a write never shortens a    *)
(* file, and that the first entry made after a format is lost (its block   *)
(* gets number 0, which means "no block").                                 *)
(***************************************************************************)
EXTENDS Naturals, Sequences, SequencesExt, FiniteSets

CONSTANTS
    UserMax,     \* USER_MAX
    NameMax,     \* USER_NAME_MAX, with room for the end of the string
    PassMax,     \* USER_PASS_MAX, likewise
    Letters,     \* the characters used other than ":", digits and line ends
    Names,       \* names given to useradd, userdel, passwd, login
    Passwords,   \* passwords typed
    MayFormat    \* whether the disk is formatted while the system runs

Sep == ":"
Eol == "\n"
DigitChars == <<"0", "1", "2", "3", "4", "5", "6", "7", "8", "9">>
Chars == Letters \cup Range(DigitChars) \cup {Sep, Eol}
Texts == Seq(Chars)

RootName == <<"r", "o", "o", "t">>
StackName == <<"s", "t", "a", "c", "k">>
RootPass == <<"a", "d", "m", "i", "n">>
StackPass == StackName
PrivUser == 1
PrivRoot == 2

\* What is typed is cut into words at blanks: it has no line end.
Typed(text) == text \in Texts /\ text # <<>> /\ Eol \notin Range(text)

ASSUME UsersAssumption ==
    /\ UserMax \in Nat /\ UserMax >= 2
    /\ {NameMax, PassMax} \subseteq Nat \ (0 .. 5)
    /\ {"r", "o", "t", "s", "a", "c", "k", "d", "m", "i", "n"} \subseteq Letters
    /\ \A text \in Names \cup Passwords : Typed(text)
    /\ MayFormat \in BOOLEAN

AllNames == Names \cup {RootName, StackName}
AllPasswords == Passwords \cup {RootPass, StackPass}

VARIABLES
    users,      \* the table: users[1 .. user_count]
    current,    \* index of the account logged in, 0: nobody (-1 in the code)
    passwd,     \* the text of /disk/etc/passwd, <<>>: no such file
    fresh,      \* formatted, and no entry made since
    deleted,    \* history: names reported deleted, not created since
    plain       \* history: nothing typed as a name or password had a ":"

vars == <<users, current, passwd, fresh, deleted, plain>>

Account(name, pass, priv) == [name |-> name, pass |-> pass, priv |-> priv, active |-> TRUE]

Defaults == << Account(RootName, RootPass, PrivRoot), Account(StackName, StackPass, PrivUser) >>

---------------------------------------------------------------------------
(* users_save *)

LineOf(u) == u.name \o <<Sep>> \o u.pass \o <<Sep>> \o <<DigitChars[u.priv + 1]>> \o <<Eol>>

\* FAULT (NobodyLost): the account in the last slot is left out.
LastNotSaved(table) ==
    FlattenSeq([n \in 1 .. Len(table) - 1 |-> IF table[n].active THEN LineOf(table[n]) ELSE <<>>])

ActiveLines(table) ==
    LET text[n \in 0 .. Len(table)] ==
            IF n = 0 THEN <<>>
            ELSE IF table[n].active THEN text[n - 1] \o LineOf(table[n])
            ELSE text[n - 1]
    IN  text[Len(table)]

\* vfs_write at offset 0: what lies beyond the new text stays in the file.
Over(new, old) == new \o SubSeq(old, Len(new) + 1, Len(old))

\* users_save, called with the table it finds.  On a fresh disk its mkdir of
\* /disk/etc is not found again and it gives up.
Save(table) ==
    LET text == ActiveLines(table)
    IN  IF text = <<>> THEN UNCHANGED <<passwd, fresh>>
        ELSE /\ passwd' = IF fresh THEN passwd ELSE Over(text, passwd)
             /\ fresh' = FALSE

---------------------------------------------------------------------------
(* users_load *)

\* The lines; what is behind the last line end is one as well.
LinesOf(text) ==
    LET lines[n \in 0 .. Len(text)] ==
            LET read == lines[n - 1]
            IN  IF n = 0 THEN << <<>> >>
                ELSE IF text[n] = Eol THEN Append(read, <<>>)
                ELSE [read EXCEPT ![Len(read)] = Append(@, text[n])]
    IN  lines[Len(text)]

\* The places of the first two separators of a line, 0 for none.
FirstSep(line) == SelectInSeq(line, LAMBDA c : c = Sep)
SecondSep(line) == SelectInSubSeq(line, FirstSep(line) + 1, Len(line), LAMBDA c : c = Sep)

\* A line that is used: a name and a password, each with its separator before
\* the room for it is used up, and the name not empty.
IsEntry(line) ==
    /\ FirstSep(line) \in 2 .. NameMax
    /\ SecondSep(line) \in FirstSep(line) + 1 .. FirstSep(line) + PassMax

\* The level is the digit behind the second separator, else 0; what follows it
\* is not looked at.
LevelOf(line) ==
    LET c == IF SecondSep(line) < Len(line) THEN line[SecondSep(line) + 1] ELSE Sep
    IN  IF c \in Range(DigitChars) THEN (CHOOSE n \in 1 .. 10 : DigitChars[n] = c) - 1 ELSE 0

Entry(line) ==
    Account(SubSeq(line, 1, FirstSep(line) - 1),
            SubSeq(line, FirstSep(line) + 1, SecondSep(line) - 1),
            LevelOf(line))

\* Lines that are not used do not count towards USER_MAX.
Loaded(text) ==
    LET lines == LinesOf(text)
        table[n \in 0 .. Len(lines)] ==
            LET read == table[n - 1]
            IN  IF n = 0 THEN <<>>
                ELSE IF Len(read) < UserMax /\ IsEntry(lines[n]) THEN Append(read, Entry(lines[n]))
                ELSE read
    IN  table[Len(lines)]

---------------------------------------------------------------------------
(* Look-ups: the first account that matches. *)

Named(table, name) ==
    {n \in DOMAIN table : table[n].active /\ table[n].name = name}
FirstNamed(name, n) ==
    n \in Named(users, name) /\ \A m \in Named(users, name) : n <= m

Deactivated(n) == [users EXCEPT ![n].active = FALSE]

\* FAULT (RootIsRoot, CurrentIsActive): built-in accounts can be deleted.
AnyName(name) == TRUE
MayDelete(name) == name \notin {RootName, StackName}

\* FAULT (Recorded): a change of password is not saved.
NotSaved(table) == UNCHANGED <<passwd, fresh>>
SaveNewPass(table) == Save(table)

---------------------------------------------------------------------------
\* First boot: disk_first_boot made and lost one entry ("etc"), user_init
\* found no file and set up the defaults, users_save wrote them.
Init ==
    /\ users = Defaults
    /\ current = 0
    /\ passwd = ActiveLines(Defaults)
    /\ fresh = FALSE
    /\ deleted = {}
    /\ plain = TRUE

\* user_is_root: the account need not be active any more.
IsRoot == current # 0 /\ users[current].priv >= PrivRoot

\* FAULT (TypeOK): one account too many.
RoomForOneMore == Len(users) <= UserMax
HasRoom == Len(users) < UserMax

\* ustrcpy into a field of the account.
Cut(text, max) == SubSeq(text, 1, IF Len(text) < max THEN Len(text) ELSE max - 1)

NoSep(text) == Sep \notin Range(text)

\* useradd: user_add.  A name in use is not refused.
UserAdd(name, pass) ==
    /\ IsRoot
    /\ HasRoom
    /\ LET table == Append(users, Account(Cut(name, NameMax), Cut(pass, PassMax), PrivUser))
       IN  /\ users' = table
           /\ Save(table)
    /\ deleted' = deleted \ {Cut(name, NameMax)}
    /\ plain' = (plain /\ NoSep(name) /\ NoSep(pass))
    /\ UNCHANGED current

\* userdel: user_del.
UserDel(name) ==
    /\ IsRoot
    /\ MayDelete(name)
    /\ \E n \in DOMAIN users :
        /\ FirstNamed(name, n)
        /\ users' = Deactivated(n)
        /\ Save(Deactivated(n))
    /\ deleted' = IF Cardinality(Named(users, name)) = 1 THEN deleted \cup {name} ELSE deleted
    /\ UNCHANGED <<current, plain>>

\* passwd: user_chpass.
ChPass(name, pass) ==
    /\ IsRoot
    /\ \E n \in DOMAIN users :
        /\ FirstNamed(name, n)
        /\ LET table == [users EXCEPT ![n].pass = Cut(pass, PassMax)]
           IN  users' = table /\ SaveNewPass(table)
    /\ plain' = (plain /\ NoSep(pass))
    /\ UNCHANGED <<current, deleted>>

\* login, elevate, frostdown, and the start of shell_run: user_login.
Login(name, pass) ==
    /\ \E n \in Named(users, name) :
        /\ users[n].pass = pass
        /\ \A m \in Named(users, name) : users[m].pass = pass => n <= m
        /\ current' = n
    /\ UNCHANGED <<users, passwd, fresh, deleted, plain>>

Logout ==
    /\ current' = 0
    /\ UNCHANGED <<users, passwd, fresh, deleted, plain>>

\* format: /disk/etc is gone; the accounts in memory stay.
Format ==
    /\ MayFormat /\ IsRoot
    /\ passwd' = <<>>
    /\ fresh' = TRUE
    /\ UNCHANGED <<users, current, deleted, plain>>

\* Somebody makes a file or directory on the disk.
OtherEntry ==
    /\ fresh
    /\ fresh' = FALSE
    /\ UNCHANGED <<users, current, passwd, deleted, plain>>

\* Boot with a disk that has a StackFS: user_init, then users_save.
Reboot ==
    /\ current' = 0
    /\ UNCHANGED <<deleted, plain>>
    /\ LET loaded == Loaded(passwd)
           table == IF loaded = <<>> THEN Defaults ELSE loaded
       IN  users' = table /\ Save(table)

Next ==
    \/ \E name \in AllNames, pass \in Passwords : UserAdd(name, pass)
    \/ \E name \in AllNames : UserDel(name)
    \/ \E name \in AllNames, pass \in Passwords : ChPass(name, pass)
    \/ \E name \in AllNames, pass \in AllPasswords : Login(name, pass)
    \/ Logout
    \/ Format
    \/ OtherEntry
    \/ Reboot

Spec == Init /\ [][Next]_vars

---------------------------------------------------------------------------
(* Properties *)

\* Types: the table never holds more than USER_MAX accounts, whatever is left in
\* the file, every level is one digit, and every name and password fits its
\* field.
AccountType(u) ==
    /\ Len(u.name) \in 1 .. NameMax - 1 /\ Len(u.pass) \in 0 .. PassMax - 1
    /\ u.priv \in 0 .. 9
    /\ u.active \in BOOLEAN
TypeOK ==
    /\ Len(users) <= UserMax
    /\ \A n \in DOMAIN users : AccountType(users[n])
    /\ current \in 0 .. Len(users)
    /\ {fresh, plain} \subseteq BOOLEAN

\* The file begins with the active accounts, in the order of the table, with
\* the passwords they have now.  (What follows is left from longer texts.)
\* Only between a format and the next change that is saved there is no file.
Recorded == passwd # <<>> => IsPrefix(ActiveLines(users), passwd)

Active(table) == SelectSeq(table, LAMBDA u : u.active)

\* A reboot brings back every account, with its password and its level, in the
\* order they had, before anything the file holds behind them: unless the disk
\* was formatted and nothing saved since, and as long as nobody typed a ":" in
\* a name or a password.
NobodyLost == [][plain /\ passwd # <<>> /\ Reboot => IsPrefix(Active(users), users')]_vars

\* There is always an account root to elevate to; it and nobody else has root's
\* level, whatever accounts were added, deleted and reloaded and whatever the
\* text left behind in the file reads as, again as long as no ":" was typed.
RootIsRoot ==
    plain =>
        /\ \E n \in DOMAIN users : users[n].active /\ users[n].priv >= PrivRoot
        /\ \A n \in DOMAIN users : users[n].priv >= PrivRoot => n = 1 /\ users[n].name = RootName

\* user_current and user_is_root do not look whether the account is still
\* active; as long as only root has root's level they need not, as nobody can
\* then delete the account logged in.
CurrentIsActive == plain /\ current # 0 => users[current].active

\* user.c:3 says "persistent via /disk/etc/passwd": an account reported deleted
\* is gone, also after a reboot.
DeletedStaysDeleted == \A name \in deleted : Named(users, name) = {}
=============================================================================
