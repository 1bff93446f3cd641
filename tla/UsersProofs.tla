---------------------------- MODULE UsersProofs ----------------------------
(***************************************************************************)
(* Proofs about Users, for every size of the table and of the fields, any  *)
(* alphabet and all names and passwords: types, and that the file begins   *)
(* with the accounts there are.                                            *)
(***************************************************************************)
EXTENDS Users, Lemmas, SequenceTheorems

NameSet == {t \in Texts : Len(t) \in 1 .. NameMax - 1}
PassSet == {t \in Texts : Len(t) \in 0 .. PassMax - 1}
AccountSet == [name : NameSet, pass : PassSet, priv : 0 .. 9, active : BOOLEAN]

---------------------------------------------------------------------------
(* The loops of users_save and users_load: over the table, over the        *)
(* characters of the file, and over its lines.  A turn makes of what the   *)
(* first n - 1 elements have given what the first n give.                  *)

SaveTurn(table, text, n) == IF table[n].active THEN text \o LineOf(table[n]) ELSE text
ReadTurn(text, lines, n) ==
    IF text[n] = Eol THEN Append(lines, <<>>)
    ELSE [lines EXCEPT ![Len(lines)] = Append(@, text[n])]
LoadTurn(lines, table, n) ==
    IF Len(table) < UserMax /\ IsEntry(lines[n]) THEN Append(table, Entry(lines[n])) ELSE table

Turn(loop, data, f, n) ==
    IF n = 0 THEN (IF loop = "read" THEN << <<>> >> ELSE <<>>)
    ELSE IF loop = "save" THEN SaveTurn(data, f[n - 1], n)
    ELSE IF loop = "read" THEN ReadTurn(data, f[n - 1], n)
    ELSE LoadTurn(data, f[n - 1], n)

(* Such a loop has a result, whatever it runs over.                        *)
LEMMA LoopExists ==
    ASSUME NEW loop, NEW data, Len(data) \in Nat
    PROVE  \E f : f = [n \in 0 .. Len(data) |-> Turn(loop, data, f, n)]
<1> DEFINE T == {m \in Nat : \E f : f = [n \in 0 .. m |-> Turn(loop, data, f, n)]}
<1>1. 0 \in T
  <2> DEFINE f == [n \in 0 .. 0 |-> Turn(loop, data, <<>>, n)]
  <2>1. f = [n \in 0 .. 0 |-> Turn(loop, data, f, n)]
    BY DEF Turn
  <2> QED BY <2>1
<1>2. ASSUME NEW m \in Nat, m \in T PROVE m + 1 \in T
  <2>1. PICK f : f = [n \in 0 .. m |-> Turn(loop, data, f, n)]
    BY <1>2
  <2> DEFINE g == [n \in 0 .. m + 1 |-> IF n = m + 1 THEN Turn(loop, data, f, n) ELSE f[n]]
  <2>2. \A n \in 0 .. m + 1 : g[n] = Turn(loop, data, g, n)
    <3> SUFFICES ASSUME NEW n \in 0 .. m + 1 PROVE g[n] = Turn(loop, data, g, n)
      OBVIOUS
    <3>1. g[n] = Turn(loop, data, f, n)
      BY <2>1
    <3>2. n # 0 => g[n - 1] = f[n - 1]
      OBVIOUS
    <3> HIDE DEF g
    <3> QED BY <3>1, <3>2 DEF Turn
  <2>3. g = [n \in 0 .. m + 1 |-> Turn(loop, data, g, n)]
    <3>1. g = [n \in 0 .. m + 1 |-> g[n]]
      OBVIOUS
    <3> HIDE DEF g
    <3> QED BY <2>2, <3>1
  <2> HIDE DEF g
  <2> QED BY <2>3
<1> HIDE DEF T
<1>3. Len(data) \in T
  BY <1>1, <1>2, SetInduction
<1> QED BY <1>3 DEF T

(* They are the loops of ActiveLines, LinesOf and Loaded.                  *)
LEMMA LoopIsActiveLines ==
    ASSUME NEW table, Len(table) \in Nat
    PROVE  \E f : /\ \A n \in 0 .. Len(table) : f[n] = Turn("save", table, f, n)
                  /\ ActiveLines(table) = f[Len(table)]
<1> DEFINE f == CHOOSE g : g = [n \in 0 .. Len(table) |-> Turn("save", table, g, n)]
<1>1. f = [n \in 0 .. Len(table) |-> Turn("save", table, f, n)]
  BY LoopExists
<1>2. ActiveLines(table) = f[Len(table)]
  BY DEF ActiveLines, Turn, SaveTurn
<1> HIDE DEF f
<1>3. \A n \in 0 .. Len(table) : f[n] = Turn("save", table, f, n)
  BY <1>1
<1> QED BY <1>2, <1>3

LEMMA LoopIsLinesOf ==
    ASSUME NEW text, Len(text) \in Nat
    PROVE  \E f : /\ \A n \in 0 .. Len(text) : f[n] = Turn("read", text, f, n)
                  /\ LinesOf(text) = f[Len(text)]
<1> DEFINE f == CHOOSE g : g = [n \in 0 .. Len(text) |-> Turn("read", text, g, n)]
<1>1. f = [n \in 0 .. Len(text) |-> Turn("read", text, f, n)]
  BY LoopExists
<1>2. LinesOf(text) = f[Len(text)]
  BY DEF LinesOf, Turn, ReadTurn
<1> HIDE DEF f
<1>3. \A n \in 0 .. Len(text) : f[n] = Turn("read", text, f, n)
  BY <1>1
<1> QED BY <1>2, <1>3

LEMMA LoopIsLoaded ==
    ASSUME NEW text, Len(LinesOf(text)) \in Nat
    PROVE  \E f : /\ \A n \in 0 .. Len(LinesOf(text)) : f[n] = Turn("load", LinesOf(text), f, n)
                  /\ Loaded(text) = f[Len(LinesOf(text))]
<1> DEFINE lines == LinesOf(text)
           f == CHOOSE g : g = [n \in 0 .. Len(lines) |-> Turn("load", lines, g, n)]
<1>1. f = [n \in 0 .. Len(lines) |-> Turn("load", lines, f, n)]
  <2> HIDE DEF lines
  <2> QED BY LoopExists DEF lines
<1>2. Loaded(text) = f[Len(lines)]
  BY DEF Loaded, Turn, LoadTurn
<1> HIDE DEF f
<1>3. \A n \in 0 .. Len(lines) : f[n] = Turn("load", lines, f, n)
  BY <1>1
<1> QED BY <1>2, <1>3

---------------------------------------------------------------------------
(* What the loops give.                                                    *)

LEMMA CharsAre ==
    /\ Sep \in Chars /\ Eol \in Chars
    /\ \A n \in 1 .. 10 : DigitChars[n] \in Chars
<1>1. \A n \in 1 .. 10 : DigitChars[n] \in Range(DigitChars)
  BY DEF DigitChars, Range
<1> QED BY <1>1 DEF Chars

LEMMA LineType == ASSUME NEW u \in AccountSet PROVE LineOf(u) \in Texts
<1>1. u.name \in Seq(Chars) /\ u.pass \in Seq(Chars) /\ u.priv + 1 \in 1 .. 10
  BY DEF AccountSet, NameSet, PassSet, Texts
<1>2. <<Sep>> \in Seq(Chars) /\ <<Eol>> \in Seq(Chars) /\ <<DigitChars[u.priv + 1]>> \in Seq(Chars)
  BY <1>1, CharsAre
<1>3. u.name \o <<Sep>> \in Seq(Chars)
  BY <1>1, <1>2, ConcatProperties
<1>4. u.name \o <<Sep>> \o u.pass \in Seq(Chars)
  BY <1>1, <1>3, ConcatProperties
<1>5. u.name \o <<Sep>> \o u.pass \o <<Sep>> \in Seq(Chars)
  BY <1>2, <1>4, ConcatProperties
<1>6. u.name \o <<Sep>> \o u.pass \o <<Sep>> \o <<DigitChars[u.priv + 1]>> \in Seq(Chars)
  BY <1>2, <1>5, ConcatProperties
<1> QED BY <1>2, <1>6, ConcatProperties DEF LineOf, Texts

LEMMA ActiveLinesType ==
    ASSUME NEW table \in Seq(AccountSet)
    PROVE  ActiveLines(table) \in Texts
<1>1. Len(table) \in Nat /\ \A n \in 1 .. Len(table) : table[n] \in AccountSet
  BY LenProperties, ElementOfSeq
<1>2. PICK f : /\ \A n \in 0 .. Len(table) : f[n] = Turn("save", table, f, n)
               /\ ActiveLines(table) = f[Len(table)]
  BY <1>1, LoopIsActiveLines
<1> DEFINE T == {m \in Nat : m <= Len(table) => f[m] \in Texts}
<1>3. 0 \in T
  <2>1. f[0] = <<>>
    BY <1>1, <1>2 DEF Turn
  <2> QED BY <2>1, EmptySeq DEF Texts
<1>4. ASSUME NEW m \in Nat, m \in T PROVE m + 1 \in T
  <2> SUFFICES ASSUME m + 1 <= Len(table) PROVE f[m + 1] \in Texts
    OBVIOUS
  <2>1. f[m] \in Texts /\ LineOf(table[m + 1]) \in Texts
    BY <1>1, <1>4, LineType
  <2>2. f[m + 1] = SaveTurn(table, f[m], m + 1)
    BY <1>1, <1>2 DEF Turn
  <2> QED BY <2>1, <2>2, ConcatProperties DEF SaveTurn, Texts
<1> HIDE DEF T
<1>5. Len(table) \in T
  BY <1>1, <1>3, <1>4, SetInduction
<1> QED BY <1>1, <1>2, <1>5 DEF T

LEMMA LinesType ==
    ASSUME NEW text \in Texts
    PROVE  LinesOf(text) \in Seq(Texts)
<1>1. Len(text) \in Nat /\ \A n \in 1 .. Len(text) : text[n] \in Chars
  BY LenProperties, ElementOfSeq DEF Texts
<1>2. PICK f : /\ \A n \in 0 .. Len(text) : f[n] = Turn("read", text, f, n)
               /\ LinesOf(text) = f[Len(text)]
  BY <1>1, LoopIsLinesOf
<1>3. <<>> \in Texts
  BY EmptySeq DEF Texts
<1> DEFINE Good(lines) == lines \in Seq(Texts) /\ Len(lines) \in Nat \ {0}
           T == {m \in Nat : m <= Len(text) => Good(f[m])}
<1>4. 0 \in T
  <2>1. f[0] = << <<>> >>
    BY <1>1, <1>2 DEF Turn
  <2>2. Good(<< <<>> >>)
    BY <1>3
  <2> QED BY <2>1, <2>2
<1>5. ASSUME NEW m \in Nat, m \in T PROVE m + 1 \in T
  <2> SUFFICES ASSUME m + 1 <= Len(text) PROVE Good(f[m + 1])
    OBVIOUS
  <2> DEFINE lines == f[m]
             c == text[m + 1]
             more == Append(lines[Len(lines)], c)
  <2>1. Good(lines) /\ c \in Chars
    BY <1>1, <1>5
  <2>2. f[m + 1] = ReadTurn(text, lines, m + 1)
    BY <1>1, <1>2 DEF Turn
  <2>3. lines[Len(lines)] \in Texts
    BY <2>1, ElementOfSeq
  <2>4. more \in Texts
    BY <2>1, <2>3, AppendProperties DEF Texts
  <2> HIDE DEF lines, more
  <2>5. CASE c = Eol
    <3>1. f[m + 1] = Append(lines, <<>>)
      BY <2>2, <2>5 DEF ReadTurn
    <3> QED BY <1>3, <2>1, <3>1, AppendProperties
  <2>6. CASE c # Eol
    <3>1. f[m + 1] = [lines EXCEPT ![Len(lines)] = more]
      BY <2>2, <2>6 DEF ReadTurn, more
    <3>2. Len(lines) \in 1 .. Len(lines)
      BY <2>1
    <3> QED BY <2>1, <2>4, <3>1, <3>2, ExceptSeq
  <2> QED BY <2>5, <2>6
<1> HIDE DEF T
<1>6. Len(text) \in T
  BY <1>1, <1>4, <1>5, SetInduction
<1> QED BY <1>1, <1>2, <1>6 DEF T

(* Where the separators are.                                               *)
LEMMA LeastIn ==
    ASSUME NEW I, I \subseteq Nat, I # {}
    PROVE  Min(I) \in I
<1>1. \E x \in I : \A y \in I : x <= y
  BY LeastElement
<1> QED BY <1>1 DEF Min

LEMMA SeparatorsAre ==
    ASSUME UsersAssumption, NEW line \in Texts, IsEntry(line)
    PROVE  /\ FirstSep(line) \in Nat /\ FirstSep(line) - 1 \in 1 .. NameMax - 1
           /\ SecondSep(line) \in Nat /\ SecondSep(line) <= Len(line)
           /\ SecondSep(line) - FirstSep(line) - 1 \in 0 .. PassMax - 1
<1>1. Len(line) \in Nat /\ NameMax \in Nat /\ PassMax \in Nat
  BY LenProperties DEF Texts, UsersAssumption
<1>2. FirstSep(line) \in 2 .. NameMax
  BY DEF IsEntry
<1>3. SecondSep(line) \in FirstSep(line) + 1 .. FirstSep(line) + PassMax
  BY DEF IsEntry
<1> DEFINE I == {i \in FirstSep(line) + 1 .. Len(line) : line[i] = Sep}
<1>4. SecondSep(line) = IF I # {} THEN Min(I) ELSE 0
  BY DEF SecondSep, SelectInSubSeq
<1>5. I \subseteq Nat
  BY <1>1, <1>2
<1>6. \A i \in I : i \in Nat /\ i <= Len(line)
  BY <1>1, <1>2
<1> HIDE DEF I
<1>7. SecondSep(line) # 0
  BY <1>2, <1>3
<1>8. I # {}
  BY <1>4, <1>7
<1>9. SecondSep(line) \in I
  BY <1>4, <1>5, <1>8, LeastIn
<1> QED BY <1>1, <1>2, <1>3, <1>6, <1>9

LEMMA EntryType ==
    ASSUME UsersAssumption, NEW line \in Texts, IsEntry(line)
    PROVE  Entry(line) \in AccountSet
<1> DEFINE a == FirstSep(line)
           b == SecondSep(line)
<1>1. /\ a \in Nat /\ a - 1 \in 1 .. NameMax - 1
      /\ b \in Nat /\ b <= Len(line) /\ b - a - 1 \in 0 .. PassMax - 1
  BY SeparatorsAre
<1>2. Len(line) \in Nat /\ \A n \in 1 .. Len(line) : line[n] \in Chars
      /\ NameMax \in Nat /\ PassMax \in Nat
  BY LenProperties, ElementOfSeq DEF Texts, UsersAssumption
<1>3. LevelOf(line) \in 0 .. 9
  <2> DEFINE c == IF b < Len(line) THEN line[b + 1] ELSE Sep
             digit == CHOOSE n \in 1 .. 10 : DigitChars[n] = c
  <2>1. LevelOf(line) = IF c \in Range(DigitChars) THEN digit - 1 ELSE 0
    BY DEF LevelOf
  <2> HIDE DEF c
  <2>2. c \in Range(DigitChars) => \E n \in 1 .. 10 : DigitChars[n] = c
    BY DEF Range, DigitChars
  <2>3. c \in Range(DigitChars) => digit \in 1 .. 10
    BY <2>2
  <2> HIDE DEF digit
  <2> QED BY <2>1, <2>3
<1> DEFINE name == SubSeq(line, 1, a - 1)
           pass == SubSeq(line, a + 1, b - 1)
<1>4. Entry(line) = Account(name, pass, LevelOf(line))
  BY DEF Entry
<1> HIDE DEF a, b
<1>5. name \in Seq(Chars) /\ Len(name) = a - 1
  <2>1. \A i \in 1 .. a - 1 : line[i] \in Chars
    BY <1>1, <1>2
  <2> QED BY <1>1, <1>2, <2>1, SubSeqProperties
<1>6. pass \in Seq(Chars) /\ Len(pass) = b - a - 1
  <2>1. \A i \in a + 1 .. b - 1 : line[i] \in Chars
    BY <1>1, <1>2
  <2> QED BY <1>1, <1>2, <2>1, SubSeqProperties
<1> HIDE DEF name, pass
<1>7. name \in NameSet /\ pass \in PassSet
  BY <1>1, <1>5, <1>6 DEF NameSet, PassSet, Texts
<1> QED BY <1>3, <1>4, <1>7 DEF Account, AccountSet

LEMMA LoadedType ==
    ASSUME UsersAssumption, NEW text \in Texts
    PROVE  Loaded(text) \in Seq(AccountSet) /\ Len(Loaded(text)) <= UserMax
<1> DEFINE lines == LinesOf(text)
<1>1. lines \in Seq(Texts)
  BY LinesType
<1>2. Len(lines) \in Nat
  BY <1>1, LenProperties
<1>3. PICK f : /\ \A n \in 0 .. Len(lines) : f[n] = Turn("load", lines, f, n)
               /\ Loaded(text) = f[Len(lines)]
  BY <1>2, LoopIsLoaded
<1> HIDE DEF lines
<1>4. \A n \in 1 .. Len(lines) : lines[n] \in Texts
  BY <1>1, <1>2, ElementOfSeq
<1>5. UserMax \in Nat /\ UserMax >= 2
  BY DEF UsersAssumption
<1> DEFINE Good(table) == table \in Seq(AccountSet) /\ Len(table) <= UserMax
           T == {m \in Nat : m <= Len(lines) => Good(f[m])}
<1>6. 0 \in T
  <2>1. f[0] = <<>>
    BY <1>2, <1>3 DEF Turn
  <2>2. Good(<<>>)
    BY <1>5, EmptySeq
  <2> QED BY <2>1, <2>2
<1>7. ASSUME NEW m \in Nat, m \in T PROVE m + 1 \in T
  <2> SUFFICES ASSUME m + 1 <= Len(lines) PROVE Good(f[m + 1])
    OBVIOUS
  <2> DEFINE table == f[m]
             line == lines[m + 1]
  <2>1. Good(table) /\ Len(table) \in Nat /\ line \in Texts
    BY <1>4, <1>7, LenProperties
  <2>2. f[m + 1] = LoadTurn(lines, table, m + 1)
    BY <1>2, <1>3 DEF Turn
  <2> HIDE DEF table
  <2>3. CASE Len(table) < UserMax /\ IsEntry(line)
    <3>1. f[m + 1] = Append(table, Entry(line)) /\ Entry(line) \in AccountSet
      BY <2>1, <2>2, <2>3, EntryType DEF LoadTurn
    <3>2. Append(table, Entry(line)) \in Seq(AccountSet)
          /\ Len(Append(table, Entry(line))) = Len(table) + 1
      BY <2>1, <3>1, AppendProperties
    <3> QED BY <1>5, <2>1, <2>3, <3>1, <3>2
  <2>4. CASE ~(Len(table) < UserMax /\ IsEntry(line))
    BY <2>1, <2>2, <2>4 DEF LoadTurn
  <2> QED BY <2>3, <2>4
<1> HIDE DEF T
<1>8. Len(lines) \in T
  BY <1>2, <1>6, <1>7, SetInduction
<1> QED BY <1>2, <1>3, <1>8 DEF T

---------------------------------------------------------------------------
(* The file.                                                               *)

LEMMA OverIs ==
    ASSUME NEW new \in Seq(Chars), NEW old \in Seq(Chars)
    PROVE  /\ Over(new, old) \in Seq(Chars)
           /\ Len(Over(new, old)) = IF Len(new) <= Len(old) THEN Len(old) ELSE Len(new)
           /\ \A i \in 1 .. Len(new) : Over(new, old)[i] = new[i]
           /\ \A i \in Len(new) + 1 .. Len(old) : Over(new, old)[i] = old[i]
<1> DEFINE rest == SubSeq(old, Len(new) + 1, Len(old))
<1>1. Len(new) \in Nat /\ Len(old) \in Nat
  BY LenProperties
<1>2. \A i \in Len(new) + 1 .. Len(old) : old[i] \in Chars
  BY <1>1, ElementOfSeq
<1>3. /\ rest \in Seq(Chars)
      /\ Len(rest) = IF Len(new) + 1 <= Len(old) THEN Len(old) - Len(new) ELSE 0
      /\ \A i \in 1 .. Len(old) - Len(new) : rest[i] = old[Len(new) + i]
  BY <1>1, <1>2, SubSeqProperties
<1> HIDE DEF rest
<1>4. /\ new \o rest \in Seq(Chars)
      /\ Len(new \o rest) = Len(new) + Len(rest)
      /\ \A i \in 1 .. Len(new) + Len(rest) :
             (new \o rest)[i] = IF i <= Len(new) THEN new[i] ELSE rest[i - Len(new)]
  BY <1>3, ConcatProperties
<1>5. \A i \in Len(new) + 1 .. Len(old) : rest[i - Len(new)] = old[i]
  BY <1>1, <1>3
<1>6. Over(new, old) = new \o rest
  BY DEF Over, rest
<1> QED BY <1>1, <1>3, <1>4, <1>5, <1>6

(* A sequence whose first elements are those of another has it as prefix.  *)
LEMMA PrefixByElements ==
    ASSUME NEW S, NEW s \in Seq(S), NEW t \in Seq(S), Len(s) <= Len(t)
    PROVE  IsPrefix(s, t) <=> \A i \in 1 .. Len(s) : s[i] = t[i]
<1>1. Len(s) \in Nat /\ Len(t) \in Nat
  BY LenProperties
<1>2. \A i \in 1 .. Len(s) : s[i] \in S /\ t[i] \in S
  BY <1>1, ElementOfSeq
<1>3. /\ SubSeq(s, 1, Len(s)) \in Seq(S) /\ Len(SubSeq(s, 1, Len(s))) = Len(s)
      /\ \A i \in 1 .. Len(s) : SubSeq(s, 1, Len(s))[i] = s[i]
  BY <1>1, <1>2, SubSeqProperties
<1>4. /\ SubSeq(t, 1, Len(s)) \in Seq(S) /\ Len(SubSeq(t, 1, Len(s))) = Len(s)
      /\ \A i \in 1 .. Len(s) : SubSeq(t, 1, Len(s))[i] = t[i]
  BY <1>1, <1>2, SubSeqProperties
<1>5. SubSeq(s, 1, Len(s)) = SubSeq(t, 1, Len(s)) <=> \A i \in 1 .. Len(s) : s[i] = t[i]
  BY <1>3, <1>4, SeqEqual
<1> QED BY <1>5 DEF IsPrefix

---------------------------------------------------------------------------
(* The inductive invariant: that table and file are well formed is what    *)
(* Recorded needs so that it holds again after the file is read back.      *)
TableOK(table) == table \in Seq(AccountSet) /\ Len(table) <= UserMax
FileOK == passwd \in Texts /\ fresh \in BOOLEAN /\ (fresh => passwd = <<>>)
IInv ==
    /\ TableOK(users) /\ FileOK /\ Recorded
    /\ current \in 0 .. Len(users)
    /\ plain \in BOOLEAN

(* A table is saved so that the file begins with it.                       *)
LEMMA SaveKeeps ==
    ASSUME FileOK, TableOK(users'), Save(users')
    PROVE  FileOK' /\ Recorded'
<1> DEFINE text == ActiveLines(users')
<1>1. text \in Texts
  BY ActiveLinesType DEF TableOK
<1> HIDE DEF text
<1>2. CASE text = <<>>
  <2>1. UNCHANGED <<passwd, fresh>>
    BY <1>2 DEF Save, text
  <2>2. IsPrefix(text, passwd)
    <3>1. Len(text) = 0 /\ Len(passwd) \in Nat
      BY <1>2, LenProperties DEF FileOK, Texts
    <3>2. Len(text) <= Len(passwd) /\ \A i \in 1 .. Len(text) : text[i] = passwd[i]
      BY <3>1
    <3> QED BY <1>1, <3>2, PrefixByElements DEF FileOK, Texts
  <2> QED BY <2>1, <2>2 DEF FileOK, Recorded, text
<1>3. CASE text # <<>>
  <2>1. fresh' = FALSE /\ passwd' = IF fresh THEN passwd ELSE Over(text, passwd)
    BY <1>3 DEF Save, text
  <2>2. CASE fresh
    BY <2>1, <2>2 DEF FileOK, Recorded
  <2>3. CASE ~fresh
    <3>1. /\ passwd' \in Texts /\ Len(text) <= Len(passwd')
          /\ \A i \in 1 .. Len(text) : passwd'[i] = text[i]
      BY <1>1, <2>1, <2>3, OverIs, LenProperties DEF FileOK, Texts
    <3>2. IsPrefix(text, passwd')
      BY <1>1, <3>1, PrefixByElements DEF Texts
    <3> QED BY <2>1, <3>1, <3>2 DEF FileOK, Recorded, text
  <2> QED BY <2>2, <2>3
<1> QED BY <1>2, <1>3

---------------------------------------------------------------------------
(* The names and passwords, cut to their fields.                           *)
LEMMA CutType ==
    ASSUME NEW text \in Texts, NEW max \in Nat \ {0}
    PROVE  /\ Cut(text, max) \in Texts /\ Len(Cut(text, max)) <= max - 1
           /\ Len(text) >= 1 /\ max >= 2 => Len(Cut(text, max)) >= 1
<1> DEFINE k == IF Len(text) < max THEN Len(text) ELSE max - 1
<1>1. Len(text) \in Nat /\ \A n \in 1 .. Len(text) : text[n] \in Chars
  BY LenProperties, ElementOfSeq DEF Texts
<1>2. k \in 0 .. max - 1 /\ k <= Len(text) /\ (Len(text) >= 1 /\ max >= 2 => k >= 1)
  BY <1>1
<1>3. Cut(text, max) = SubSeq(text, 1, k)
  BY DEF Cut
<1> HIDE DEF k
<1>4. \A i \in 1 .. k : text[i] \in Chars
  BY <1>1, <1>2
<1>5. SubSeq(text, 1, k) \in Seq(Chars) /\ Len(SubSeq(text, 1, k)) = k
  BY <1>2, <1>4, SubSeqProperties
<1> QED BY <1>1, <1>2, <1>3, <1>5 DEF Texts

LEMMA BuiltIn ==
    ASSUME UsersAssumption
    PROVE  /\ RootName \in NameSet /\ StackName \in NameSet
           /\ RootPass \in PassSet /\ StackPass \in PassSet
<1>1. /\ RootName \in Texts /\ StackName \in Texts /\ RootPass \in Texts
  BY DEF RootName, StackName, RootPass, Texts, Chars, UsersAssumption
<1>2. Len(RootName) = 4 /\ Len(StackName) = 5 /\ Len(RootPass) = 5
  BY DEF RootName, StackName, RootPass
<1>3. NameMax \in Nat /\ NameMax >= 6 /\ PassMax \in Nat /\ PassMax >= 6
  BY DEF UsersAssumption
<1>4. /\ Len(RootName) \in 1 .. NameMax - 1 /\ Len(StackName) \in 1 .. NameMax - 1
      /\ Len(RootPass) \in 0 .. PassMax - 1 /\ Len(StackName) \in 0 .. PassMax - 1
  <2>1. \A k \in Nat : k >= 6 => 4 \in 1 .. k - 1 /\ 5 \in 1 .. k - 1 /\ 5 \in 0 .. k - 1
    OBVIOUS
  <2> QED BY <1>2, <1>3, <2>1
<1> QED BY <1>1, <1>4, Zenon DEF NameSet, PassSet, StackPass

LEMMA TypedFits ==
    ASSUME UsersAssumption
    PROVE  /\ \A name \in AllNames : Cut(name, NameMax) \in NameSet
           /\ \A pass \in Passwords : Cut(pass, PassMax) \in PassSet
<1>1. NameMax \in Nat /\ NameMax >= 6 /\ PassMax \in Nat /\ PassMax >= 6
  BY DEF UsersAssumption
<1>2. \A text \in Names \cup Passwords : text \in Texts /\ Len(text) \in Nat \ {0}
  BY EmptySeq, LenProperties DEF UsersAssumption, Typed, Texts
<1>3. \A name \in AllNames : name \in Texts /\ Len(name) \in Nat \ {0}
  BY <1>2, BuiltIn DEF AllNames, NameSet
<1>4. ASSUME NEW name \in AllNames PROVE Cut(name, NameMax) \in NameSet
  <2>1. Cut(name, NameMax) \in Texts /\ Len(Cut(name, NameMax)) <= NameMax - 1
        /\ Len(Cut(name, NameMax)) >= 1
    BY <1>1, <1>3, CutType
  <2>2. Len(Cut(name, NameMax)) \in Nat
    BY <2>1, LenProperties DEF Texts
  <2> QED BY <1>1, <2>1, <2>2 DEF NameSet
<1>5. ASSUME NEW pass \in Passwords PROVE Cut(pass, PassMax) \in PassSet
  <2>1. Cut(pass, PassMax) \in Texts /\ Len(Cut(pass, PassMax)) <= PassMax - 1
    BY <1>1, <1>2, CutType
  <2>2. Len(Cut(pass, PassMax)) \in Nat
    BY <2>1, LenProperties DEF Texts
  <2> QED BY <1>1, <2>1, <2>2 DEF PassSet
<1> QED BY <1>4, <1>5

LEMMA DefaultsAre == ASSUME UsersAssumption PROVE TableOK(Defaults) /\ Len(Defaults) = 2
<1>1. /\ Account(RootName, RootPass, PrivRoot) \in AccountSet
      /\ Account(StackName, StackPass, PrivUser) \in AccountSet
  BY BuiltIn DEF Account, AccountSet, PrivRoot, PrivUser
<1>2. Defaults \in Seq(AccountSet) /\ Len(Defaults) = 2
  BY <1>1 DEF Defaults
<1> QED BY <1>2 DEF TableOK, UsersAssumption

LEMMA InitEstablishes == ASSUME UsersAssumption, Init PROVE IInv
<1>1. TableOK(users) /\ Len(users) = 2 /\ users = Defaults
  BY DefaultsAre DEF Init
<1>2. passwd = ActiveLines(users) /\ passwd \in Seq(Chars)
  BY <1>1, ActiveLinesType DEF Init, TableOK, Texts
<1>3. Len(passwd) \in Nat
  BY <1>2, LenProperties
<1>4. IsPrefix(ActiveLines(users), passwd)
  BY <1>2, <1>3, PrefixByElements
<1>5. FileOK /\ Recorded
  BY <1>2, <1>4 DEF Init, FileOK, Recorded, Texts
<1> QED BY <1>1, <1>5 DEF Init, IInv

(* What is known of the table and its indices.                             *)
LEMMA TableFacts ==
    ASSUME IInv
    PROVE  /\ Len(users) \in Nat /\ Len(users) <= UserMax
           /\ users \in Seq(AccountSet) /\ DOMAIN users = 1 .. Len(users)
           /\ \A n \in 1 .. Len(users) : users[n] \in AccountSet
           /\ current \in 0 .. Len(users)
BY LenProperties, ElementOfSeq DEF IInv, TableOK

LEMMA UserAddKeeps ==
    ASSUME UsersAssumption, IInv, NEW name \in AllNames, NEW pass \in Passwords, UserAdd(name, pass)
    PROVE  IInv'
<1> DEFINE u == Account(Cut(name, NameMax), Cut(pass, PassMax), PrivUser)
<1>1. /\ HasRoom /\ users' = Append(users, u) /\ Save(users') /\ UNCHANGED current
  BY DEF UserAdd
<1>2. u \in AccountSet
  BY TypedFits DEF Account, AccountSet, PrivUser
<1> HIDE DEF u
<1>3. users' \in Seq(AccountSet) /\ Len(users') = Len(users) + 1
  BY <1>1, <1>2, TableFacts, AppendProperties
<1>4. TableOK(users')
  BY <1>1, <1>3, TableFacts DEF TableOK, HasRoom, UsersAssumption
<1>5. FileOK' /\ Recorded'
  BY <1>1, <1>4, SaveKeeps DEF IInv
<1>6. current' \in 0 .. Len(users')
  BY <1>1, <1>3, TableFacts
<1>7. plain' \in BOOLEAN
  BY DEF UserAdd, IInv
<1> QED BY <1>4, <1>5, <1>6, <1>7 DEF IInv

(* A change of one account.                                                *)
LEMMA EditKeeps ==
    ASSUME IInv, NEW n \in 1 .. Len(users), NEW u \in AccountSet,
           users' = [users EXCEPT ![n] = u], Save(users'), UNCHANGED current, plain' \in BOOLEAN
    PROVE  IInv'
<1>1. users' \in Seq(AccountSet) /\ Len(users') = Len(users)
  BY TableFacts, ExceptSeq
<1>2. TableOK(users')
  BY <1>1, TableFacts DEF TableOK
<1>3. FileOK' /\ Recorded'
  BY <1>2, SaveKeeps DEF IInv
<1> QED BY <1>1, <1>2, <1>3, TableFacts DEF IInv

LEMMA UserDelKeeps ==
    ASSUME IInv, NEW name \in AllNames, UserDel(name)
    PROVE  IInv'
<1>1. PICK n \in DOMAIN users :
        /\ users' = [users EXCEPT ![n].active = FALSE]
        /\ Save([users EXCEPT ![n].active = FALSE])
  BY DEF UserDel, Deactivated
<1>2. UNCHANGED current /\ plain' \in BOOLEAN
  BY DEF UserDel, IInv
<1>3. n \in 1 .. Len(users) /\ users[n] \in AccountSet
  BY <1>1, TableFacts
<1> DEFINE u == [users[n] EXCEPT !.active = FALSE]
<1>4. u \in AccountSet /\ users' = [users EXCEPT ![n] = u] /\ Save(users')
  BY <1>1, <1>3 DEF AccountSet
<1> HIDE DEF u
<1> QED BY <1>2, <1>3, <1>4, EditKeeps

LEMMA ChPassKeeps ==
    ASSUME UsersAssumption, IInv, NEW name \in AllNames, NEW pass \in Passwords, ChPass(name, pass)
    PROVE  IInv'
<1> DEFINE new == Cut(pass, PassMax)
<1>1. PICK n \in DOMAIN users :
        /\ users' = [users EXCEPT ![n].pass = new]
        /\ Save([users EXCEPT ![n].pass = new])
  BY DEF ChPass, SaveNewPass
<1>2. UNCHANGED current /\ plain' \in BOOLEAN /\ new \in PassSet
  BY TypedFits DEF ChPass, IInv
<1> HIDE DEF new
<1>3. n \in 1 .. Len(users) /\ users[n] \in AccountSet
  BY <1>1, TableFacts
<1> DEFINE u == [users[n] EXCEPT !.pass = new]
<1>4. u \in AccountSet /\ users' = [users EXCEPT ![n] = u] /\ Save(users')
  BY <1>1, <1>2, <1>3 DEF AccountSet
<1> HIDE DEF u
<1> QED BY <1>2, <1>3, <1>4, EditKeeps

LEMMA RebootKeeps == ASSUME UsersAssumption, IInv, Reboot PROVE IInv'
<1>1. /\ users' = (IF Loaded(passwd) = <<>> THEN Defaults ELSE Loaded(passwd))
      /\ Save(users') /\ current' = 0 /\ UNCHANGED plain
  BY DEF Reboot
<1>2. TableOK(users')
  BY <1>1, LoadedType, DefaultsAre DEF IInv, FileOK, TableOK
<1>3. FileOK' /\ Recorded'
  BY <1>1, <1>2, SaveKeeps DEF IInv
<1>4. 0 \in 0 .. Len(users')
  BY <1>2, LenProperties DEF TableOK
<1> QED BY <1>1, <1>2, <1>3, <1>4 DEF IInv

LEMMA OthersKeep ==
    ASSUME IInv,
           \/ \E name \in AllNames, pass \in AllPasswords : Login(name, pass)
           \/ Logout \/ Format \/ OtherEntry \/ UNCHANGED vars
    PROVE  IInv'
<1>1. UNCHANGED <<users, plain>>
  BY DEF Login, Logout, Format, OtherEntry, vars
<1>2. TableOK(users)'
  BY <1>1 DEF IInv, TableOK
<1>3. FileOK' /\ Recorded'
  <2>1. CASE UNCHANGED <<passwd, fresh>>
    BY <1>1, <2>1 DEF IInv, FileOK, Recorded
  <2>2. CASE Format
    BY <2>2, EmptySeq DEF Format, FileOK, Recorded, Texts
  <2>3. CASE OtherEntry
    BY <1>1, <2>3 DEF OtherEntry, IInv, FileOK, Recorded
  <2> QED BY <2>1, <2>2, <2>3 DEF Login, Logout, vars
<1>4. current' \in 0 .. Len(users')
  <2>1. CASE UNCHANGED current
    BY <1>1, <2>1 DEF IInv
  <2>2. CASE current' = 0
    BY <1>1, <2>2, TableFacts
  <2>3. ASSUME NEW name \in AllNames, NEW pass \in AllPasswords, Login(name, pass)
        PROVE  current' \in 0 .. Len(users')
    <3>1. current' \in Named(users, name)
      BY <2>3 DEF Login
    <3> QED BY <1>1, <3>1, TableFacts DEF Named
  <2> QED BY <2>1, <2>2, <2>3 DEF Logout, Format, OtherEntry, vars
<1> QED BY <1>1, <1>2, <1>3, <1>4 DEF IInv

---------------------------------------------------------------------------
(* The inductive invariant: table and file are well formed and agree, over *)
(* saving, over what longer texts leave behind, and over taking the text   *)
(* apart again.                                                            *)
THEOREM UsersInvariant == Spec => []IInv
<1>1. Init => IInv
  BY UsersAssumption, InitEstablishes
<1>2. IInv /\ [Next]_vars => IInv'
  <2> SUFFICES ASSUME IInv, [Next]_vars PROVE IInv'
    OBVIOUS
  <2>1. ASSUME NEW name \in AllNames, NEW pass \in Passwords, UserAdd(name, pass) PROVE IInv'
    BY <2>1, UsersAssumption, UserAddKeeps
  <2>2. ASSUME NEW name \in AllNames, UserDel(name) PROVE IInv'
    BY <2>2, UserDelKeeps
  <2>3. ASSUME NEW name \in AllNames, NEW pass \in Passwords, ChPass(name, pass) PROVE IInv'
    BY <2>3, UsersAssumption, ChPassKeeps
  <2>4. CASE Reboot
    BY <2>4, UsersAssumption, RebootKeeps
  <2>5. CASE \/ \E name \in AllNames, pass \in AllPasswords : Login(name, pass)
             \/ Logout \/ Format \/ OtherEntry \/ UNCHANGED vars
    BY <2>5, OthersKeep
  <2> QED BY <2>1, <2>2, <2>3, <2>4, <2>5 DEF Next
<1> QED BY <1>1, <1>2, PTL DEF Spec

(* The table never holds more than USER_MAX accounts, every field fits and *)
(* every level is a digit, whatever text was left in the file and read.    *)
THEOREM UsersTypes == Spec => []TypeOK
<1>1. IInv => TypeOK
  <2> SUFFICES ASSUME IInv PROVE TypeOK
    OBVIOUS
  <2>1. \A n \in DOMAIN users : AccountType(users[n])
    BY TableFacts DEF AccountSet, NameSet, PassSet, AccountType
  <2> QED BY <2>1, TableFacts DEF IInv, FileOK, TypeOK
<1> QED BY <1>1, UsersInvariant, PTL

(* The file begins with the accounts there are, with their passwords.      *)
THEOREM UsersRecorded == Spec => []Recorded
<1>1. IInv => Recorded
  BY DEF IInv
<1> QED BY <1>1, UsersInvariant, PTL
=============================================================================
