---------------------------- MODULE Shell_proofs ----------------------------
(***************************************************************************)
(* A Result is complete whatever the capacity of a pipe and the length of  *)
(* the output, and getRecorderPid() finds the recorder in it however many  *)
(* processes ps lists.                                                     *)
(***************************************************************************)
EXTENDS RecorderPid, SequenceTheorems, TLAPS

\* The caller reads only what an ended process has left behind.
ReadsTheEnded ==
  /\ pc \in {"waitFor", "readOut", "readErr"} => received
  /\ pc \in {"readOut", "readErr"} => process = "exited"
  /\ process = "exited" => \A s \in Stream : pipe[s] + msg[s] = output[s]
  /\ pc = "readErr" => pipe["out"] = 0
  /\ pc \in {"exec", "write", "waitFor"} => result = -1

IInv == TypeOK /\ ReadsTheEnded /\ ResultIsComplete

\* IInv holds at first and is kept by the steps of the caller and the process.
THEOREM Inductive == Spec => []IInv
<1> USE ShellAssumption DEF IInv, TypeOK, ReadsTheEnded, ResultIsComplete, Stream
<1>1. ASSUME Init PROVE IInv
  <2>1. received = FALSE /\ refused \in BOOLEAN
    BY <1>1 DEF Init
  <2>2. received \in BOOLEAN
    BY <2>1, Zenon
  <2> QED
    BY <1>1, <2>1, <2>2 DEF Init
<1>2. ASSUME IInv, [Next]_vars PROVE IInv'
  <2> USE <1>2
  <2>1. CASE Exec
    BY <2>1 DEF Exec
  <2>2. CASE WriteCommand
    BY <2>2 DEF WriteCommand
  <2>3. CASE WaitFor
    BY <2>3 DEF WaitFor
  <2>4. CASE ReadLine("readOut", "out", "readErr")
    BY <2>4 DEF ReadLine, AtEnd
  <2>5. CASE ReadLine("readErr", "err", "returned")
    <3>1. CASE AtEnd("err")
      <4>1. UNCHANGED <<output, process, received, pipe, msg, result>>
        BY <2>5, <3>1 DEF ReadLine
      <4>2. \A s \in Stream : msg[s] = output[s]
        BY <2>5, <3>1 DEF ReadLine, AtEnd
      <4>3. msg = output
        BY <4>2
      <4> QED
        BY <2>5, <3>1, <4>1, <4>3 DEF ReadLine
    <3>2. CASE ~AtEnd("err")
      BY <2>5, <3>2 DEF ReadLine, AtEnd
    <3> QED
      BY <3>1, <3>2
  <2>6. CASE ProcessExits
    BY <2>6 DEF ProcessExits
  <2>7. ASSUME NEW s \in Stream, Write(s) PROVE IInv'
    BY <2>7 DEF Write, Room
  <2>8. CASE UNCHANGED vars
    BY <2>8 DEF vars
  <2> QED
    BY <2>1, <2>2, <2>3, <2>4, <2>5, <2>6, <2>7, <2>8 DEF Next, Caller, Process
<1> QED
  BY <1>1, <1>2, PTL DEF Spec

\* No call returns half of the output of its command.
THEOREM NoHalfResult == Spec => []ResultIsComplete
BY Inductive, PTL DEF IInv
-----------------------------------------------------------------------------
(***************************************************************************)
(* getRecorderPid().  Every line of ps adds eight tokens to the text,      *)
(* although its first word belongs to the last token of the line before:   *)
(* so the name of process k begins token 8k + 8, and token 8k + 1 is its   *)
(* pid.                                                                    *)
(***************************************************************************)

Word == Columns \cup {Header[i] : i \in DOMAIN Header} \cup {PATH} \cup OtherNames \cup Nat

Token == Seq(Word) \ {<< >>}

\* The processes whose lines have been read, after the header.
ReadLines == 1 .. msg["out"] - 1

TextTells ==
  /\ successMsg \in Seq(Token)
  /\ Len(successMsg) = 8 * msg["out"]
  /\ \A i \in DOMAIN successMsg : Head(successMsg[i]) = PATH =>
       \E k \in ReadLines : i = 8 * k + 8 /\ names[k] = PATH
  /\ \A k \in ReadLines :
       /\ successMsg[8 * k + 1] = <<k>>
       /\ names[k] = PATH => Head(successMsg[8 * k + 8]) = PATH

\* If a recorder has been listed, one has been listed first.
FirstListed ==
  (\E k \in ReadLines : names[k] = PATH) =>
     \E k \in ReadLines : names[k] = PATH /\ \A j \in 1 .. k - 1 : names[j] # PATH

PInv ==
  /\ IInv
  /\ names \in Seq({PATH} \cup OtherNames)
  /\ received /\ pc # "waitFor" => result # -1
  /\ ~refused => output["out"] = Len(Lines)
  /\ ~refused => TextTells /\ FirstListed
  /\ refused => successMsg = << >>

\* A line of ps has nine words, the pid second and the name last.
LEMMA LinesHold ==
  ASSUME names \in Seq({PATH} \cup OtherNames)
  PROVE  /\ Len(Lines) = Len(names) + 1 /\ Lines[1] = Header
         /\ \A k \in DOMAIN names : Lines[k + 1] = LineOf(k)
<1> DEFINE listed == [pid \in DOMAIN names |-> LineOf(pid)]
<1>1. DOMAIN names = 1 .. Len(names) /\ Len(names) \in Nat
  OBVIOUS
<1>2. listed \in Seq({LineOf(k) : k \in DOMAIN names}) /\ Len(listed) = Len(names)
  BY <1>1
<1> QED
  BY <1>1, <1>2, SMTT(30) DEF Lines

\* Tokens, and what a word appended to one changes.
LEMMA WordIsToken ==
  ASSUME NEW w \in Word PROVE <<w>> \in Token /\ Head(<<w>>) = w
BY DEF Token

LEMMA TokenGrows ==
  ASSUME NEW t \in Token, NEW w \in Word
  PROVE  Append(t, w) \in Token /\ Head(Append(t, w)) = Head(t)
<1>1. t \in Seq(Word) /\ t # << >> /\ Len(t) \in Nat \ {0}
  BY DEF Token
<1>2. Append(t, w) \in Seq(Word) /\ Len(Append(t, w)) = Len(t) + 1 /\ Append(t, w)[1] = t[1]
  BY <1>1
<1> QED
  BY <1>1, <1>2 DEF Token

LEMMA Concatenated ==
  ASSUME NEW S, NEW s \in Seq(S), NEW t \in Seq(S)
  PROVE  /\ s \o t \in Seq(S) /\ Len(s \o t) = Len(s) + Len(t)
         /\ \A i \in 1 .. Len(s) : (s \o t)[i] = s[i]
         /\ \A i \in 1 .. Len(t) : (s \o t)[Len(s) + i] = t[i]
OBVIOUS

LEMMA NonEmpty ==
  ASSUME NEW S, NEW s \in Seq(S), s # << >>
  PROVE  /\ Len(s) \in Nat \ {0} /\ DOMAIN s = 1 .. Len(s)
         /\ Head(s) \in S /\ s[Len(s)] \in S
OBVIOUS

LEMMA LastReplaced ==
  ASSUME NEW S, NEW s \in Seq(S), s # << >>, NEW e \in S
  PROVE  LET r == [s EXCEPT ![Len(s)] = e]
         IN  /\ r \in Seq(S) /\ Len(r) = Len(s) /\ r[Len(s)] = e
             /\ \A i \in 1 .. Len(s) - 1 : r[i] = s[i]
OBVIOUS

LEMMA TailHolds ==
  ASSUME NEW S, NEW s \in Seq(S), NEW n \in Nat, Len(s) = n + 1
  PROVE  /\ Tail(s) \in Seq(S) /\ Len(Tail(s)) = n
         /\ \A i \in 1 .. n : Tail(s)[i] = s[i + 1]
OBVIOUS

\* What split() makes of one line.
LEMMA TokensOfLine ==
  ASSUME NEW line \in Seq(Word)
  PROVE  /\ Tokens(line) \in Seq(Token) /\ Len(Tokens(line)) = Len(line)
         /\ \A i \in 1 .. Len(line) : Tokens(line)[i] = <<line[i]>>
<1>1. /\ Len(line) \in Nat /\ DOMAIN line = 1 .. Len(line)
      /\ \A i \in 1 .. Len(line) : line[i] \in Word
  OBVIOUS
<1>2. \A i \in 1 .. Len(line) : <<line[i]>> \in Token
  BY <1>1, WordIsToken
<1>3. Tokens(line) = [i \in 1 .. Len(line) |-> <<line[i]>>]
  BY <1>1 DEF Tokens
<1> QED
  BY <1>1, <1>2, <1>3

\* What append() of a line does to the text.
LEMMA JoinedLine ==
  ASSUME NEW text \in Seq(Token), text # << >>, NEW line \in Seq(Word), Len(line) = 9
  PROVE  /\ Joined(text, line) \in Seq(Token)
         /\ Len(Joined(text, line)) = Len(text) + 8
         /\ \A i \in 1 .. Len(text) - 1 : Joined(text, line)[i] = text[i]
         /\ Head(Joined(text, line)[Len(text)]) = Head(text[Len(text)])
         /\ \A i \in 1 .. 8 : Joined(text, line)[Len(text) + i] = <<line[i + 1]>>
<1> DEFINE n == Len(text)
           joint == Append(text[n], Head(line))
           before == [text EXCEPT ![n] = joint]
           all == Tokens(line)
           rest == Tail(all)
<1>1. line # << >>
  <2>1. Len(<< >>) = 0
    OBVIOUS
  <2>2. 9 # 0
    OBVIOUS
  <2> QED
    BY <2>1, <2>2, Zenon
<1>2. n \in Nat \ {0} /\ text[n] \in Token /\ Head(line) \in Word
  BY <1>1, NonEmpty, Zenon
<1>3. joint \in Token /\ Head(joint) = Head(text[n])
  BY <1>2, TokenGrows, Zenon
<1>4. all \in Seq(Token) /\ Len(all) = 9 /\ \A i \in 1 .. 9 : all[i] = <<line[i]>>
  BY TokensOfLine, Zenon
<1>5. Joined(text, line) = before \o rest
  BY Zenon DEF Joined
<1> HIDE DEF all, joint
<1>6. rest \in Seq(Token) /\ Len(rest) = 8 /\ \A i \in 1 .. 8 : rest[i] = all[i + 1]
  <2>1. 8 \in Nat /\ Len(all) = 8 + 1
    BY <1>4
  <2> QED
    BY <1>4, <2>1, TailHolds, Zenon
<1> HIDE DEF rest
<1>7. \A i \in 1 .. 8 : rest[i] = <<line[i + 1]>>
  BY <1>4, <1>6
<1>8. joint \in Token
  BY <1>3, Zenon
<1>9. /\ before \in Seq(Token) /\ Len(before) = n /\ before[n] = joint
      /\ \A i \in 1 .. n - 1 : before[i] = text[i]
  <2> HIDE DEF before
  <2> DEFINE r == [text EXCEPT ![Len(text)] = joint]
  <2>1. /\ r \in Seq(Token) /\ Len(r) = Len(text) /\ r[Len(text)] = joint
        /\ \A i \in 1 .. Len(text) - 1 : r[i] = text[i]
    BY <1>8, LastReplaced
  <2>2. r = before
    BY DEF before
  <2> QED
    BY <2>1, <2>2
<1> HIDE DEF before, n
<1> DEFINE joined == before \o rest
<1>10. before \in Seq(Token) /\ rest \in Seq(Token)
  BY <1>6, <1>9
<1>11. /\ joined \in Seq(Token) /\ Len(joined) = Len(before) + Len(rest)
       /\ \A i \in 1 .. Len(before) : joined[i] = before[i]
       /\ \A i \in 1 .. Len(rest) : joined[Len(before) + i] = rest[i]
  BY <1>10, Concatenated
<1> HIDE DEF joined
<1>12. /\ Len(joined) = n + 8 /\ joined[n] = joint
       /\ \A i \in 1 .. n - 1 : joined[i] = text[i]
       /\ \A i \in 1 .. 8 : joined[n + i] = <<line[i + 1]>>
  <2>1. n \in Nat /\ n # 0 /\ Len(before) = n /\ Len(rest) = 8
    BY <1>2, <1>6, <1>9
  <2>2. /\ Len(joined) = n + 8
        /\ \A i \in 1 .. n : joined[i] = before[i]
        /\ \A i \in 1 .. 8 : joined[n + i] = rest[i]
    BY <1>11, <2>1, Zenon
  <2>3. n \in 1 .. n /\ \A i \in 1 .. n - 1 : i \in 1 .. n
    BY <2>1
  <2> QED
    BY <1>7, <1>9, <2>2, <2>3, Zenon
<1>13. Joined(text, line) = joined
  BY <1>5 DEF joined
<1> QED
  BY <1>3, <1>11, <1>12, <1>13, Zenon DEF n

\* The path is no word of the header, and in a line only the name.
LEMMA HeaderHolds ==
  /\ Header \in Seq(Word) /\ Len(Header) = 8
  /\ \A i \in 1 .. 8 : Header[i] # PATH
<1>1. Len(Header) = 8 /\ DOMAIN Header = 1 .. 8
  BY DEF Header
<1>2. \A i \in 1 .. 8 : Header[i] \in Word /\ Header[i] # PATH
  BY <1>1, PsAssumption, Zenon DEF Word
<1>3. Header \in Seq({"USER", "PID", "PPID", "VSIZE", "RSS", "WCHAN", "PC", "NAME"})
  BY DEF Header
<1>4. {"USER", "PID", "PPID", "VSIZE", "RSS", "WCHAN", "PC", "NAME"} = {Header[i] : i \in 1 .. 8}
  BY DEF Header
<1>5. {"USER", "PID", "PPID", "VSIZE", "RSS", "WCHAN", "PC", "NAME"} \subseteq Word
  BY <1>2, <1>4
<1>6. Header \in Seq(Word)
  BY <1>3, <1>5, SeqMonotonic, Zenon
<1> QED
  BY <1>1, <1>2, <1>6

LEMMA LineHolds ==
  ASSUME names \in Seq({PATH} \cup OtherNames), NEW k \in DOMAIN names
  PROVE  /\ LineOf(k) \in Seq(Word) /\ Len(LineOf(k)) = 9
         /\ LineOf(k)[2] = k /\ LineOf(k)[9] = names[k]
         /\ \A i \in 1 .. 7 : LineOf(k)[i + 1] # PATH
<1>1. k \in Nat /\ names[k] \in {PATH} \cup OtherNames
  OBVIOUS
<1>2. Columns \cup {k, names[k]} \subseteq Word
  BY <1>1 DEF Word
<1>3. LineOf(k) \in Seq(Columns \cup {k, names[k]})
  BY DEF LineOf, Columns
<1>4. \A w \in Columns \cup {k} : w # PATH
  BY <1>1, PsAssumption
<1>5. /\ Len(LineOf(k)) = 9 /\ LineOf(k)[2] = k /\ LineOf(k)[9] = names[k]
      /\ \A i \in 1 .. 7 : LineOf(k)[i + 1] \in Columns \cup {k}
  BY DEF LineOf, Columns
<1> QED
  BY <1>2, <1>3, <1>4, <1>5, SeqMonotonic

\* One more line is read: the header, or that of process n.
LEMMA FirstLine ==
  ASSUME successMsg' = Joined(<< >>, Header), msg'["out"] = 1
  PROVE  TextTells' /\ FirstListed'
<1>1. successMsg' = Tokens(Header)
  BY DEF Joined
<1>2. /\ successMsg' \in Seq(Token) /\ Len(successMsg') = 8
      /\ \A i \in 1 .. 8 : successMsg'[i] = <<Header[i]>>
  BY <1>1, HeaderHolds, TokensOfLine
<1>3. \A i \in 1 .. 8 : Head(successMsg'[i]) # PATH
  BY <1>2, HeaderHolds
<1>4. DOMAIN successMsg' = 1 .. 8 /\ ReadLines' = {}
  BY <1>2 DEF ReadLines
<1>5. Len(successMsg') = 8 * msg'["out"]
  BY <1>2
<1>6. TextTells'
  BY <1>2, <1>3, <1>4, <1>5, Zenon DEF TextTells
<1>7. FirstListed'
  BY <1>4 DEF FirstListed
<1> QED
  BY <1>6, <1>7

LEMMA NextEight ==
  ASSUME NEW m \in Nat, NEW i \in Nat, i > m, i <= m + 8
  PROVE  \E j \in 1 .. 8 : i = m + j
<1>1. i - m \in 1 .. 8 /\ i = m + (i - m)
  OBVIOUS
<1> QED
  BY <1>1

LEMMA NextLine ==
  ASSUME names \in Seq({PATH} \cup OtherNames), names' = names,
         NEW n \in DOMAIN names, msg["out"] = n, msg'["out"] = n + 1,
         TextTells, FirstListed, successMsg' = Joined(successMsg, LineOf(n))
  PROVE  TextTells' /\ FirstListed'
<1>1. n \in Nat /\ n # 0 /\ ReadLines = 1 .. n - 1 /\ ReadLines' = 1 .. n
  BY DEF ReadLines
<1>2. /\ successMsg \in Seq(Token) /\ Len(successMsg) = 8 * n /\ successMsg # << >>
      /\ DOMAIN successMsg = 1 .. 8 * n
  BY <1>1 DEF TextTells
<1> DEFINE line == LineOf(n)
           new == Joined(successMsg, line)
<1>3. /\ line \in Seq(Word) /\ Len(line) = 9 /\ line[2] = n /\ line[9] = names[n]
      /\ \A i \in 1 .. 7 : line[i + 1] # PATH
  BY LineHolds
<1> HIDE DEF line
<1>4. /\ new \in Seq(Token) /\ Len(new) = Len(successMsg) + 8
      /\ \A i \in 1 .. Len(successMsg) - 1 : new[i] = successMsg[i]
      /\ Head(new[Len(successMsg)]) = Head(successMsg[Len(successMsg)])
      /\ \A i \in 1 .. 8 : new[Len(successMsg) + i] = <<line[i + 1]>>
  BY <1>2, <1>3, JoinedLine
<1>5. successMsg' = new
  BY DEF line
<1> HIDE DEF new
<1>6. /\ \A i \in 1 .. 8 * n - 1 : new[i] = successMsg[i]
      /\ Head(new[8 * n]) = Head(successMsg[8 * n])
      /\ \A i \in 1 .. 8 : new[8 * n + i] = <<line[i + 1]>>
  BY <1>2, <1>4
<1>7. ASSUME NEW i \in 1 .. 8 PROVE Head(new[8 * n + i]) = line[i + 1]
  <2>1. i + 1 \in 1 .. Len(line) /\ line \in Seq(Word)
    BY <1>3
  <2>2. line[i + 1] \in Word
    BY <2>1, ElementOfSeq, Zenon
  <2>3. new[8 * n + i] = <<line[i + 1]>>
    BY <1>6
  <2> QED
    BY <2>2, <2>3, WordIsToken
<1>8. Len(new) = 8 * (n + 1) /\ DOMAIN new = 1 .. 8 * n + 8
  BY <1>1, <1>2, <1>4
<1>9. ASSUME NEW i \in DOMAIN new, Head(new[i]) = PATH
      PROVE  \E k \in 1 .. n : i = 8 * k + 8 /\ names[k] = PATH
  <2>1. CASE i \in 1 .. 8 * n
    <3>1. i = 8 * n \/ i \in 1 .. 8 * n - 1
      BY <1>1, <2>1
    <3>2. Head(new[i]) = Head(successMsg[i])
      BY <1>6, <3>1
    <3>3. PICK k \in 1 .. n - 1 : i = 8 * k + 8 /\ names[k] = PATH
      BY <1>1, <1>2, <1>9, <2>1, <3>2 DEF TextTells
    <3> QED
      BY <1>1, <3>3
  <2>2. CASE i \notin 1 .. 8 * n
    <3>0. 8 * n \in Nat /\ i \in Nat /\ i > 8 * n /\ i <= 8 * n + 8
      BY <1>1, <1>8, <2>2
    <3>1. PICK j \in 1 .. 8 : i = 8 * n + j
      BY <3>0, NextEight
    <3>2. line[j + 1] = PATH
      BY <1>7, <1>9, <3>1
    <3>3. j = 8
      BY <1>3, <3>2
    <3> QED
      BY <1>1, <1>3, <3>1, <3>2, <3>3, SMTT(30)
  <2> QED
    BY <2>1, <2>2
<1>10. ASSUME NEW k \in 1 .. n
       PROVE  new[8 * k + 1] = <<k>> /\ (names[k] = PATH => Head(new[8 * k + 8]) = PATH)
  <2>1. CASE k = n
    <3>1. 1 \in 1 .. 8 /\ 8 \in 1 .. 8 /\ 1 + 1 = 2 /\ 8 + 1 = 9
      OBVIOUS
    <3>2. new[8 * n + 1] = <<line[2]>> /\ Head(new[8 * n + 8]) = line[9]
      BY <1>6, <1>7, <3>1
    <3> QED
      BY <1>3, <2>1, <3>2
  <2>2. CASE k # n
    <3>1. /\ k \in 1 .. n - 1 /\ 8 * k + 1 \in 1 .. 8 * n - 1
          /\ 8 * k + 8 \in 1 .. 8 * n - 1 \/ 8 * k + 8 = 8 * n
      BY <1>1, <2>2
    <3>2. successMsg[8 * k + 1] = <<k>> /\ (names[k] = PATH => Head(successMsg[8 * k + 8]) = PATH)
      BY <1>1, <3>1 DEF TextTells
    <3> QED
      BY <1>6, <3>1, <3>2
  <2> QED
    BY <2>1, <2>2
<1>11. TextTells'
  BY <1>1, <1>4, <1>5, <1>8, <1>9, <1>10, ZenonT(40) DEF TextTells
<1>12. FirstListed'
  <2>1. SUFFICES ASSUME NEW k \in 1 .. n, names[k] = PATH
                 PROVE  \E j \in 1 .. n : names[j] = PATH /\ \A i \in 1 .. j - 1 : names[i] # PATH
    BY <1>1 DEF FirstListed
  <2>2. CASE \E j \in 1 .. n - 1 : names[j] = PATH
    <3>1. PICK j \in 1 .. n - 1 : names[j] = PATH /\ \A i \in 1 .. j - 1 : names[i] # PATH
      BY <1>1, <2>2 DEF FirstListed
    <3> QED
      BY <1>1, <3>1
  <2>3. CASE \A j \in 1 .. n - 1 : names[j] # PATH
    BY <1>1, <2>1, <2>3
  <2> QED
    BY <2>2, <2>3
<1> QED
  BY <1>11, <1>12

\* Every step of the call leaves the text as it is or appends the line read.
LEMMA PidStep ==
  ASSUME PInv, IInv', [PidNext]_<<vars, names, successMsg>> PROVE PInv'
<1> USE DEF PInv
<1>1. CASE UNCHANGED <<vars, names, successMsg>>
  BY <1>1, Zenon DEF vars, TextTells, FirstListed, ReadLines, Lines, LineOf
<1>2. CASE PidNext
  <2> USE <1>2 DEF PidNext
  <2>1. names' = names /\ refused' = refused /\ output' = output /\ Lines' = Lines
    BY DEF Next, Caller, Process, Exec, WriteCommand, WaitFor, ReadLine, ProcessExits, Write,
           Lines, LineOf
  <2>2. /\ received' /\ pc' # "waitFor" => result' # -1
        /\ \/ msg'["out"] = msg["out"]
           \/ msg["out"] \in Nat /\ msg'["out"] = msg["out"] + 1
    <3> USE DEF IInv, TypeOK, ReadsTheEnded, Stream
    <3>1. CASE Exec \/ WriteCommand \/ ProcessExits
      BY <3>1 DEF Exec, WriteCommand, ProcessExits
    <3>2. CASE WaitFor
      BY <3>2 DEF WaitFor
    <3>3. CASE ReadLine("readOut", "out", "readErr")
      BY <3>3 DEF ReadLine
    <3>4. CASE ReadLine("readErr", "err", "returned")
      BY <3>4 DEF ReadLine
    <3>5. CASE \E s \in Stream : Write(s)
      BY <3>5 DEF Write
    <3> QED
      BY <3>1, <3>2, <3>3, <3>4, <3>5 DEF Next, Caller, Process
  <2>4. ASSUME ~refused PROVE TextTells' /\ FirstListed'
    <3>1. CASE msg'["out"] = msg["out"]
      BY <2>1, <2>4, <3>1 DEF Appends, TextTells, FirstListed, ReadLines
    <3>2. CASE msg["out"] \in Nat /\ msg'["out"] = msg["out"] + 1
      <4>1. successMsg' = Joined(successMsg, Lines[msg["out"] + 1])
        BY <2>4, <3>2 DEF Appends
      <4>2. msg["out"] + 1 <= Len(names) + 1
        <5>1. msg'["out"] <= output'["out"]
          BY SMTT(30) DEF IInv, TypeOK, Stream
        <5> QED
          BY <2>1, <2>4, <3>2, <5>1, LinesHold
      <4>3. CASE msg["out"] = 0
        <5>1. successMsg = << >>
          BY <2>4, <4>3 DEF TextTells
        <5> QED
          BY <3>2, <4>1, <4>3, <5>1, LinesHold, FirstLine
      <4>4. CASE msg["out"] # 0
        <5>1. msg["out"] \in DOMAIN names
          BY <3>2, <4>2, <4>4
        <5> QED
          BY <2>1, <2>4, <3>2, <4>1, <5>1, LinesHold, NextLine
      <4> QED
        BY <4>3, <4>4
    <3> QED
      BY <2>2, <3>1, <3>2
  <2>5. refused => successMsg' = successMsg
    BY DEF Appends
  <2> QED
    BY <2>1, <2>2, <2>4, <2>5
<1> QED
  BY <1>1, <1>2

\* The text that has been read, through the whole call.
THEOREM PidInductive == PidSpec => []PInv
<1>1. PidInit => Init
  BY DEF PidInit
<1>2. [PidNext]_<<vars, names, successMsg>> => [Next]_vars
  BY DEF PidNext
<1>3. PidInit /\ IInv => PInv
  <2> SUFFICES ASSUME PidInit, IInv PROVE PInv
    OBVIOUS
  <2>1. names \in Seq({PATH} \cup OtherNames)
    BY PsAssumption DEF PidInit
  <2>2. successMsg = << >> /\ msg["out"] = 0 /\ received = FALSE
    BY DEF PidInit, Init, Stream
  <2>3. TextTells /\ FirstListed
    BY <2>2 DEF TextTells, FirstListed, ReadLines
  <2>4. ~refused => output["out"] = Len(Lines)
    BY DEF PidInit
  <2> QED
    BY <2>1, <2>2, <2>3, <2>4 DEF PInv
<1>4. PInv /\ IInv' /\ [PidNext]_<<vars, names, successMsg>> => PInv'
  BY PidStep
<1> QED
  BY <1>1, <1>2, <1>3, <1>4, Inductive, PTL DEF PidSpec, Spec

\* However many processes ps lists, getRecorderPid() returns the pid of the
\* first recorder among them, and -1 if there is none or the call fails.
THEOREM RecorderIsFound == PidSpec => []FindsRecorder
<1>1. PInv => FindsRecorder
  <2> SUFFICES ASSUME PInv, pc = "returned" PROVE FindsRecorder
    BY DEF FindsRecorder
  <2> DEFINE recorders == {pid \in DOMAIN names : received /\ ~refused /\ names[pid] = PATH}
  <2>1. CASE ~received \/ refused
    <3>1. succeedMsg = << >>
      BY <2>1 DEF PInv, IInv, ResultIsComplete, succeedMsg
    <3>2. FirstMatch(succeedMsg) = {}
      BY <3>1 DEF FirstMatch
    <3>3. getRecorderPid = NotFound
      BY <3>2 DEF getRecorderPid
    <3>4. recorders = {}
      BY <2>1
    <3> QED
      BY <3>3, <3>4, Zenon DEF FindsRecorder
  <2>2. CASE received /\ ~refused
    <3>1. result # -1 /\ msg = output
      BY <2>2 DEF PInv, IInv, ResultIsComplete
    <3>2. ReadLines = DOMAIN names /\ Len(names) \in Nat /\ DOMAIN names = 1 .. Len(names)
      BY <2>2, <3>1, LinesHold DEF PInv, ReadLines
    <3>3. succeedMsg = successMsg /\ TextTells /\ FirstListed
      BY <2>2, <3>1 DEF PInv, succeedMsg
    <3>4. recorders = {pid \in DOMAIN names : names[pid] = PATH}
      BY <2>2
    <3>5. CASE recorders = {}
      <4>1. FirstMatch(succeedMsg) = {}
        BY <3>2, <3>3, <3>4, <3>5 DEF FirstMatch, TextTells
      <4>2. getRecorderPid = NotFound
        BY <4>1 DEF getRecorderPid
      <4> QED
        BY <3>5, <4>2, Zenon DEF FindsRecorder
    <3>6. CASE recorders # {}
      <4>1. PICK k \in DOMAIN names : names[k] = PATH /\ \A j \in 1 .. k - 1 : names[j] # PATH
        BY <3>2, <3>3, <3>4, <3>6 DEF FirstListed
      <4>2. /\ Len(successMsg) = 8 * (Len(names) + 1)
            /\ DOMAIN successMsg = 1 .. 8 * (Len(names) + 1)
        <5>1. msg["out"] = Len(names) + 1
          BY <2>2, <3>1, LinesHold DEF PInv
        <5>2. successMsg \in Seq(Token) /\ Len(successMsg) = 8 * msg["out"]
          BY <3>3 DEF TextTells
        <5> QED
          BY <5>1, <5>2, LenProperties
      <4>3. FirstMatch(successMsg) = {8 * k + 8}
        <5>1. 8 * k + 8 \in DOMAIN successMsg /\ Head(successMsg[8 * k + 8]) = PATH
          BY <3>2, <3>3, <4>1, <4>2 DEF TextTells
        <5>2. ASSUME NEW i \in DOMAIN successMsg, Head(successMsg[i]) = PATH
              PROVE  i >= 8 * k + 8
          BY <3>2, <3>3, <4>1, <5>2 DEF TextTells
        <5> QED
          BY <4>2, <5>1, <5>2 DEF FirstMatch
      <4>4. 8 * k + 8 - Distance = 8 * k + 1 /\ 8 * k + 1 \in DOMAIN successMsg
        BY <3>2, <4>2 DEF Distance
      <4>5. successMsg[8 * k + 1] = <<k>>
        BY <3>2, <3>3 DEF TextTells
      <4>6. {pid \in DOMAIN names : \E i \in FirstMatch(succeedMsg) :
               i - Distance \in DOMAIN succeedMsg /\ succeedMsg[i - Distance] = <<pid>>} = {k}
        <5>1. ASSUME NEW pid \in DOMAIN names
              PROVE  (\E i \in FirstMatch(succeedMsg) :
                        i - Distance \in DOMAIN succeedMsg /\ succeedMsg[i - Distance] = <<pid>>)
                     <=> pid = k
          <6>1. <<k>> = <<pid>> <=> pid = k
            OBVIOUS
          <6> DEFINE i == 8 * k + 8
          <6>2. FirstMatch(succeedMsg) = {i} /\ succeedMsg = successMsg
            BY <3>3, <4>3
          <6>3. i - Distance \in DOMAIN succeedMsg /\ succeedMsg[i - Distance] = <<k>>
            <7>1. i - Distance = 8 * k + 1
              BY <3>2 DEF Distance
            <7> HIDE DEF i
            <7>2. 8 * k + 1 \in DOMAIN succeedMsg /\ succeedMsg[8 * k + 1] = <<k>>
              BY <4>4, <4>5, <6>2, Zenon
            <7> QED
              BY <7>1, <7>2, Zenon
          <6> HIDE DEF i
          <6> QED
            BY <6>1, <6>2, <6>3
        <5> QED
          BY <5>1, Zenon
      <4>7. getRecorderPid = k
        BY <4>6 DEF getRecorderPid
      <4>8. \A pid \in recorders : k <= pid
        BY <3>2, <3>4, <4>1
      <4> QED
        BY <2>2, <3>6, <4>1, <4>7, <4>8, Zenon DEF FindsRecorder
    <3> QED
      BY <3>5, <3>6
  <2> QED
    BY <2>1, <2>2
<1> QED
  BY <1>1, PidInductive, PTL
=============================================================================
