---------------------------- MODULE DisplayProofs ---------------------------
(***************************************************************************)
(* From the panel to the lamps: for any hosts, any panel states and any    *)
(* number of packets, a proxy reads from each datagram the panel state     *)
(* that its sender meant, field by field (PanelPipeline); and a page shows *)
(* the panel state that it was sent last, and says in its label whether it *)
(* is connected (PanelPage).                                               *)
(***************************************************************************)
EXTENDS PanelPipeline, PanelPage, SequenceTheorems, TLAPS

(* The names of the fields.                                                *)
MacFields == {"pc", "sp", "fp", "lr", "x0", "x1", "cpu_usage", "memory_usage",
              "load_average", "thread_count", "architecture", "timestamp"}
FieldNames ==
  {PdpFields[i] : i \in 1 .. 6} \union {Clockframe[i] : i \in 1 .. 26}
    \union {PtRegs[i] : i \in 1 .. 21} \union MacFields
    \union {"ps_address", "ps_data", "pad"}

Word == [field : FieldNames, k : Nat]
Stamped == [field : FieldNames, k : Nat, from : SenderKinds, n : Nat]

(* The words of the fields of a packet, w words to a field, in order.      *)
LEMMA WordsOfType ==
  ASSUME NEW fields \in Seq(FieldNames), NEW w \in {1, 2, 4}
  PROVE  /\ WordsOf(fields, w) \in Seq(Word)
         /\ Len(WordsOf(fields, w)) = w * Len(fields)
         /\ \A i \in 1 .. w * Len(fields) :
              WordsOf(fields, w)[i] =
                [field |-> fields[1 + ((i - 1) \div w)],
                 k |-> 1 + ((i - 1) % w)]
  <1>1. w * Len(fields) \in Nat
    OBVIOUS
  <1>2. ASSUME NEW i \in 1 .. w * Len(fields)
        PROVE  /\ 1 + ((i - 1) \div w) \in 1 .. Len(fields)
               /\ 1 + ((i - 1) % w) \in Nat
    <2>1. Len(fields) \in Nat
      OBVIOUS
    <2>. DEFINE L == Len(fields)
    <2>. HIDE DEF L
    <2>2. L \in Nat /\ i \in 1 .. w * L
      BY <2>1 DEF L
    <2>3. 1 + ((i - 1) \div w) \in 1 .. L /\ 1 + ((i - 1) % w) \in Nat
      <3>1. CASE w = 1
        <4>1. i \in 1 .. 1 * L
          BY <2>2, <3>1, Zenon
        <4>3. 1 + ((i - 1) \div 1) \in 1 .. L /\ 1 + ((i - 1) % 1) \in Nat
          BY <2>2, <4>1
        <4>. QED  BY <3>1, <4>3, Zenon
      <3>2. CASE w = 2
        <4>1. i \in 1 .. 2 * L
          BY <2>2, <3>2, Zenon
        <4>2. (i - 1) \div 2 \in 0 .. L - 1 /\ (i - 1) % 2 \in 0 .. 1
          BY <2>2, <4>1
        <4>3. 1 + ((i - 1) \div 2) \in 1 .. L /\ 1 + ((i - 1) % 2) \in Nat
          BY <2>2, <4>2
        <4>. QED  BY <3>2, <4>3, Zenon
      <3>3. CASE w = 4
        <4>1. i \in 1 .. 4 * L
          BY <2>2, <3>3, Zenon
        <4>2. (i - 1) \div 4 \in 0 .. L - 1 /\ (i - 1) % 4 \in 0 .. 3
          BY <2>2, <4>1
        <4>3. 1 + ((i - 1) \div 4) \in 1 .. L /\ 1 + ((i - 1) % 4) \in Nat
          BY <2>2, <4>2
        <4>. QED  BY <3>3, <4>3, Zenon
      <3>. QED  BY <3>1, <3>2, <3>3
    <2>. QED  BY <2>3 DEF L
  <1>. QED  BY <1>1, <1>2 DEF WordsOf, Word

(* The same for the widths there are.                                      *)
LEMMA WordsOfLength ==
  \A fields \in Seq(FieldNames) :
    /\ WordsOf(fields, 1) \in Seq(Word)
    /\ WordsOf(fields, 2) \in Seq(Word)
    /\ WordsOf(fields, 4) \in Seq(Word)
    /\ Len(WordsOf(fields, 1)) = Len(fields)
    /\ Len(WordsOf(fields, 2)) = 2 * Len(fields)
    /\ Len(WordsOf(fields, 4)) = 4 * Len(fields)
  <1>. TAKE fields \in Seq(FieldNames)
  <1>1. \A w \in {1, 2, 4} : /\ WordsOf(fields, w) \in Seq(Word)
                             /\ Len(WordsOf(fields, w)) = w * Len(fields)
    BY WordsOfType, Zenon
  <1>2. Len(fields) \in Nat /\ 1 * Len(fields) = Len(fields)
    OBVIOUS
  <1>3. 1 \in {1, 2, 4} /\ 2 \in {1, 2, 4} /\ 4 \in {1, 2, 4}
    OBVIOUS
  <1>. QED  BY <1>1, <1>2, <1>3, Zenon

(* The fields of each struct, and how many there are.                      *)
LEMMA FieldsType ==
  /\ PdpFields \in Seq(FieldNames) /\ Len(PdpFields) = 6
  /\ Clockframe \in Seq(FieldNames) /\ Len(Clockframe) = 26
  /\ PtRegs \in Seq(FieldNames) /\ Len(PtRegs) = 21
  /\ <<"ps_address">> \in Seq(FieldNames)
  /\ <<"ps_address", "ps_data">> \in Seq(FieldNames)
  /\ <<"pc", "sp", "fp", "lr", "x0", "x1">> \in Seq(FieldNames)
  /\ <<"cpu_usage", "memory_usage", "load_average", "thread_count",
       "architecture", "timestamp">> \in Seq(FieldNames)
  <1>1. PdpFields = [i \in 1 .. 6 |-> PdpFields[i]]
    BY DEF PdpFields
  <1>2. Clockframe = [i \in 1 .. 26 |-> Clockframe[i]]
    BY DEF Clockframe
  <1>3. PtRegs = [i \in 1 .. 21 |-> PtRegs[i]]
    BY DEF PtRegs
  <1>4. /\ "ps_address" \in FieldNames /\ "ps_data" \in FieldNames
        /\ MacFields \subseteq FieldNames
    BY DEF FieldNames
  <1>5. /\ PdpFields \in Seq(FieldNames) /\ Len(PdpFields) = 6
    BY <1>1 DEF FieldNames
  <1>6. /\ Clockframe \in Seq(FieldNames) /\ Len(Clockframe) = 26
    BY <1>2 DEF FieldNames
  <1>7. /\ PtRegs \in Seq(FieldNames) /\ Len(PtRegs) = 21
    BY <1>3 DEF FieldNames
  <1>8. /\ <<"ps_address">> \in Seq(FieldNames)
        /\ <<"ps_address", "ps_data">> \in Seq(FieldNames)
    BY <1>4
  <1>9. /\ <<"pc", "sp", "fp", "lr", "x0", "x1">> \in Seq(FieldNames)
        /\ <<"cpu_usage", "memory_usage", "load_average", "thread_count",
             "architecture", "timestamp">> \in Seq(FieldNames)
    <2>1. /\ <<"pc", "sp", "fp", "lr", "x0", "x1">> \in Seq(MacFields)
          /\ <<"cpu_usage", "memory_usage", "load_average", "thread_count",
               "architecture", "timestamp">> \in Seq(MacFields)
      BY DEF MacFields
    <2>. QED  BY <2>1, <1>4
  <1>. QED  BY <1>5, <1>6, <1>7, <1>8, <1>9

(* The words of a panel state in each client, and how many they are.       *)
Pdp11Words == <<[field |-> "ps_address", k |-> 2],
                [field |-> "ps_address", k |-> 1]>> \o WordsOf(PdpFields, 1)
Tool11Words == <<[field |-> "ps_address", k |-> 1],
                 [field |-> "ps_address", k |-> 2]>> \o WordsOf(PdpFields, 1)

(* An address of two words, low word first.                                *)
LEMMA AddressWords ==
  WordsOf(<<"ps_address">>, 2) =
    <<[field |-> "ps_address", k |-> 1], [field |-> "ps_address", k |-> 2]>>
  BY DEF WordsOf

(* The words of each sender's panel state, and how many there are.         *)
LEMMA StateWordsType ==
  /\ \A s \in SenderKinds : StateWords(s) \in Seq(Word)
  /\ \A s \in {"pdp11", "legacy"} : StateWords(s) = Pdp11Words
  /\ StateWords("tool11") = Tool11Words
  /\ \A s \in {"pdp11", "legacy", "tool11"} : Len(StateWords(s)) = 8
  /\ \A s \in {"vax", "toolvax"} : Len(StateWords(s)) = 4
  /\ \A s \in {"amd64", "tool64"} : Len(StateWords(s)) = 104
  /\ Len(StateWords("linux")) = 84
  /\ Len(StateWords("macos")) = 36
  <1>1. \A s \in {"pdp11", "legacy"} : StateWords(s) = Pdp11Words
    BY AddressWords DEF StateWords, HighFirst, Pdp11Words
  <1>2. StateWords("tool11") = Tool11Words
    BY AddressWords DEF StateWords, Tool11Words
  <1>3. WordsOf(PdpFields, 1) \in Seq(Word) /\ Len(WordsOf(PdpFields, 1)) = 6
    BY WordsOfLength, FieldsType
  <1>4. /\ <<[field |-> "ps_address", k |-> 2],
             [field |-> "ps_address", k |-> 1]>> \in Seq(Word)
        /\ <<[field |-> "ps_address", k |-> 1],
             [field |-> "ps_address", k |-> 2]>> \in Seq(Word)
    <2>1. "ps_address" \in FieldNames
      BY DEF FieldNames
    <2>. QED  BY <2>1 DEF Word
  <1>5. \A s \in {"pdp11", "legacy", "tool11"} :
          StateWords(s) \in Seq(Word) /\ Len(StateWords(s)) = 8
    <2>1. \A a, b \in Seq(Word) :
            a \o b \in Seq(Word) /\ Len(a \o b) = Len(a) + Len(b)
      OBVIOUS
    <2>2. /\ Pdp11Words \in Seq(Word) /\ Len(Pdp11Words) = 2 + 6
          /\ Tool11Words \in Seq(Word) /\ Len(Tool11Words) = 2 + 6
      <3>. DEFINE f == WordsOf(PdpFields, 1)
                  a == <<[field |-> "ps_address", k |-> 2],
                         [field |-> "ps_address", k |-> 1]>>
                  b == <<[field |-> "ps_address", k |-> 1],
                         [field |-> "ps_address", k |-> 2]>>
      <3>1. Len(a) = 2 /\ Len(b) = 2
        OBVIOUS
      <3>2. Pdp11Words = a \o f /\ Tool11Words = b \o f
        BY DEF Pdp11Words, Tool11Words
      <3>3. a \in Seq(Word) /\ b \in Seq(Word) /\ f \in Seq(Word)
            /\ Len(f) = 6
        BY <1>3, <1>4
      <3>. HIDE DEF a, b, f
      <3>. QED  BY <2>1, <3>1, <3>2, <3>3
    <2>. QED  BY <1>1, <1>2, <2>2
  <1>6. \A s \in {"vax", "toolvax"} :
          StateWords(s) \in Seq(Word) /\ Len(StateWords(s)) = 4
    <2>. DEFINE f == <<"ps_address", "ps_data">>
    <2>1. f \in Seq(FieldNames) /\ Len(f) = 2
      BY FieldsType
    <2>. HIDE DEF f
    <2>2. WordsOf(f, 2) \in Seq(Word) /\ Len(WordsOf(f, 2)) = 4
      <3>1. Len(WordsOf(f, 2)) = 2 * Len(f) /\ WordsOf(f, 2) \in Seq(Word)
        BY <2>1, WordsOfLength, Zenon
      <3>. QED  BY <2>1, <3>1
    <2>3. \A s \in {"vax", "toolvax"} : StateWords(s) = WordsOf(f, 2)
      BY DEF StateWords, f
    <2>. QED  BY <2>2, <2>3
  <1>7. \A s \in {"amd64", "tool64"} :
          StateWords(s) \in Seq(Word) /\ Len(StateWords(s)) = 104
    <2>1. WordsOf(Clockframe, 4) \in Seq(Word)
          /\ Len(WordsOf(Clockframe, 4)) = 104
      <3>1. WordsOf(Clockframe, 4) \in Seq(Word)
            /\ Len(WordsOf(Clockframe, 4)) = 4 * Len(Clockframe)
        BY FieldsType, WordsOfLength, Zenon
      <3>2. Len(Clockframe) = 26
        BY FieldsType, Zenon
      <3>. QED  BY <3>1, <3>2
    <2>2. \A s \in {"amd64", "tool64"} :
            StateWords(s) = WordsOf(Clockframe, 4)
      BY DEF StateWords
    <2>. QED  BY <2>1, <2>2
  <1>8. StateWords("linux") \in Seq(Word) /\ Len(StateWords("linux")) = 84
    <2>1. WordsOf(PtRegs, 4) \in Seq(Word) /\ Len(WordsOf(PtRegs, 4)) = 84
      <3>1. WordsOf(PtRegs, 4) \in Seq(Word)
            /\ Len(WordsOf(PtRegs, 4)) = 4 * Len(PtRegs)
        BY FieldsType, WordsOfLength, Zenon
      <3>2. Len(PtRegs) = 21
        BY FieldsType, Zenon
      <3>. QED  BY <3>1, <3>2
    <2>2. StateWords("linux") = WordsOf(PtRegs, 4)
      BY DEF StateWords
    <2>. QED  BY <2>1, <2>2
  <1>9. StateWords("macos") \in Seq(Word) /\ Len(StateWords("macos")) = 36
    <2>. DEFINE f == <<"pc", "sp", "fp", "lr", "x0", "x1">>
                g == <<"cpu_usage", "memory_usage", "load_average",
                       "thread_count", "architecture", "timestamp">>
    <2>1. f \in Seq(FieldNames) /\ Len(f) = 6
          /\ g \in Seq(FieldNames) /\ Len(g) = 6
      BY FieldsType
    <2>2. StateWords("macos") = WordsOf(f, 4) \o WordsOf(g, 2)
      BY DEF StateWords
    <2>. HIDE DEF f, g
    <2>3. WordsOf(f, 4) \in Seq(Word) /\ Len(WordsOf(f, 4)) = 24
          /\ WordsOf(g, 2) \in Seq(Word) /\ Len(WordsOf(g, 2)) = 12
      <3>1. WordsOf(f, 4) \in Seq(Word) /\ Len(WordsOf(f, 4)) = 4 * Len(f)
            /\ WordsOf(g, 2) \in Seq(Word) /\ Len(WordsOf(g, 2)) = 2 * Len(g)
        BY <2>1, WordsOfLength, Zenon
      <3>. QED  BY <2>1, <3>1
    <2>4. \A a, b \in Seq(Word) :
            a \o b \in Seq(Word) /\ Len(a \o b) = Len(a) + Len(b)
      OBVIOUS
    <2>5. /\ StateWords("macos") \in Seq(Word)
          /\ Len(StateWords("macos")) =
               Len(WordsOf(f, 4)) + Len(WordsOf(g, 2))
      BY <2>2, <2>3, <2>4, Zenon
    <2>6. Len(WordsOf(f, 4)) = 24 /\ Len(WordsOf(g, 2)) = 12
      BY <2>3
    <2>7. Len(StateWords("macos")) = 24 + 12
      BY <2>5, <2>6, Zenon
    <2>. QED  BY <2>5, <2>7
  <1>. QED
    BY <1>1, <1>2, <1>5, <1>6, <1>7, <1>8, <1>9
    DEF SenderKinds, KernelReaders, Tools

(* What a program reads with the declaration of the sender is what was     *)
(* sent, word by word.                                                     *)
LEMMA StampType ==
  ASSUME NEW words \in Seq(Word), NEW s \in SenderKinds, NEW n \in Nat
  PROVE  /\ Stamp(words, s, n) \in Seq(Stamped)
         /\ Len(Stamp(words, s, n)) = Len(words)
         /\ \A i \in 1 .. Len(words) :
              Stamp(words, s, n)[i] =
                [field |-> words[i].field, k |-> words[i].k,
                 from |-> s, n |-> n]
  <1>1. \A i \in 1 .. Len(words) :
          words[i].field \in FieldNames /\ words[i].k \in Nat
    <2>1. \A i \in 1 .. Len(words) : words[i] \in Word
      OBVIOUS
    <2>. QED  BY <2>1 DEF Word
  <1>2. Len(words) \in Nat
    OBVIOUS
  <1>. DEFINE st == Stamp(words, s, n)
  <1>3. st = [i \in 1 .. Len(words) |->
               [field |-> words[i].field, k |-> words[i].k,
                from |-> s, n |-> n]]
    BY DEF Stamp
  <1>4. \A i \in 1 .. Len(words) :
          [field |-> words[i].field, k |-> words[i].k, from |-> s, n |-> n]
            \in Stamped
    BY <1>1 DEF Stamped
  <1>5. st \in [1 .. Len(words) -> Stamped]
    BY <1>3, <1>4, Zenon
  <1>6. st \in Seq(Stamped) /\ Len(st) = Len(words)
    <2>. HIDE DEF st
    <2>. QED  BY <1>2, <1>5
  <1>. QED  BY <1>3, <1>6, Zenon

(* A reader that declares the words as the sender does reads what was      *)
(* meant.                                                                  *)
LEMMA ReadSame ==
  ASSUME NEW decl \in Seq(Word), NEW s \in SenderKinds, NEW n \in Nat,
         NEW words, words \subseteq WordsIn(decl), NEW w \in words
  PROVE  Read(Stamp(decl, s, n), decl, words)[w] =
           [field |-> w.field, k |-> w.k, from |-> s, n |-> n]
  <1>. DEFINE i == CHOOSE i \in 1 .. Len(decl) : decl[i] = w
  <1>1. i \in 1 .. Len(decl) /\ decl[i] = w
    <2>1. \E j \in 1 .. Len(decl) : decl[j] = w
      BY DEF WordsIn
    <2>. QED  BY <2>1
  <1>2. /\ Len(Stamp(decl, s, n)) = Len(decl)
        /\ Stamp(decl, s, n)[i] =
             [field |-> w.field, k |-> w.k, from |-> s, n |-> n]
    BY <1>1, StampType
  <1>3. Read(Stamp(decl, s, n), decl, words)[w] =
          IF i <= Len(Stamp(decl, s, n)) THEN Stamp(decl, s, n)[i] ELSE Unset
    BY DEF Read
  <1>. QED  BY <1>1, <1>2, <1>3

(* The words of a PDP-11's state after its address.                        *)
LEMMA FieldWords ==
  /\ WordsOf(PdpFields, 1) \in Seq(Word) /\ Len(WordsOf(PdpFields, 1)) = 6
  /\ \A i \in 1 .. 6 :
       /\ WordsOf(PdpFields, 1)[i] = [field |-> PdpFields[i], k |-> 1]
       /\ PdpFields[i] # "ps_address"
  <1>. DEFINE f == WordsOf(PdpFields, 1)
  <1>4. f \in Seq(Word) /\ Len(f) = 6
    <2>1. WordsOf(PdpFields, 1) \in Seq(Word)
          /\ Len(WordsOf(PdpFields, 1)) = Len(PdpFields)
      BY FieldsType, WordsOfLength, Zenon
    <2>. QED  BY <2>1, FieldsType
  <1>5. \A i \in 1 .. 6 : f[i] = [field |-> PdpFields[i], k |-> 1]
    <2>1. f = [i \in 1 .. (1 * Len(PdpFields)) |->
                 [field |-> PdpFields[1 + ((i - 1) \div 1)],
                  k |-> 1 + ((i - 1) % 1)]]
      BY DEF WordsOf
    <2>2. Len(PdpFields) = 6
      BY FieldsType
    <2>. HIDE DEF f
    <2>. TAKE i \in 1 .. 6
    <2>3. 1 + ((i - 1) \div 1) = i /\ 1 + ((i - 1) % 1) = 1
          /\ i \in 1 .. (1 * Len(PdpFields))
      BY <2>2
    <2>4. f[i] = [field |-> PdpFields[1 + ((i - 1) \div 1)],
                  k |-> 1 + ((i - 1) % 1)]
      BY <2>1, <2>3
    <2>. QED  BY <2>3, <2>4, Zenon
  <1>6. \A i \in 1 .. 6 : PdpFields[i] # "ps_address"
    BY DEF PdpFields
  <1>. QED  BY <1>4, <1>5, <1>6

(* The panel state of a PDP-11 as the PDP-11 lays it out and as the tools  *)
(* and pdproxy declare it: the words of the address are exchanged.         *)
LEMMA PdpWords ==
  /\ Len(Pdp11Words) = 8 /\ Len(Tool11Words) = 8
  /\ Pdp11Words \in Seq(Word) /\ Tool11Words \in Seq(Word)
  /\ Pdp11Words[1] = [field |-> "ps_address", k |-> 2]
  /\ Pdp11Words[2] = [field |-> "ps_address", k |-> 1]
  /\ Tool11Words[1] = [field |-> "ps_address", k |-> 1]
  /\ Tool11Words[2] = [field |-> "ps_address", k |-> 2]
  /\ \A i \in 3 .. 8 :
       /\ Pdp11Words[i] = [field |-> PdpFields[i - 2], k |-> 1]
       /\ Tool11Words[i] = Pdp11Words[i]
       /\ PdpFields[i - 2] # "ps_address"
  <1>. DEFINE f == WordsOf(PdpFields, 1)
              a == <<[field |-> "ps_address", k |-> 2],
                     [field |-> "ps_address", k |-> 1]>>
              b == <<[field |-> "ps_address", k |-> 1],
                     [field |-> "ps_address", k |-> 2]>>
  <1>1. /\ Pdp11Words \in Seq(Word) /\ Tool11Words \in Seq(Word)
        /\ Len(Pdp11Words) = 8 /\ Len(Tool11Words) = 8
    BY StateWordsType DEF SenderKinds, KernelReaders, Tools
  <1>2. /\ a[1] = [field |-> "ps_address", k |-> 2]
        /\ a[2] = [field |-> "ps_address", k |-> 1]
        /\ b[1] = [field |-> "ps_address", k |-> 1]
        /\ b[2] = [field |-> "ps_address", k |-> 2]
        /\ Len(a) = 2 /\ Len(b) = 2
    OBVIOUS
  <1>3. a \in Seq(Word) /\ b \in Seq(Word)
    <2>1. "ps_address" \in FieldNames
      BY DEF FieldNames
    <2>. QED  BY <2>1 DEF Word
  <1>4. /\ f \in Seq(Word) /\ Len(f) = 6
        /\ \A i \in 1 .. 6 : /\ f[i] = [field |-> PdpFields[i], k |-> 1]
                            /\ PdpFields[i] # "ps_address"
    BY FieldWords
  <1>7. Pdp11Words = a \o f /\ Tool11Words = b \o f
    BY DEF Pdp11Words, Tool11Words
  <1>. HIDE DEF a, b, f
  <1>8. /\ Pdp11Words[1] = a[1] /\ Pdp11Words[2] = a[2]
        /\ Tool11Words[1] = b[1] /\ Tool11Words[2] = b[2]
        /\ \A i \in 3 .. 8 : Pdp11Words[i] = f[i - 2]
                            /\ Tool11Words[i] = f[i - 2]
    <2>1. \A x, y \in Seq(Word) : Len(x) = 2 /\ Len(y) = 6 =>
            /\ (x \o y)[1] = x[1] /\ (x \o y)[2] = x[2]
            /\ \A i \in 3 .. 8 : (x \o y)[i] = y[i - 2]
      <3>. TAKE x, y \in Seq(Word)
      <3>. HAVE Len(x) = 2 /\ Len(y) = 6
      <3>1. \A i \in 1 .. Len(x) + Len(y) :
              (x \o y)[i] = IF i <= Len(x) THEN x[i] ELSE y[i - Len(x)]
        BY ConcatProperties
      <3>2. 1 .. Len(x) + Len(y) = 1 .. 8 /\ Len(x) = 2
        OBVIOUS
      <3>3. \A i \in 1 .. 8 : (x \o y)[i] = IF i <= 2 THEN x[i] ELSE y[i - 2]
        BY <3>1, <3>2, Zenon
      <3>. DEFINE z == x \o y
      <3>. HIDE DEF z
      <3>4. \A i \in 1 .. 8 : z[i] = IF i <= 2 THEN x[i] ELSE y[i - 2]
        BY <3>3 DEF z
      <3>5. z[1] = x[1] /\ z[2] = x[2]
        BY <3>4
      <3>6. \A i \in 3 .. 8 : z[i] = y[i - 2]
        BY <3>4
      <3>. QED  BY <3>5, <3>6 DEF z
    <2>. QED  BY <1>2, <1>3, <1>4, <1>7, <2>1, Zenon
  <1>9. \A i \in 3 .. 8 : i - 2 \in 1 .. 6
    OBVIOUS
  <1>. QED  BY <1>1, <1>2, <1>4, <1>8, <1>9, Zenon

(* pdproxy, which declares the words of an address in the other order.     *)
LEMMA ReadPdp11 ==
  ASSUME NEW s \in SenderKinds, NEW n \in Nat,
         NEW words, words \subseteq WordsIn(Tool11Words), NEW w \in words
  PROVE  Read(Stamp(Pdp11Words, s, n), Tool11Words, words)[w] =
           [field |-> w.field,
            k |-> IF w.field = "ps_address" THEN 3 - w.k ELSE w.k,
            from |-> s, n |-> n]
  <1>. DEFINE i == CHOOSE i \in 1 .. Len(Tool11Words) : Tool11Words[i] = w
              memory == Stamp(Pdp11Words, s, n)
  <1>1. i \in 1 .. 8 /\ Tool11Words[i] = w
    <2>1. \E j \in 1 .. Len(Tool11Words) : Tool11Words[j] = w
      BY DEF WordsIn
    <2>. QED  BY <2>1, PdpWords
  <1>2. Len(memory) = 8
        /\ memory[i] = [field |-> Pdp11Words[i].field, k |-> Pdp11Words[i].k,
                        from |-> s, n |-> n]
    <2>1. Pdp11Words \in Seq(Word) /\ Len(Pdp11Words) = 8
      BY PdpWords
    <2>2. /\ Len(memory) = Len(Pdp11Words)
          /\ \A j \in 1 .. Len(Pdp11Words) :
               memory[j] = [field |-> Pdp11Words[j].field,
                            k |-> Pdp11Words[j].k, from |-> s, n |-> n]
      BY <2>1, StampType, Zenon
    <2>. QED  BY <1>1, <2>1, <2>2, Zenon
  <1>3. Read(memory, Tool11Words, words)[w] =
          IF i <= Len(memory) THEN memory[i] ELSE Unset
    BY DEF Read
  <1>4. Read(memory, Tool11Words, words)[w] = memory[i]
    <2>. HIDE DEF i, memory
    <2>. QED  BY <1>1, <1>2, <1>3
  <1>. HIDE DEF i
  <1>5. /\ Pdp11Words[i].field = w.field
        /\ Pdp11Words[i].k = IF w.field = "ps_address" THEN 3 - w.k ELSE w.k
    <2>1. CASE i = 1
      BY <1>1, <2>1, PdpWords
    <2>2. CASE i = 2
      BY <1>1, <2>2, PdpWords
    <2>3. CASE i \in 3 .. 8
      BY <1>1, <2>3, PdpWords
    <2>. QED  BY <1>1, <2>1, <2>2, <2>3
  <1>. QED  BY <1>2, <1>4, <1>5, Zenon

-----------------------------------------------------------------------------
PipeTypeOK ==
  /\ phase \in [SenderKinds -> {"find", "connect", "send", "ended"}]
  /\ sent \in [SenderKinds -> Nat]
  /\ DOMAIN shown = Proxies
  /\ serving \in {"no", "yes", "ended"}
  /\ buffer \in Seq(Stamped)

(* A datagram was sent: its header is right unless it was set by hand or   *)
(* left out.                                                               *)
WasSentAs(d, s, n) ==
  \E host \in Hosts, count \in Nat, flags \in Nat :
    /\ d = Packet(s, n, host, count, flags)
    /\ s \notin Tools \union {"legacy"} =>
         count = 2 * Len(StateWords(s)) /\ flags = Flags(s)
WasSent(d) == \E s \in SenderKinds : \E n \in 1 .. sent[s] : WasSentAs(d, s, n)

PipeInv ==
  /\ PipeTypeOK
  /\ \A d \in net : WasSent(d)
  /\ ProxyFaithful

(* Where a sender's panel state begins in its datagram, and its words.     *)
LEMMA PayloadWords ==
  ASSUME NEW s \in SenderKinds, NEW n \in Nat, NEW host,
         NEW count, NEW flags,
         NEW d, d = Packet(s, n, host, count, flags)
  PROVE  /\ d.from = s /\ d.n = n /\ d.host = host /\ d.port = Port(s)
         /\ d.count = count /\ d.flags = flags
         /\ d.words \in Seq(Stamped)
         /\ s \notin {"legacy", "linux", "macos"} =>
              d.words = Stamp(StateWords(s), s, n)
         /\ s = "legacy" => /\ Len(d.words) = 5
                            /\ d.words[2].field # "ps_address"
         /\ s = "linux" => Len(d.words) = 85
         /\ s = "macos" => Len(d.words) = 37
  <1>1. /\ d.from = s /\ d.n = n /\ d.host = host /\ d.port = Port(s)
        /\ d.count = count /\ d.flags = flags
        /\ d.words = Stamp(Payload(s), s, n)
    BY DEF Packet
  <1>2. StateWords(s) \in Seq(Word)
    BY StateWordsType
  <1>3. CASE s \notin {"legacy", "linux", "macos"}
    <2>1. Payload(s) = <<>> \o StateWords(s)
      BY <1>3 DEF Payload, Padding
    <2>2. Payload(s) = StateWords(s)
      BY <1>2, <2>1
    <2>. QED  BY <1>1, <1>2, <1>3, <2>2, StampType
  <1>4. CASE s = "legacy"
    <2>1. Payload(s) = SubSeq(Pdp11Words, 4, 8)
      BY <1>4, StateWordsType DEF Payload
    <2>2. Payload(s) \in Seq(Word) /\ Len(Payload(s)) = 5
          /\ Payload(s)[2] = Pdp11Words[5]
      <3>1. Pdp11Words \in Seq(Word) /\ Len(Pdp11Words) = 8
        BY PdpWords
      <3>. HIDE DEF Pdp11Words
      <3>2. /\ Len(SubSeq(Pdp11Words, 4, 8)) = 5
            /\ SubSeq(Pdp11Words, 4, 8)[2] = Pdp11Words[5]
        BY <3>1
      <3>3. SubSeq(Pdp11Words, 4, 8) \in Seq(Word)
        <4>1. \A i \in 1 .. Len(Pdp11Words) : Pdp11Words[i] \in Word
          BY <3>1, ElementOfSeq
        <4>2. \A i \in 4 .. 8 : Pdp11Words[i] \in Word
          BY <3>1, <4>1
        <4>. QED  BY <4>2, SubSeqProperties
      <3>. QED  BY <2>1, <3>2, <3>3, Zenon
    <2>3. Pdp11Words[5].field # "ps_address"
      BY PdpWords
    <2>4. /\ Stamp(Payload(s), s, n) \in Seq(Stamped)
          /\ Len(Stamp(Payload(s), s, n)) = 5
          /\ Stamp(Payload(s), s, n)[2].field = Payload(s)[2].field
      <3>. DEFINE pl == Payload(s)
                  st == Stamp(pl, s, n)
      <3>1. pl \in Seq(Word) /\ Len(pl) = 5
        BY <2>2
      <3>2. /\ st \in Seq(Stamped) /\ Len(st) = Len(pl)
            /\ \A i \in 1 .. Len(pl) :
                 st[i] = [field |-> pl[i].field, k |-> pl[i].k,
                          from |-> s, n |-> n]
        BY <3>1, StampType, Zenon
      <3>. HIDE DEF pl, st
      <3>3. 2 \in 1 .. Len(pl)
        BY <3>1
      <3>4. st[2].field = pl[2].field
        <4>1. st[2] = [field |-> pl[2].field, k |-> pl[2].k,
                       from |-> s, n |-> n]
          BY <3>2, <3>3, Zenon
        <4>. QED  BY <4>1
      <3>. QED  BY <3>1, <3>2, <3>4 DEF pl, st
    <2>. QED  BY <1>1, <1>4, <2>2, <2>3, <2>4
  <1>5. CASE s \in {"linux", "macos"}
    <2>1. Payload(s) = Pad \o StateWords(s)
      BY <1>5 DEF Payload, Padding
    <2>2. Pad \in Seq(Word) /\ Len(Pad) = 1
      <3>1. PadWord \in Word
        BY DEF PadWord, Word, FieldNames
      <3>. QED  BY <3>1 DEF Pad
    <2>3. Payload(s) \in Seq(Word)
          /\ Len(Payload(s)) = 1 + Len(StateWords(s))
      <3>1. Pad \o StateWords(s) \in Seq(Word)
            /\ Len(Pad \o StateWords(s)) = Len(Pad) + Len(StateWords(s))
        BY <1>2, <2>2, ConcatProperties, Zenon
      <3>. QED  BY <2>1, <2>2, <3>1, Zenon
    <2>4. /\ Stamp(Payload(s), s, n) \in Seq(Stamped)
          /\ Len(Stamp(Payload(s), s, n)) = 1 + Len(StateWords(s))
      BY <2>3, StampType, Zenon
    <2>5. /\ s = "linux" => Len(StateWords(s)) = 84
          /\ s = "macos" => Len(StateWords(s)) = 36
      BY StateWordsType, Zenon
    <2>6. /\ s = "linux" => Len(d.words) = 1 + 84
          /\ s = "macos" => Len(d.words) = 1 + 36
      BY <1>1, <2>4, <2>5, Zenon
    <2>. QED  BY <1>1, <1>5, <2>4, <2>6
  <1>. QED  BY <1>3, <1>4, <1>5

(* What get_panel_state lets through is of the proxy's kind, and read as   *)
(* the sender meant it but for the address of a PDP-11.                    *)
LEMMA ProxyReads ==
  ASSUME PipeTypeOK, NEW p \in Proxies, NEW d, WasSent(d),
         d.port = PortOf[p], HasState(p, d)
  PROVE  Faithful(Read(d.words, Declared(p), JsonWords(p)), Kinds(p))
  <1>0. PICK s \in SenderKinds : \E n \in 1 .. sent[s] : WasSentAs(d, s, n)
    BY DEF WasSent
  <1>1. PICK n \in 1 .. sent[s], host \in Hosts, count \in Nat, flags \in Nat :
          /\ d = Packet(s, n, host, count, flags)
          /\ s \notin Tools \union {"legacy"} =>
               count = 2 * Len(StateWords(s)) /\ flags = Flags(s)
    BY <1>0 DEF WasSentAs
  <1>2. n \in Nat
    BY DEF PipeTypeOK
  <1>3. /\ d.port = Port(s) /\ d.count = count
        /\ d.words \in Seq(Stamped)
        /\ s \notin {"legacy", "linux", "macos"} =>
             d.words = Stamp(StateWords(s), s, n)
        /\ s = "legacy" => Len(d.words) = 5
    BY <1>1, <1>2, PayloadWords
  <1>. DEFINE panel == Read(d.words, Declared(p), JsonWords(p))
  <1>4. /\ DOMAIN panel = JsonWords(p)
        /\ JsonWords(p) \subseteq WordsIn(Declared(p))
    BY DEF Read, JsonWords
  <1>5. CASE p = "amd64proxy"
    <2>1. s \in {"amd64", "tool64"}
      BY <1>3, <1>5 DEF PortOf, Port
    <2>2. Declared(p) = StateWords(s) /\ d.words = Stamp(StateWords(s), s, n)
      BY <1>3, <1>5, <2>1 DEF Declared, StateWords
    <2>3. \A w \in DOMAIN panel :
            panel[w] = [field |-> w.field, k |-> w.k, from |-> s, n |-> n]
      <3>1. StateWords(s) \in Seq(Word)
        BY StateWordsType
      <3>2. JsonWords(p) \subseteq WordsIn(StateWords(s))
        BY <1>4, <2>2
      <3>3. panel = Read(Stamp(StateWords(s), s, n), StateWords(s),
                         JsonWords(p))
        BY <2>2, Zenon
      <3>. TAKE w \in DOMAIN panel
      <3>4. w \in JsonWords(p)
        BY <1>4, Zenon
      <3>5. Read(Stamp(StateWords(s), s, n), StateWords(s), JsonWords(p))[w] =
              [field |-> w.field, k |-> w.k, from |-> s, n |-> n]
        BY <1>0, <1>2, <3>1, <3>2, <3>4, ReadSame
      <3>. QED  BY <3>3, <3>5, Zenon
    <2>4. s \in Kinds(p) /\ (\A w : AtProxy(s, w) = w.k)
      BY <1>5, <2>1 DEF Kinds, AtProxy
    <2>. QED  BY <1>1, <2>3, <2>4 DEF Faithful
  <1>6. CASE p = "netbsdvax"
    <2>1. s \in {"vax", "toolvax"}
      BY <1>3, <1>6 DEF PortOf, Port
    <2>2. Declared(p) = StateWords(s) /\ d.words = Stamp(StateWords(s), s, n)
      BY <1>3, <1>6, <2>1 DEF Declared, StateWords
    <2>3. \A w \in DOMAIN panel :
            panel[w] = [field |-> w.field, k |-> w.k, from |-> s, n |-> n]
      <3>1. StateWords(s) \in Seq(Word)
        BY StateWordsType
      <3>2. JsonWords(p) \subseteq WordsIn(StateWords(s))
        BY <1>4, <2>2
      <3>3. panel = Read(Stamp(StateWords(s), s, n), StateWords(s),
                         JsonWords(p))
        BY <2>2, Zenon
      <3>. TAKE w \in DOMAIN panel
      <3>4. w \in JsonWords(p)
        BY <1>4, Zenon
      <3>5. Read(Stamp(StateWords(s), s, n), StateWords(s), JsonWords(p))[w] =
              [field |-> w.field, k |-> w.k, from |-> s, n |-> n]
        BY <1>0, <1>2, <3>1, <3>2, <3>4, ReadSame
      <3>. QED  BY <3>3, <3>5, Zenon
    <2>4. s \in Kinds(p) /\ (\A w : AtProxy(s, w) = w.k)
      BY <1>6, <2>1 DEF Kinds, AtProxy
    <2>. QED  BY <1>1, <2>3, <2>4 DEF Faithful
  <1>7. CASE p = "pdproxy"
    <2>1. Declared(p) = Tool11Words
      BY <1>7, AddressWords DEF Declared, Tool11Words
    <2>2. d.count = 16 /\ Len(d.words) >= 8
      <3>1. d.count = 2 * Len(Tool11Words) /\ Len(Tool11Words) = 8
        BY <2>1, PdpWords DEF HasState, SizeofT
      <3>2. Len(d.words) \in Nat /\ 6 + 2 * Len(d.words) >= 6 + d.count
        BY <1>3 DEF HasState, Size, HeaderSize
      <3>. QED  BY <3>1, <3>2
    <2>3. s \in {"pdp11", "tool11"}
      <3>1. s \in {"pdp11", "legacy", "linux", "macos", "tool11"}
        BY <1>3, <1>7 DEF PortOf, Port, SenderKinds, KernelReaders, Tools
      <3>2. s # "legacy"
        <4>1. s = "legacy" => Len(d.words) = 5
          BY <1>3
        <4>. HIDE DEF panel
        <4>2. Len(d.words) >= 8
          BY <2>2
        <4>3. CASE s = "legacy"
          <5>1. Len(d.words) = 5
            BY <4>1, <4>3, Zenon
          <5>. QED  BY <4>2, <5>1
        <4>. QED  BY <4>3
      <3>3. s # "linux" /\ s # "macos"
        <4>1. s = "linux" => count = 2 * 84
          BY <1>1, StateWordsType, Zenon DEF Tools
        <4>2. s = "macos" => count = 2 * 36
          BY <1>1, StateWordsType, Zenon DEF Tools
        <4>3. count = 16
          BY <1>3, <2>2
        <4>. QED  BY <4>1, <4>2, <4>3
      <3>. QED  BY <3>1, <3>2, <3>3
    <2>4. s \in Kinds(p)
      BY <1>7, <2>3 DEF Kinds
    <2>5. CASE s = "tool11"
      <3>1. d.words = Stamp(Tool11Words, s, n)
        BY <1>3, <2>5, StateWordsType
      <3>2. \A w \in DOMAIN panel :
              panel[w] = [field |-> w.field, k |-> w.k, from |-> s, n |-> n]
        <4>1. Tool11Words \in Seq(Word)
          BY PdpWords
        <4>2. JsonWords(p) \subseteq WordsIn(Tool11Words)
          BY <1>4, <2>1
        <4>3. panel = Read(Stamp(Tool11Words, s, n), Tool11Words, JsonWords(p))
          BY <2>1, <3>1, Zenon
        <4>. TAKE w \in DOMAIN panel
        <4>4. w \in JsonWords(p)
          BY <1>4, Zenon
        <4>5. Read(Stamp(Tool11Words, s, n), Tool11Words, JsonWords(p))[w] =
                [field |-> w.field, k |-> w.k, from |-> s, n |-> n]
          BY <1>0, <1>2, <4>1, <4>2, <4>4, ReadSame
        <4>. QED  BY <4>3, <4>5, Zenon
      <3>3. \A w : AtProxy(s, w) = w.k
        BY <2>5 DEF AtProxy
      <3>. QED  BY <1>1, <2>4, <3>2, <3>3 DEF Faithful
    <2>6. CASE s = "pdp11"
      <3>1. d.words = Stamp(Pdp11Words, s, n)
        BY <1>3, <2>6, StateWordsType
      <3>2. \A w \in DOMAIN panel :
              panel[w] =
                [field |-> w.field,
                 k |-> IF w.field = "ps_address" THEN 3 - w.k ELSE w.k,
                 from |-> s, n |-> n]
        <4>1. JsonWords(p) \subseteq WordsIn(Tool11Words)
          BY <1>4, <2>1
        <4>3. panel = Read(Stamp(Pdp11Words, s, n), Tool11Words, JsonWords(p))
          BY <2>1, <3>1, Zenon
        <4>. TAKE w \in DOMAIN panel
        <4>4. w \in JsonWords(p)
          BY <1>4, Zenon
        <4>5. Read(Stamp(Pdp11Words, s, n), Tool11Words, JsonWords(p))[w] =
                [field |-> w.field,
                 k |-> IF w.field = "ps_address" THEN 3 - w.k ELSE w.k,
                 from |-> s, n |-> n]
          BY <1>0, <1>2, <4>1, <4>4, ReadPdp11
        <4>. QED  BY <4>3, <4>5, Zenon
      <3>3. \A w : AtProxy(s, w) =
                     IF w.field = "ps_address" THEN 3 - w.k ELSE w.k
        BY <2>6 DEF AtProxy
      <3>. QED  BY <1>1, <2>4, <3>2, <3>3 DEF Faithful
    <2>. QED  BY <2>3, <2>5, <2>6
  <1>. QED  BY <1>5, <1>6, <1>7 DEF Proxies

-----------------------------------------------------------------------------
(* The inductive invariant holds at the start.                             *)
LEMMA PipeInitInv == PipeInit => PipeInv
  <1>. SUFFICES ASSUME PipeInit
                PROVE  PipeInv
    OBVIOUS
  <1>1. PipeTypeOK
    <2>1. <<>> \in Seq(Stamped)
      OBVIOUS
    <2>. QED  BY <2>1 DEF PipeInit, PipeTypeOK, Begin
  <1>2. ProxyFaithful
    BY DEF PipeInit, ProxyFaithful
  <1>. QED  BY <1>1, <1>2 DEF PipeInit, PipeInv

(* What was sent and shown remains so when more is sent.                   *)
LEMMA SentGrows ==
  ASSUME PipeTypeOK, PipeTypeOK', \A s \in SenderKinds : sent[s] <= sent'[s]
  PROVE  /\ \A d : WasSent(d) => WasSent(d)'
         /\ \A panel : \A p \in Proxies :
              Faithful(panel, Kinds(p))
                => Faithful(panel, Kinds(p))'
  <1>1. \A s \in SenderKinds : 1 .. sent[s] \subseteq 1 .. sent'[s]
    BY DEF PipeTypeOK
  <1>2. \A p \in Proxies : Kinds(p) \subseteq SenderKinds
    BY DEF Kinds, Proxies, SenderKinds, KernelReaders, Tools
  <1>3. \A d : WasSent(d) => WasSent(d)'
    BY <1>1 DEF WasSent, WasSentAs
  <1>4. \A panel : \A p \in Proxies :
          Faithful(panel, Kinds(p))
            => Faithful(panel, Kinds(p))'
    BY <1>1, <1>2 DEF Faithful
  <1>. QED  BY <1>3, <1>4

(* Every step of a sender, a receiver or the network preserves it.         *)
LEMMA PipeStepInv == PipeInv /\ [PipeNext]_pipeVars => PipeInv'
  <1>. SUFFICES ASSUME PipeInv, [PipeNext]_pipeVars
                PROVE  PipeInv'
    OBVIOUS
  <1>. USE DEF PipeInv
  <1>1. ASSUME UNCHANGED <<sent, net, shown>>, PipeTypeOK'
        PROVE  PipeInv'
    BY <1>1 DEF ProxyFaithful, Faithful, WasSent, WasSentAs
  <1>2. CASE UNCHANGED pipeVars
    BY <1>1, <1>2 DEF pipeVars, senders, server, PipeTypeOK
  <1>3. ASSUME NEW s \in SenderKinds,
               FindPanel(s) \/ CreateSocket(s) \/ GiveUp(s)
        PROVE  PipeInv'
    <2>1. PipeTypeOK'
      BY <1>3 DEF FindPanel, CreateSocket, GiveUp, PipeTypeOK, server
    <2>. QED
      BY <1>1, <1>3, <2>1 DEF FindPanel, CreateSocket, GiveUp, server
  <1>4. ASSUME NEW s \in SenderKinds,
               SendFrame(s) \/ SendBare(s) \/ SendByHand(s)
        PROVE  PipeInv'
    <2>1. PICK counts \in SUBSET Nat, flags \in SUBSET Nat :
            /\ Send(s, counts, flags)
            /\ s \notin Tools \union {"legacy"} =>
                 counts = {2 * Len(StateWords(s))} /\ flags = {Flags(s)}
      <3>1. CASE SendFrame(s)
        <4>1. 2 * Len(StateWords(s)) \in Nat
          <5>1. StateWords(s) \in Seq(Word)
            BY StateWordsType
          <5>. QED  BY <5>1
        <4>2. Flags(s) \in Nat
          BY DEF Flags, Type, SenderKinds, KernelReaders, Tools, PANEL_PDP1170,
                 PANEL_VAX, PANEL_NETBSDX64, PANEL_MACOS, PANEL_LINUXX64
        <4>. QED  BY <3>1, <4>1, <4>2 DEF SendFrame
      <3>2. CASE SendBare(s)
        BY <3>2, PipelineAssumption DEF SendBare
      <3>3. CASE SendByHand(s)
        BY <3>3, PipelineAssumption DEF SendByHand
      <3>. QED  BY <1>4, <3>1, <3>2, <3>3
    <2>2. /\ PipeTypeOK'
          /\ sent'[s] = sent[s] + 1
          /\ \A r \in SenderKinds : sent[r] <= sent'[r]
      BY <2>1 DEF Send, PipeTypeOK, server
    <2>3. PICK host \in Hosts, c \in counts, f \in flags :
            net' = net \union {Packet(s, sent'[s], host, c, f)}
      BY <2>1 DEF Send
    <2>4. \A d \in net' : WasSent(d)'
      <3>1. PICK n, d : /\ n \in Nat /\ n = sent'[s]
                        /\ d = Packet(s, n, host, c, f)
        BY <2>2 DEF PipeTypeOK
      <3>2. WasSentAs(d, s, n)
        BY <2>1, <2>3, <3>1 DEF WasSentAs
      <3>3. n \in 1 .. sent'[s]
        BY <2>2, <3>1 DEF PipeTypeOK
      <3>4. WasSent(d)'
        BY <3>2, <3>3 DEF WasSent, WasSentAs
      <3>5. net' = net \union {d}
        BY <2>3, <3>1
      <3>. QED  BY <2>2, <3>4, <3>5, SentGrows
    <2>5. shown' = shown
      BY <2>1 DEF Send
    <2>6. ProxyFaithful'
      BY <2>2, <2>5, SentGrows DEF ProxyFaithful
    <2>. QED  BY <2>2, <2>4, <2>5, <2>6
  <1>5. ASSUME NEW d \in net, Lose(d)
        PROVE  PipeInv'
    <2>1. UNCHANGED <<senders, shown, server>> /\ net' \subseteq net
      BY <1>5 DEF Lose
    <2>. QED
      BY <2>1 DEF PipeTypeOK, ProxyFaithful, Faithful, WasSent, WasSentAs,
                  senders, server
  <1>6. ASSUME NEW d \in net, NEW p \in Proxies, ProxyReceive(p, d)
        PROVE  PipeInv'
    <2>1. UNCHANGED <<senders, server>> /\ net' \subseteq net
      BY <1>6 DEF ProxyReceive, Arrives
    <2>2. PipeTypeOK'
      BY <1>6, <2>1 DEF ProxyReceive, PipeTypeOK, senders, server
    <2>3. ProxyFaithful
      OBVIOUS
    <2>4. \A q \in Proxies : shown'[q] # Nothing =>
            Faithful(shown'[q], Kinds(q))
      <3>1. CASE HasState(p, d)
        <4>1. Faithful(Read(d.words, Declared(p), JsonWords(p)), Kinds(p))
          BY <1>6, <3>1, ProxyReads DEF ProxyReceive
        <4>2. shown' = [shown EXCEPT ![p] =
                          Read(d.words, Declared(p), JsonWords(p))]
          BY <1>6, <3>1 DEF ProxyReceive
        <4>. QED  BY <2>3, <4>1, <4>2 DEF ProxyFaithful, PipeTypeOK
      <3>2. CASE ~HasState(p, d)
        BY <1>6, <2>3, <3>2 DEF ProxyReceive, ProxyFaithful
      <3>. QED  BY <3>1, <3>2
    <2>. QED
      BY <2>1, <2>2, <2>4 DEF ProxyFaithful, Faithful, WasSent, WasSentAs,
                              senders, server
  <1>7. ASSUME ServerStarts \/ ServerEnds
        PROVE  PipeInv'
    <2>1. PipeTypeOK'
      BY <1>7 DEF ServerStarts, ServerEnds, PipeTypeOK, senders
    <2>. QED  BY <1>1, <1>7, <2>1 DEF ServerStarts, ServerEnds, senders
  <1>8. ASSUME NEW d \in net, ServerReceive(d)
        PROVE  PipeInv'
    <2>1. UNCHANGED <<senders, shown, serving>> /\ net' \subseteq net
      BY <1>8 DEF ServerReceive, Arrives
    <2>2. buffer' \in Seq(Stamped)
      <3>. DEFINE old == SubSeq(buffer, Len(d.words) + 1, Len(buffer))
      <3>1. PICK s \in SenderKinds : \E n \in 1 .. sent[s] : WasSentAs(d, s, n)
        BY DEF WasSent
      <3>2. PICK n \in 1 .. sent[s] : WasSentAs(d, s, n)
        BY <3>1
      <3>3. d.words \in Seq(Stamped)
        <4>1. n \in Nat
          BY <3>1, <3>2 DEF PipeTypeOK
        <4>. QED  BY <3>1, <3>2, <4>1, PayloadWords DEF WasSentAs
      <3>4. old \in Seq(Stamped)
        <4>1. buffer \in Seq(Stamped)
          BY DEF PipeTypeOK
        <4>2. Len(d.words) \in Nat /\ Len(buffer) \in Nat
          BY <3>3, <4>1
        <4>3. \A i \in Len(d.words) + 1 .. Len(buffer) : buffer[i] \in Stamped
          BY <4>1, <4>2, ElementOfSeq
        <4>4. Len(d.words) + 1 \in Int /\ Len(buffer) \in Int
          BY <4>2
        <4>. QED  BY <4>3, <4>4, SubSeqProperties
      <3>. QED  BY <1>8, <3>3, <3>4, ConcatProperties
           DEF ServerReceive, Overwrite
    <2>3. PipeTypeOK'
      BY <2>1, <2>2 DEF PipeTypeOK, senders
    <2>4. ProxyFaithful' /\ \A e \in net' : WasSent(e)'
      BY <2>1 DEF ProxyFaithful, Faithful, WasSent, WasSentAs, senders
    <2>. QED  BY <2>3, <2>4
  <1>. QED  BY <1>2, <1>3, <1>4, <1>5, <1>6, <1>7, <1>8 DEF PipeNext

(* Whatever is sent, lost, doubled and reordered, the invariant holds.     *)
THEOREM PipeInvCorrect == PipeSpec => []PipeInv
  BY PipeInitInv, PipeStepInv, PTL DEF PipeSpec

(* Every state a proxy broadcasts is one that a sender of its own kind     *)
(* sent, whoever else sends to its port and whatever their headers say     *)
(* (get_panel_state).                                                      *)
THEOREM PipeProxyFaithful == PipeSpec => []ProxyFaithful
  <1>1. PipeInv => ProxyFaithful
    BY DEF PipeInv
  <1>. QED  BY <1>1, PipeInvCorrect, PTL

-----------------------------------------------------------------------------
(* The pages.                                                              *)
Groups == {"address", "display", "status"}

(* The masks, and what the script keeps, once it has been sent `old' and   *)
(* `now' last.                                                             *)
Masks(b, old, now) ==
  Lights(page, [lampTest |-> b, old_state |-> old, state |-> now])

LampPanel(b, old, now) ==
  [lampTest |-> b, old_state |-> old, state |-> now,
   lights |-> Masks(b, old, now), lit |-> Masks(b, old, now)]

Values(now) == IF now = Null THEN [r \in Registers |-> {}] ELSE now

RegisterPanel(old, now) ==
  [lampTest |-> FALSE, old_state |-> old, state |-> now,
   lit |-> Values(now), text |-> Values(now)]

-----------------------------------------------------------------------------
(* If the lamps are as the mask says, they are as the new one afterwards.  *)
LEMMA UpdatedLamps ==
  ASSUME NEW old, NEW new
  PROVE  updatePanel(old, old, new) = new
  BY DEF updatePanel

(* The masks that updateLights works out are there for the three groups.   *)
LEMMA LightsType ==
  ASSUME NEW panel
  PROVE  /\ DOMAIN Lights(page, panel) = Groups
         /\ Lights(page, panel) = [g \in Groups |-> Lights(page, panel)[g]]
  <1>1. /\ DOMAIN initPanel(page) = Groups
        /\ initPanel(page) = [g \in Groups |-> initPanel(page)[g]]
    BY DEF initPanel, PdpPanel, VaxPanel, Groups
  <1>2. CASE panel.lampTest
    <2>1. Lights(page, panel) = initPanel(page)
      BY <1>2 DEF Lights
    <2>. QED  BY <1>1, <2>1
  <1>3. CASE ~panel.lampTest /\ panel.state = Null
    <2>1. Lights(page, panel) =
            [address |-> {}, display |-> {}, status |-> AlwaysOn]
      BY <1>3 DEF Lights
    <2>. QED  BY <2>1 DEF Groups
  <1>4. CASE ~panel.lampTest /\ panel.state # Null
    <2>1. Lights(page, panel) =
            [address |-> panel.state.address \intersect initPanel(page).address,
             display |-> panel.state.data \intersect initPanel(page).display,
             status  |-> AlwaysOn \union StatusOf(page, panel)]
      BY <1>4 DEF Lights
    <2>. QED  BY <2>1 DEF Groups
  <1>. QED  BY <1>2, <1>3, <1>4

(* The fields of the script's record, one or two of them replaced.         *)
LampFields(b, old, now, lights, lit) ==
  [lampTest |-> b, old_state |-> old, state |-> now,
   lights |-> lights, lit |-> lit]

(* Masks for the three groups of lamps.                                    *)
IsMasks(m) == m = [g \in Groups |-> m[g]]

(* updateLights, on any panel whose lamps are as its masks say.            *)
LEMMA LightsUpdated ==
  ASSUME NEW b, NEW old, NEW now, NEW m, IsMasks(m)
  PROVE  updateLights(page, LampFields(b, old, now, m, m))
           = LampPanel(b, old, now)
  <1>. DEFINE p == LampFields(b, old, now, m, m)
              new == Lights(page, p)
  <1>1. new = Masks(b, old, now)
    BY DEF Lights, Masks, StatusOf, LampFields
  <1>2. updateLights(page, p) =
          LampFields(b, old, now, new,
            [g \in DOMAIN m |-> updatePanel(m[g], m[g], new[g])])
    <2>. DEFINE lit == [g \in DOMAIN m |-> updatePanel(m[g], m[g], new[g])]
    <2>1. p.lights = m /\ p.lit = m
      BY DEF LampFields
    <2>2. updateLights(page, p) =
            [p EXCEPT !.lights = new,
                      !.lit = [g \in DOMAIN p.lit |->
                                 updatePanel(p.lit[g], p.lights[g], new[g])]]
      BY DEF updateLights
    <2>3. [g \in DOMAIN p.lit |->
             updatePanel(p.lit[g], p.lights[g], new[g])] = lit
      BY <2>1
    <2>5. [p EXCEPT !.lights = new, !.lit = lit]
            = LampFields(b, old, now, new, lit)
      <3>. HIDE DEF new, lit
      <3>1. [p EXCEPT !.lights = new] = LampFields(b, old, now, new, m)
        BY DEF LampFields
      <3>2. [LampFields(b, old, now, new, m) EXCEPT !.lit = lit]
              = LampFields(b, old, now, new, lit)
        BY DEF LampFields
      <3>. QED  BY <3>1, <3>2
    <2>6. updateLights(page, p) = [p EXCEPT !.lights = new, !.lit = lit]
      <3>. DEFINE was == [g \in DOMAIN p.lit |->
                            updatePanel(p.lit[g], p.lights[g], new[g])]
      <3>1. updateLights(page, p) = [p EXCEPT !.lights = new, !.lit = was]
        BY <2>2
      <3>2. was = lit
        BY <2>3
      <3>. HIDE DEF new, lit, was, p
      <3>. QED  BY <3>1, <3>2
    <2>. QED  BY <2>5, <2>6
  <1>3. [g \in DOMAIN m |-> updatePanel(m[g], m[g], new[g])] = new
    <2>1. DOMAIN m = Groups
      BY DEF IsMasks
    <2>2. new = [g \in Groups |-> new[g]]
      BY LightsType
    <2>. HIDE DEF new
    <2>. QED  BY <2>1, <2>2, UpdatedLamps
  <1>. QED  BY <1>1, <1>2, <1>3 DEF LampPanel, LampFields

(* The record of a panel whose lamps are as its masks say.                 *)
LEMMA LampPanelFields ==
  ASSUME NEW b, NEW old, NEW now
  PROVE  \E m : /\ IsMasks(m)
               /\ LampPanel(b, old, now) = LampFields(b, old, now, m, m)
  <1>1. Masks(b, old, now) = [g \in Groups |-> Masks(b, old, now)[g]]
    BY LightsType DEF Masks
  <1>. QED  BY <1>1 DEF LampPanel, LampFields, IsMasks

(* A message brings such a panel to the state it carries.                  *)
LEMMA LampMessage ==
  ASSUME HasLampTest(page), NEW b, NEW old, NEW now, NEW json
  PROVE  handleMessage(page, LampPanel(b, old, now), json)
           = LampPanel(b, now, json)
  <1>1. PICK m : /\ IsMasks(m)
                 /\ LampPanel(b, old, now) = LampFields(b, old, now, m, m)
    BY LampPanelFields
  <1>2. LampFields(b, old, now, m, m).state = now
    BY DEF LampFields
  <1>3. setPanelState(LampPanel(b, old, now), json) =
          LampFields(b, now, json, m, m)
    <2>. DEFINE p == LampFields(b, old, now, m, m)
    <2>1. setPanelState(p, json) = [p EXCEPT !.old_state = p.state,
                                             !.state = json]
      BY DEF setPanelState
    <2>. HIDE DEF p
    <2>2. p = LampFields(b, old, now, m, m)
      BY DEF p
    <2>3. p.state = now
      BY <1>2, <2>2
    <2>. DEFINE was == p.state
    <2>4. [p EXCEPT !.old_state = was, !.state = json]
            = LampFields(b, was, json, m, m)
      <3>. HIDE DEF was
      <3>1. [p EXCEPT !.old_state = was] = LampFields(b, was, now, m, m)
        BY <2>2 DEF LampFields
      <3>2. [LampFields(b, was, now, m, m) EXCEPT !.state = json]
              = LampFields(b, was, json, m, m)
        BY DEF LampFields
      <3>. QED  BY <3>1, <3>2
    <2>. QED  BY <1>1, <2>1, <2>2, <2>3, <2>4
  <1>. QED  BY <1>1, <1>3, LightsUpdated DEF handleMessage

(* The lamp test leaves it such a panel.                                   *)
LEMMA LampClick ==
  ASSUME NEW b \in BOOLEAN, NEW old, NEW now
  PROVE  clickLampTest(page, LampPanel(b, old, now))
           = LampPanel(~b, old, now)
  <1>1. PICK m : /\ IsMasks(m)
                 /\ LampPanel(b, old, now) = LampFields(b, old, now, m, m)
    BY LampPanelFields
  <1>2. LampFields(b, old, now, m, m).lampTest = b
    BY DEF LampFields
  <1>3. [LampPanel(b, old, now) EXCEPT !.lampTest = ~@] =
          LampFields(~b, old, now, m, m)
    <2>. DEFINE p == LampFields(b, old, now, m, m)
    <2>. HIDE DEF p
    <2>1. p = LampFields(b, old, now, m, m)
      BY DEF p
    <2>2. p.lampTest = b
      BY <1>2, <2>1
    <2>. DEFINE not == ~p.lampTest
    <2>3. not = ~b
      BY <2>2
    <2>4. [p EXCEPT !.lampTest = not] = LampFields(not, old, now, m, m)
      <3>. HIDE DEF not
      <3>. QED  BY <2>1 DEF LampFields
    <2>. QED  BY <1>1, <2>1, <2>3, <2>4
  <1>. QED  BY <1>1, <1>3, LightsUpdated DEF clickLampTest

(* initialize makes one, with all lamps of the document on before it.      *)
LEMMA LampInit ==
  ASSUME HasLampTest(page)
  PROVE  initialize(page) = LampPanel(FALSE, Null, Null)
  <1>. DEFINE m == initPanel(page)
  <1>1. IsMasks(m)
    BY DEF initPanel, PdpPanel, VaxPanel, Groups, IsMasks
  <1>2. initialize(page) =
          updateLights(page, LampFields(FALSE, Null, Null, m, m))
    BY DEF initialize, LampFields
  <1>. HIDE DEF m
  <1>. QED  BY <1>1, <1>2, LightsUpdated

-----------------------------------------------------------------------------
(* The page of an amd64: both halves of a register are brought up to date. *)
LEMMA HalvesUpdated ==
  ASSUME NEW old \in SUBSET (0 .. 63), NEW new \in SUBSET (0 .. 63)
  PROVE  update32Bits(update32Bits(old, 0, old, new), 32, old, new) = new
  <1>1. \A v \in SUBSET (0 .. 63) :
          /\ LampsOf(0, Half(0, v)) = {x \in v : x <= 31}
          /\ LampsOf(32, Half(32, v)) = {x \in v : x > 31}
    <2>. TAKE v \in SUBSET (0 .. 63)
    <2>1. ASSUME NEW x \in v, x <= 31
          PROVE  x \in LampsOf(0, Half(0, v))
      <3>1. x \in 0 .. 31 /\ x + 0 = x
        BY <2>1
      <3>2. x \in Half(0, v)
        BY <3>1 DEF Half
      <3>. QED  BY <3>1, <3>2 DEF LampsOf
    <2>2. ASSUME NEW x \in v, x > 31
          PROVE  x \in LampsOf(32, Half(32, v))
      <3>1. x - 32 \in 0 .. 31 /\ (x - 32) + 32 = x
        BY <2>2
      <3>2. x - 32 \in Half(32, v)
        BY <3>1 DEF Half
      <3>. QED  BY <3>1, <3>2 DEF LampsOf
    <2>3. ASSUME NEW x \in LampsOf(0, Half(0, v))
          PROVE  x \in v /\ x <= 31
      <3>1. PICK y \in 0 .. 31 : y + 0 \in v /\ x = y + 0
        BY DEF LampsOf, Half
      <3>. QED  BY <3>1
    <2>4. ASSUME NEW x \in LampsOf(32, Half(32, v))
          PROVE  x \in v /\ x > 31
      <3>1. PICK y \in 0 .. 31 : y + 32 \in v /\ x = y + 32
        BY DEF LampsOf, Half
      <3>. QED  BY <3>1
    <2>. QED  BY <2>1, <2>2, <2>3, <2>4
  <1>. DEFINE Low(v) == LampsOf(0, Half(0, v))
              High(v) == LampsOf(32, Half(32, v))
              mid == update32Bits(old, 0, old, new)
  <1>2. /\ \A x \in old : x \in Low(old) <=> x <= 31
        /\ \A x \in old : x \in High(old) <=> x > 31
        /\ \A x \in new : x \in Low(new) <=> x <= 31
        /\ \A x \in new : x \in High(new) <=> x > 31
        /\ Low(old) \subseteq old /\ High(old) \subseteq old
        /\ Low(new) \subseteq new /\ High(new) \subseteq new
    <2>1. /\ Low(old) = {x \in old : x <= 31}
          /\ High(old) = {x \in old : x > 31}
          /\ Low(new) = {x \in new : x <= 31}
          /\ High(new) = {x \in new : x > 31}
      BY <1>1
    <2>. HIDE DEF Low, High
    <2>. QED  BY <2>1
  <1>3. /\ mid = updatePanel(old, Low(old), Low(new))
        /\ update32Bits(mid, 32, old, new)
             = updatePanel(mid, High(old), High(new))
    BY DEF update32Bits
  <1>4. \A x : x \in mid <=> \/ x \in Low(new)
                             \/ x \in old /\ x \notin Low(old)
    <2>. HIDE DEF mid, Low, High
    <2>1. mid = updatePanel(old, Low(old), Low(new))
      BY <1>3
    <2>. QED  BY <1>2, <2>1 DEF updatePanel
  <1>5. \A x : x \in update32Bits(mid, 32, old, new) <=> x \in new
    <2>. HIDE DEF mid, Low, High
    <2>1. \A x : x \in old \/ x \in new => x \in Int
      <3>1. \A x \in 0 .. 63 : x \in Int
        OBVIOUS
      <3>. QED  BY <3>1
    <2>2. \A x : x \in mid => x \in Int
      BY <1>2, <1>4, <2>1
    <2>3. \A x : x \in Int => (x <= 31 <=> ~(x > 31))
      OBVIOUS
    <2>. QED  BY <1>2, <1>3, <1>4, <2>1, <2>2, <2>3 DEF updatePanel
  <1>. QED  BY <1>5

(* The fields of that page's record.                                       *)
RegFields(no, old, now, lit, text) ==
  [lampTest |-> no, old_state |-> old, state |-> now,
   lit |-> lit, text |-> text]

OfRegisters(f) == DOMAIN f = Registers

(* updateRegister, for the register that it is called with.                *)
LEMMA RegisterUpdated ==
  ASSUME NEW no, NEW old, NEW now, NEW lit, NEW text, NEW r \in Registers,
         OfRegisters(lit), OfRegisters(text), NEW was, NEW new
  PROVE  /\ updateRegister(RegFields(no, old, now, lit, text),
                           r, was, new).lit[r]
              = update32Bits(update32Bits(lit[r], 0, was, new), 32, was, new)
         /\ updateRegister(RegFields(no, old, now, lit, text),
                           r, was, new).text[r] = new
  <1>. DEFINE p == RegFields(no, old, now, lit, text)
              x == update32Bits(update32Bits(lit[r], 0, was, new), 32, was,
                                new)
              lit2 == [lit EXCEPT ![r] = x]
              text2 == [text EXCEPT ![r] = new]
  <1>1. updateRegister(p, r, was, new)
          = [p EXCEPT !.lit[r] = update32Bits(
                                   update32Bits(@, 0, was, new), 32, was, new),
                      !.text[r] = new]
    BY DEF updateRegister
  <1>2. p.lit = lit /\ p.text = text
    BY DEF RegFields
  <1>3. [p EXCEPT !.lit[r] = update32Bits(
                               update32Bits(@, 0, was, new), 32, was, new),
                  !.text[r] = new]
          = RegFields(no, old, now, lit2, text2)
    <2>1. [p EXCEPT !.lit[r] = update32Bits(
                                 update32Bits(@, 0, was, new), 32, was, new)]
            = RegFields(no, old, now, lit2, text)
      BY <1>2 DEF RegFields
    <2>2. [RegFields(no, old, now, lit2, text) EXCEPT !.text[r] = new]
            = RegFields(no, old, now, lit2, text2)
      BY DEF RegFields
    <2>. QED  BY <2>1, <2>2
  <1>4. RegFields(no, old, now, lit2, text2).lit = lit2
        /\ RegFields(no, old, now, lit2, text2).text = text2
    BY DEF RegFields
  <1>5. lit2[r] = x /\ text2[r] = new
    BY DEF OfRegisters
  <1>. HIDE DEF x, lit2, text2
  <1>. QED  BY <1>1, <1>3, <1>4, <1>5 DEF x

(* A message brings the lamps and the numbers of all registers up to date. *)
LEMMA RegisterMessage ==
  ASSUME page = "amd64proxy", NEW old, NEW now \in Amd64State \union {Null},
         NEW json \in Amd64State
  PROVE  handleMessage(page, RegisterPanel(old, now), json)
           = RegisterPanel(now, json)
  <1>0. PICK no : no = FALSE
    OBVIOUS
  <1>. DEFINE v == Values(now)
              p == RegisterPanel(old, now)
              set == RegFields(no, now, json, v, v)
  <1>1. OfRegisters(v) /\ \A r \in Registers : v[r] \in SUBSET (0 .. 63)
    <2>1. CASE now = Null
      BY <2>1 DEF Values, OfRegisters
    <2>2. CASE now # Null
      <3>1. v = now /\ now \in Amd64State
        BY <2>2 DEF Values
      <3>. QED  BY <3>1 DEF Amd64State, OfRegisters
    <2>. QED  BY <2>1, <2>2
  <1>2. setPanelState(p, json) = set
    <2>1. p = RegFields(no, old, now, v, v) /\ p.state = now
      BY <1>0 DEF RegisterPanel, RegFields
    <2>2. setPanelState(p, json) = [p EXCEPT !.old_state = p.state,
                                             !.state = json]
      BY DEF setPanelState
    <2>. HIDE DEF p, v
    <2>. DEFINE was == p.state
    <2>3. [p EXCEPT !.old_state = was, !.state = json]
            = RegFields(no, was, json, v, v)
      <3>. HIDE DEF was
      <3>1. [p EXCEPT !.old_state = was] = RegFields(no, was, now, v, v)
        BY <2>1 DEF RegFields
      <3>2. [RegFields(no, was, now, v, v) EXCEPT !.state = json]
              = RegFields(no, was, json, v, v)
        BY DEF RegFields
      <3>. QED  BY <3>1, <3>2
    <2>. QED  BY <2>1, <2>2, <2>3
  <1>. DEFINE Old(r) == IF set.old_state # Null THEN set.old_state[r] ELSE {}
              Updated(r) == updateRegister(set, r, Old(r), json[r])
              changed == {r \in Registers : json[r] # Old(r)}
              lit == [r \in Registers |->
                        IF r \in changed THEN Updated(r).lit[r] ELSE v[r]]
              text == [r \in Registers |->
                         IF r \in changed THEN Updated(r).text[r] ELSE v[r]]
  <1>3. \A r \in Registers : Old(r) = v[r]
    <2>1. set.old_state = now
      BY DEF RegFields
    <2>. QED  BY <2>1 DEF Values
  <1>4. \A r \in Registers : json[r] \in SUBSET (0 .. 63)
    BY DEF Amd64State
  <1>5. \A r \in Registers : /\ Updated(r).lit[r] = json[r]
                             /\ Updated(r).text[r] = json[r]
    <2>. TAKE r \in Registers
    <2>1. /\ Updated(r).lit[r] = update32Bits(
               update32Bits(v[r], 0, Old(r), json[r]), 32, Old(r), json[r])
          /\ Updated(r).text[r] = json[r]
      <3>. DEFINE was == Old(r)
                  new == json[r]
      <3>1. OfRegisters(v)
        BY <1>1
      <3>2. /\ updateRegister(RegFields(no, now, json, v, v),
                               r, was, new).lit[r]
                 = update32Bits(update32Bits(v[r], 0, was, new), 32, was, new)
            /\ updateRegister(RegFields(no, now, json, v, v),
                               r, was, new).text[r] = new
        <4>. HIDE DEF v, was, new
        <4>. QED  BY <3>1, RegisterUpdated
      <3>. QED  BY <3>2
    <2>2. update32Bits(update32Bits(v[r], 0, v[r], json[r]), 32, v[r], json[r])
            = json[r]
      <3>. HIDE DEF v
      <3>. QED  BY <1>1, <1>4, HalvesUpdated
    <2>3. Old(r) = v[r]
      BY <1>3
    <2>. HIDE DEF v, Old, Updated
    <2>. QED  BY <2>1, <2>2, <2>3
  <1>6. lit = json /\ text = json
    <2>1. json = [r \in Registers |-> json[r]]
      BY DEF Amd64State
    <2>2. \A r \in Registers : r \notin changed => v[r] = json[r]
      BY <1>3
    <2>. HIDE DEF v, Old, Updated, changed
    <2>. QED  BY <1>5, <2>1, <2>2
  <1>7. updatePanelState(p, json) = [set EXCEPT !.lit = lit, !.text = text]
    <2>1. set.lit = v /\ set.text = v
      BY DEF RegFields
    <2>2. updatePanelState(p, json) =
            [set EXCEPT
               !.lit = [r \in Registers |->
                          IF r \in changed THEN Updated(r).lit[r] ELSE @[r]],
               !.text = [r \in Registers |->
                           IF r \in changed THEN Updated(r).text[r] ELSE @[r]]]
      <3>. HIDE DEF set
      <3>. QED  BY <1>2 DEF updatePanelState
    <2>. HIDE DEF set, v, changed, Updated
    <2>. QED  BY <2>1, <2>2
  <1>8. [set EXCEPT !.lit = lit, !.text = text]
          = RegFields(no, now, json, lit, text)
    <2>. HIDE DEF lit, text, v
    <2>1. [set EXCEPT !.lit = lit] = RegFields(no, now, json, lit, v)
      BY DEF RegFields
    <2>2. [RegFields(no, now, json, lit, v) EXCEPT !.text = text]
            = RegFields(no, now, json, lit, text)
      BY DEF RegFields
    <2>. QED  BY <2>1, <2>2
  <1>9. RegisterPanel(now, json) = RegFields(no, now, json, json, json)
    <2>1. json # Null
      <3>1. DOMAIN json = Registers /\ DOMAIN Null = {"null"}
        BY DEF Amd64State, Null
      <3>2. "null" \notin Registers
        BY DEF Registers
      <3>. QED  BY <3>1, <3>2
    <2>. QED  BY <1>0, <2>1 DEF RegisterPanel, RegFields, Values
  <1>10. handleMessage(page, p, json) = updatePanelState(p, json)
    BY DEF handleMessage, HasLampTest
  <1>. HIDE DEF p, lit, text, set
  <1>. QED  BY <1>6, <1>7, <1>8, <1>9, <1>10 DEF p

(* initialize turns all lamps of the registers off.                        *)
LEMMA RegisterInit ==
  ASSUME page = "amd64proxy"
  PROVE  initialize(page) = RegisterPanel(Null, Null)
  <1>0. PICK no : no = FALSE
    OBVIOUS
  <1>. DEFINE all == [r \in Registers |-> 0 .. 63]
              dark == [r \in Registers |-> {}]
              first == RegFields(no, Null, Null, all, dark)
              lit == [r \in Registers |->
                        updateRegister(first, r, 0 .. 63, {}).lit[r]]
  <1>1. initialize(page) = [first EXCEPT !.lit = lit]
    BY <1>0 DEF initialize, HasLampTest, RegFields
  <1>2. lit = dark
    <2>1. \A r \in Registers :
            updateRegister(first, r, 0 .. 63, {}).lit[r] = {}
      <3>. TAKE r \in Registers
      <3>1. OfRegisters(all) /\ OfRegisters(dark)
        BY DEF OfRegisters
      <3>4. all[r] = 0 .. 63
        OBVIOUS
      <3>2. updateRegister(first, r, 0 .. 63, {}).lit[r] =
              update32Bits(update32Bits(all[r], 0, 0 .. 63, {}), 32,
                           0 .. 63, {})
        <4>. DEFINE was == 0 .. 63
                    new == {}
        <4>. HIDE DEF all, dark, was, new
        <4>1. /\ updateRegister(RegFields(no, Null, Null, all, dark), r, was,
                                new).lit[r]
                   = update32Bits(update32Bits(all[r], 0, was, new), 32, was,
                                  new)
              /\ updateRegister(RegFields(no, Null, Null, all, dark), r, was,
                                new).text[r] = new
          BY <3>1, RegisterUpdated
        <4>. QED  BY <4>1 DEF was, new
      <3>3. update32Bits(update32Bits(0 .. 63, 0, 0 .. 63, {}), 32,
                         0 .. 63, {}) = {}
        BY HalvesUpdated
      <3>. HIDE DEF all, first
      <3>. QED  BY <3>4, <3>2, <3>3
    <2>. HIDE DEF first
    <2>. QED  BY <2>1
  <1>3. [first EXCEPT !.lit = lit] = RegFields(no, Null, Null, lit, dark)
    <2>. HIDE DEF lit, all, dark
    <2>. QED  BY DEF RegFields
  <1>4. RegisterPanel(Null, Null) = RegFields(no, Null, Null, dark, dark)
    BY <1>0 DEF RegisterPanel, RegFields, Values
  <1>. HIDE DEF lit, dark, first
  <1>. QED  BY <1>1, <1>2, <1>3, <1>4

-----------------------------------------------------------------------------
(* The variables of base.js and the panel's script.                        *)
JsFields == {"msgQueue", "processing", "lastMessageTime", "statusInterval",
             "fpsInterval", "frameCount", "fps", "label", "panel"}

(* What the operations leave alone of them between two tasks.              *)
Idle(v) == DOMAIN v = JsFields /\ v.msgQueue = <<>> /\ v.processing = FALSE
Live == {"time since last state", "waiting for panel state"}

(* The label of a connection that is open, and what else is left alone.    *)
LEMMA StatusLabelled ==
  ASSUME NEW v, DOMAIN v = JsFields
  PROVE  /\ DOMAIN updateStatusLabel(v) = JsFields
         /\ updateStatusLabel(v).label.text \in Live
         /\ updateStatusLabel(v).panel = v.panel
         /\ updateStatusLabel(v).msgQueue = v.msgQueue
         /\ updateStatusLabel(v).processing = v.processing
         /\ updateStatusLabel(v).statusInterval = v.statusInterval
  <1>. DEFINE new == IF v.lastMessageTime
                     THEN [text |-> "time since last state", fps |-> v.fps]
                     ELSE Label("waiting for panel state")
  <1>1. new.text \in Live
    BY DEF Label, Live
  <1>2. updateStatusLabel(v) = [v EXCEPT !.label = new]
    BY DEF updateStatusLabel
  <1>. HIDE DEF new
  <1>. QED  BY <1>1, <1>2 DEF JsFields

(* One turn of processQueue's loop.                                        *)
LEMMA NextHandled ==
  ASSUME NEW v, DOMAIN v = JsFields, NEW json
  PROVE  /\ DOMAIN handleNext(v, json) = JsFields
         /\ handleNext(v, json).label.text \in Live
         /\ handleNext(v, json).panel = handleMessage(page, v.panel, json)
         /\ handleNext(v, json).processing = v.processing
         /\ handleNext(v, json).statusInterval = v.statusInterval
  <1>. DEFINE count == v.frameCount + 1
              panel == handleMessage(page, v.panel, json)
              w == [v EXCEPT !.frameCount = count, !.panel = panel]
  <1>1. handleNext(v, json) = updateStatusLabel(w)
    BY DEF handleNext
  <1>2. /\ DOMAIN w = JsFields
        /\ w.panel = panel /\ w.processing = v.processing
        /\ w.statusInterval = v.statusInterval
    <2>. HIDE DEF count, panel
    <2>. QED  BY DEF JsFields
  <1>. HIDE DEF w
  <1>. QED  BY <1>1, <1>2, StatusLabelled

(* One message in the queue: the recursion of its loop ends after it.      *)
LEMMA QueueHandled ==
  ASSUME NEW v, DOMAIN v = JsFields, NEW json, v.msgQueue = <<json>>
  PROVE  /\ DOMAIN handleQueue(v) = JsFields
         /\ handleQueue(v).label.text \in Live
         /\ handleQueue(v).panel = handleMessage(page, v.panel, json)
         /\ handleQueue(v).msgQueue = <<>>
         /\ handleQueue(v).statusInterval = v.statusInterval
  <1>. DEFINE after[i \in 0 .. Len(v.msgQueue)] ==
                IF i = 0 THEN v ELSE handleNext(after[i - 1], v.msgQueue[i])
              done == handleNext(v, json)
              f == [i \in 0 .. 1 |-> IF i = 0 THEN v ELSE done]
  <1>1. Len(v.msgQueue) = 1 /\ v.msgQueue[1] = json
    OBVIOUS
  <1>2. f = [i \in 0 .. Len(v.msgQueue) |->
               IF i = 0 THEN v ELSE handleNext(f[i - 1], v.msgQueue[i])]
    <2>1. f[0] = v
      OBVIOUS
    <2>2. \A i \in 0 .. 1 : i # 0 => i = 1 /\ i - 1 = 0
      OBVIOUS
    <2>3. \A i \in 0 .. 1 :
            f[i] = IF i = 0 THEN v ELSE handleNext(f[i - 1], v.msgQueue[i])
      <3>. HIDE DEF done
      <3>. QED  BY <1>1, <2>1, <2>2 DEF done
    <2>4. f = [i \in 0 .. 1 |-> f[i]]
      OBVIOUS
    <2>. HIDE DEF f
    <2>. QED  BY <1>1, <2>3, <2>4
  <1>3. after = [i \in 0 .. Len(v.msgQueue) |->
                   IF i = 0 THEN v
                   ELSE handleNext(after[i - 1], v.msgQueue[i])]
    <2>. HIDE DEF f
    <2>. QED  BY <1>2
  <1>4. after[1] = done
    <2>. HIDE DEF after
    <2>1. after[0] = v
      BY <1>1, <1>3
    <2>2. after[1] = handleNext(after[1 - 1], v.msgQueue[1])
      BY <1>1, <1>3
    <2>. QED  BY <1>1, <2>1, <2>2
  <1>5. handleQueue(v) = [after[Len(v.msgQueue)] EXCEPT !.msgQueue = <<>>]
    BY DEF handleQueue
  <1>6. handleQueue(v) = [done EXCEPT !.msgQueue = <<>>]
    <2>. HIDE DEF after, done
    <2>. QED  BY <1>1, <1>4, <1>5
  <1>7. /\ DOMAIN done = JsFields
        /\ done.label.text \in Live
        /\ done.panel = handleMessage(page, v.panel, json)
        /\ done.statusInterval = v.statusInterval
    BY NextHandled
  <1>. HIDE DEF done
  <1>. QED  BY <1>6, <1>7 DEF JsFields

(* A message is handled in the task that brings it.                        *)
LEMMA MessageHandled ==
  ASSUME PageAssumption, NEW v, Idle(v), NEW json
  PROVE  /\ Idle(onmessage(v, json))
         /\ onmessage(v, json).label.text \in Live
         /\ onmessage(v, json).panel = handleMessage(page, v.panel, json)
         /\ onmessage(v, json).statusInterval = v.statusInterval
  <1>. DEFINE w == [v EXCEPT !.lastMessageTime = TRUE]
              queued == Append(IF Len(w.msgQueue) >= maxQueue
                               THEN Tail(w.msgQueue) ELSE w.msgQueue, json)
              x == [w EXCEPT !.msgQueue = queued]
              y == [x EXCEPT !.processing = TRUE]
              z == handleQueue(y)
  <1>1. /\ DOMAIN w = JsFields /\ w.msgQueue = <<>> /\ w.processing = FALSE
        /\ w.panel = v.panel /\ w.statusInterval = v.statusInterval
    BY DEF Idle, JsFields
  <1>2. queued = <<json>>
    <2>1. Len(w.msgQueue) = 0
      BY <1>1
    <2>2. maxQueue \in Nat /\ maxQueue # 0
      BY DEF PageAssumption
    <2>3. ~(Len(w.msgQueue) >= maxQueue)
      BY <2>1, <2>2
    <2>4. queued = Append(w.msgQueue, json)
      BY <2>3
    <2>. HIDE DEF w
    <2>. QED  BY <1>1, <2>4
  <1>3. /\ DOMAIN x = JsFields /\ x.msgQueue = <<json>>
        /\ x.processing = FALSE
        /\ x.panel = v.panel /\ x.statusInterval = v.statusInterval
    <2>. HIDE DEF w, queued
    <2>. QED  BY <1>1, <1>2 DEF JsFields
  <1>4. /\ DOMAIN y = JsFields /\ y.msgQueue = <<json>>
        /\ y.panel = v.panel /\ y.statusInterval = v.statusInterval
    <2>. HIDE DEF x
    <2>. QED  BY <1>3 DEF JsFields
  <1>5. /\ DOMAIN z = JsFields
        /\ z.label.text \in Live
        /\ z.panel = handleMessage(page, v.panel, json)
        /\ z.msgQueue = <<>>
        /\ z.statusInterval = v.statusInterval
    <2>. HIDE DEF y
    <2>. QED  BY <1>4, QueueHandled
  <1>6. onmessage(v, json) = [z EXCEPT !.processing = FALSE]
    <2>1. onmessage(v, json) = processQueue(x)
      BY DEF onmessage, enqueue
    <2>2. x.processing = FALSE
      BY <1>3
    <2>. HIDE DEF x
    <2>. QED  BY <2>1, <2>2 DEF processQueue
  <1>. HIDE DEF z
  <1>. QED  BY <1>5, <1>6 DEF Idle, JsFields

(* The callbacks of the WebSocket and of the intervals leave the queue     *)
(* empty and the panel alone.                                              *)
LEMMA Opened ==
  ASSUME NEW v, Idle(v)
  PROVE  /\ Idle(onopen(v)) /\ onopen(v).panel = v.panel
         /\ onopen(v).label.text = "Connected"
  BY DEF Idle, JsFields, onopen, Label

(* The last word of a connection is Disconnected, and the intervals end.   *)
LEMMA Closed ==
  ASSUME NEW v, Idle(v)
  PROVE  /\ Idle(onclose(v)) /\ onclose(v).panel = v.panel
         /\ onclose(v).label.text = "Disconnected"
         /\ onclose(v).statusInterval = FALSE
  BY DEF Idle, JsFields, onclose, Label

(* An error is always followed by a close.                                 *)
LEMMA Failed ==
  ASSUME NEW v, Idle(v)
  PROVE  Idle(onerror(v)) /\ onerror(v).panel = v.panel
  BY DEF Idle, JsFields, onerror, Label

(* The interval that counts frames leaves the label alone.                 *)
LEMMA Counted ==
  ASSUME NEW v, Idle(v)
  PROVE  /\ Idle(countFps(v)) /\ countFps(v).panel = v.panel
         /\ countFps(v).label = v.label
         /\ countFps(v).statusInterval = v.statusInterval
  BY DEF Idle, JsFields, countFps

(* So does a click.                                                        *)
LEMMA Clicked ==
  ASSUME NEW v, Idle(v), NEW panel
  PROVE  /\ Idle([v EXCEPT !.panel = panel])
         /\ [v EXCEPT !.panel = panel].panel = panel
         /\ [v EXCEPT !.panel = panel].label = v.label
         /\ [v EXCEPT !.panel = panel].statusInterval = v.statusInterval
  BY DEF Idle, JsFields

-----------------------------------------------------------------------------
(* The feed, as far as the page depends on it: what it has received are    *)
(* numbers of panel states that have been published.                       *)
Me == {"page"}
FeedTyped ==
  /\ published \in Nat
  /\ status \in [Me -> {"new", "member", "gone"}]
  /\ lost \in [Me -> BOOLEAN]
  /\ owed \in [Me -> Seq(1 .. published)]
  /\ received \in [Me -> Seq(1 .. published)]

(* A sequence of the first numbers is one of more numbers.                 *)
LEMMA SeqWidened ==
  ASSUME NEW n \in Nat, NEW m \in Nat, n <= m, NEW s \in Seq(1 .. n)
  PROVE  s \in Seq(1 .. m)
  <1>1. \A i \in 1 .. Len(s) : s[i] \in 1 .. m
    <2>1. \A i \in 1 .. Len(s) : s[i] \in 1 .. n
      BY ElementOfSeq
    <2>. QED  BY <2>1
  <1>. QED  BY <1>1, SeqDef

(* Every step of the feed adds to what was received.                       *)
Kept == /\ Len(received["page"]) <= Len(received'["page"])
        /\ \A i \in 1 .. Len(received["page"]) :
             received'["page"][i] = received["page"][i]

(* One more panel state is published.                                      *)
LEMMA FeedPublishes ==
  ASSUME FeedTyped, Feed!Publish
  PROVE  FeedTyped' /\ Kept /\ published' = published + 1
  <1>1. published' = published + 1 /\ published' \in Nat /\ published \in Nat
    BY DEF FeedTyped, Feed!Publish
  <1>2. \A s \in Seq(1 .. published) :
          /\ s \in Seq(1 .. published')
          /\ Append(s, published') \in Seq(1 .. published')
    <2>. TAKE s \in Seq(1 .. published)
    <2>1. s \in Seq(1 .. published')
      BY <1>1, SeqWidened
    <2>2. published' \in 1 .. published'
      BY <1>1
    <2>. QED  BY <2>1, <2>2, AppendProperties
  <1>3. owed' \in [Me -> Seq(1 .. published')]
    <2>1. \A c \in Me : owed[c] \in Seq(1 .. published)
      BY DEF FeedTyped
    <2>2. owed' = [c \in Me |->
                     IF status[c] = "member" /\ ~lost[c]
                     THEN Append(owed[c], published') ELSE owed[c]]
      BY DEF Feed!Publish, Me
    <2>. QED  BY <1>2, <2>1, <2>2
  <1>4. received' \in [Me -> Seq(1 .. published')]
    <2>1. received' = received /\ received \in [Me -> Seq(1 .. published)]
      BY DEF FeedTyped, Feed!Publish
    <2>2. \A c \in Me : received[c] \in Seq(1 .. published')
      BY <1>2, <2>1
    <2>. QED  BY <2>1, <2>2
  <1>5. Kept
    <2>1. received'["page"] = received["page"]
          /\ Len(received["page"]) \in Nat
      BY DEF FeedTyped, Feed!Publish, Me
    <2>. QED  BY <2>1 DEF Kept
  <1>6. status' = status /\ lost' = lost
    BY DEF Feed!Publish
  <1>. QED  BY <1>1, <1>3, <1>4, <1>5, <1>6 DEF FeedTyped

(* The steps of the page's connection.                                     *)
LEMMA FeedServes ==
  ASSUME FeedTyped,
         \/ Feed!Join("page") \/ Feed!Deliver("page")
         \/ Feed!Lose({"page"}) \/ Feed!Leave("page")
  PROVE  FeedTyped' /\ Kept /\ published' = published
  <1>0. /\ "page" \in Me /\ Len(received["page"]) \in Nat
        /\ owed["page"] \in Seq(1 .. published)
        /\ received["page"] \in Seq(1 .. published)
    BY DEF FeedTyped, Me
  <1>1. CASE Feed!Join("page")
    <2>1. received' = received
      BY <1>1 DEF Feed!Join
    <2>2. Kept
      BY <1>0, <2>1 DEF Kept
    <2>3. status' \in [Me -> {"new", "member", "gone"}]
      BY <1>1 DEF Feed!Join, FeedTyped
    <2>. QED  BY <1>1, <2>2, <2>3 DEF Feed!Join, FeedTyped
  <1>2. CASE Feed!Deliver("page")
    <2>1. PICK k \in 1 .. Len(owed["page"]) :
            /\ received' = [received EXCEPT !["page"] =
                              @ \o SubSeq(owed["page"], 1, k)]
            /\ owed' = [owed EXCEPT !["page"] = SubSeq(@, k + 1, Len(@))]
      BY <1>2 DEF Feed!Deliver
    <2>2. published' = published /\ status' = status /\ lost' = lost
      BY <1>2 DEF Feed!Deliver
    <2>. DEFINE o == owed["page"]
                r == received["page"]
                out == SubSeq(o, 1, k)
                rest == SubSeq(o, k + 1, Len(o))
    <2>3. Len(o) \in Nat /\ k \in Nat /\ 1 <= k /\ k <= Len(o)
      BY <1>0, <2>1, LenProperties
    <2>4. out \in Seq(1 .. published) /\ rest \in Seq(1 .. published)
      <3>1. \A i \in 1 .. Len(o) : o[i] \in 1 .. published
        BY <1>0, ElementOfSeq
      <3>2. /\ \A i \in 1 .. k : o[i] \in 1 .. published
            /\ \A i \in (k + 1) .. Len(o) : o[i] \in 1 .. published
        BY <2>3, <3>1
      <3>3. 1 \in Int /\ k \in Int /\ k + 1 \in Int /\ Len(o) \in Int
        BY <2>3
      <3>. HIDE DEF o
      <3>. QED  BY <3>2, <3>3, SubSeqProperties
    <2>5. /\ r \o out \in Seq(1 .. published)
          /\ Len(r \o out) = Len(r) + Len(out)
          /\ \A i \in 1 .. Len(r) : (r \o out)[i] = r[i]
      <3>1. r \in Seq(1 .. published) /\ Len(r) \in Nat /\ Len(out) \in Nat
        BY <1>0, <2>4, LenProperties
      <3>. HIDE DEF r, out
      <3>. QED  BY <2>4, <3>1, ConcatProperties
    <2>6. received'["page"] = r \o out
      BY <1>0, <2>1 DEF FeedTyped
    <2>7. received' \in [Me -> Seq(1 .. published)]
      <3>. HIDE DEF r, out
      <3>. QED  BY <2>1, <2>5 DEF FeedTyped, r, out
    <2>8. owed' \in [Me -> Seq(1 .. published)]
      BY <2>1, <2>4 DEF FeedTyped
    <2>9. Kept
      <3>1. Len(r) \in Nat /\ Len(out) \in Nat
        BY <1>0, <2>4, LenProperties
      <3>. HIDE DEF r, out
      <3>. QED  BY <2>5, <2>6, <3>1 DEF Kept, r
    <2>. QED  BY <2>2, <2>7, <2>8, <2>9 DEF FeedTyped
  <1>3. CASE Feed!Lose({"page"}) \/ Feed!Leave("page")
    <2>1. received' = received /\ published' = published
      BY <1>3 DEF Feed!Lose, Feed!Leave
    <2>2. Kept
      BY <1>0, <2>1 DEF Kept
    <2>3. status' \in [Me -> {"new", "member", "gone"}]
      BY <1>3 DEF Feed!Lose, Feed!Leave, FeedTyped
    <2>4. /\ lost' = [c \in Me |-> lost[c] \/ c \in {"page"}]
          /\ owed' = [c \in Me |-> IF c \in {"page"} THEN <<>> ELSE owed[c]]
      BY <1>3 DEF Feed!Lose, Feed!Leave, Feed!Abandon, Me
    <2>5. lost' \in [Me -> BOOLEAN]
      BY <2>4 DEF FeedTyped
    <2>6. owed' \in [Me -> Seq(1 .. published)]
      <3>1. <<>> \in Seq(1 .. published)
        BY EmptySeq
      <3>. QED  BY <2>4, <3>1 DEF FeedTyped
    <2>. QED  BY <2>1, <2>2, <2>3, <2>5, <2>6 DEF FeedTyped
  <1>. QED  BY <1>1, <1>2, <1>3

-----------------------------------------------------------------------------
(* The lamps of the status, page by page.                                  *)
Lit(members, json) == {m[1] : m \in {n \in members : Truthy(json, n[2])}}

(* The lamp of one member of the JSON.                                     *)
Lamp(n, m, json) == IF Truthy(json, m) THEN {n} ELSE {}

(* The status lamps that stand for members of the JSON, one at a time.     *)
LEMMA LitOne ==
  ASSUME NEW n, NEW m, NEW json
  PROVE  Lit({<<n, m>>}, json) = Lamp(n, m, json)
  <1>1. <<n, m>>[1] = n /\ <<n, m>>[2] = m
    OBVIOUS
  <1>. QED  BY <1>1 DEF Lit, Lamp

(* One more lamp.                                                          *)
LEMMA LitAdded ==
  ASSUME NEW S, NEW n, NEW m, NEW json
  PROVE  Lit(S \union {<<n, m>>}, json)
           = Lit(S, json) \union Lamp(n, m, json)
  <1>1. Lit(S \union {<<n, m>>}, json)
          = Lit(S, json) \union Lit({<<n, m>>}, json)
    BY DEF Lit
  <1>. QED  BY <1>1, LitOne

(* The lamps of a PDP-11's page.                                           *)
LEMMA PdpLit ==
  ASSUME NEW json, NEW x
  PROVE  x \in Lit(PdpStatus, json) <=>
           \/ x = 11 /\ Truthy(json, "parity_error")
           \/ x = 10 /\ Truthy(json, "address_error")
           \/ x = 6 /\ Truthy(json, "user")
           \/ x = 5 /\ Truthy(json, "super")
           \/ x = 4 /\ Truthy(json, "kernel")
           \/ x = 2 /\ Truthy(json, "addr16")
           \/ x = 1 /\ Truthy(json, "addr18")
           \/ x = 0 /\ Truthy(json, "addr22")
  <1>. DEFINE S1 == {<<11, "parity_error">>}
              S2 == S1 \union {<<10, "address_error">>}
              S3 == S2 \union {<<6, "user">>}
              S4 == S3 \union {<<5, "super">>}
              S5 == S4 \union {<<4, "kernel">>}
              S6 == S5 \union {<<2, "addr16">>}
              S7 == S6 \union {<<1, "addr18">>}
              S8 == S7 \union {<<0, "addr22">>}
  <1>1. PdpStatus = S8
    BY DEF PdpStatus, CommonStatus
  <1>2. \A S, n, m : Lit(S \union {<<n, m>>}, json)
                        = Lit(S, json) \union Lamp(n, m, json)
    <2>. TAKE S, n, m
    <2>. QED  BY LitAdded
  <1>3. Lit(S1, json) = Lamp(11, "parity_error", json)
    BY LitOne
  <1>4. Lit(S2, json) = Lit(S1, json) \union Lamp(10, "address_error", json)
    <2>. HIDE DEF S1
    <2>. QED  BY <1>2
  <1>5. Lit(S3, json) = Lit(S2, json) \union Lamp(6, "user", json)
    <2>. HIDE DEF S2
    <2>. QED  BY <1>2
  <1>6. Lit(S4, json) = Lit(S3, json) \union Lamp(5, "super", json)
    <2>. HIDE DEF S3
    <2>. QED  BY <1>2
  <1>7. Lit(S5, json) = Lit(S4, json) \union Lamp(4, "kernel", json)
    <2>. HIDE DEF S4
    <2>. QED  BY <1>2
  <1>8. Lit(S6, json) = Lit(S5, json) \union Lamp(2, "addr16", json)
    <2>. HIDE DEF S5
    <2>. QED  BY <1>2
  <1>9. Lit(S7, json) = Lit(S6, json) \union Lamp(1, "addr18", json)
    <2>. HIDE DEF S6
    <2>. QED  BY <1>2
  <1>10. Lit(S8, json) = Lit(S7, json) \union Lamp(0, "addr22", json)
    <2>. HIDE DEF S7
    <2>. QED  BY <1>2
  <1>11. Lit(S8, json) =
          Lamp(11, "parity_error", json)
          \union Lamp(10, "address_error", json)
          \union Lamp(6, "user", json)
          \union Lamp(5, "super", json)
          \union Lamp(4, "kernel", json)
          \union Lamp(2, "addr16", json)
          \union Lamp(1, "addr18", json)
          \union Lamp(0, "addr22", json)
    <2>. HIDE DEF S1, S2, S3, S4, S5, S6, S7, S8
    <2>. QED  BY <1>3, <1>4, <1>5, <1>6, <1>7, <1>8, <1>9, <1>10
  <1>12. \A n, m : x \in Lamp(n, m, json) <=> x = n /\ Truthy(json, m)
    BY DEF Lamp
  <1>. HIDE DEF S8
  <1>. QED  BY <1>1, <1>11, <1>12

(* The lamps of a VAX's page.                                              *)
LEMMA VaxLit ==
  ASSUME NEW json, NEW x
  PROVE  x \in Lit(VaxStatus, json) <=>
           \/ x = 11 /\ Truthy(json, "parity_error")
           \/ x = 10 /\ Truthy(json, "address_error")
           \/ x = 6 /\ Truthy(json, "user")
           \/ x = 5 /\ Truthy(json, "super")
           \/ x = 4 /\ Truthy(json, "kernel")
           \/ x = 2 /\ Truthy(json, "addr32")
           \/ x = 1 /\ Truthy(json, "addr64")
           \/ x = 0 /\ Truthy(json, "vax")
  <1>. DEFINE S1 == {<<11, "parity_error">>}
              S2 == S1 \union {<<10, "address_error">>}
              S3 == S2 \union {<<6, "user">>}
              S4 == S3 \union {<<5, "super">>}
              S5 == S4 \union {<<4, "kernel">>}
              S6 == S5 \union {<<2, "addr32">>}
              S7 == S6 \union {<<1, "addr64">>}
              S8 == S7 \union {<<0, "vax">>}
  <1>1. VaxStatus = S8
    BY DEF VaxStatus, CommonStatus
  <1>2. \A S, n, m : Lit(S \union {<<n, m>>}, json)
                        = Lit(S, json) \union Lamp(n, m, json)
    <2>. TAKE S, n, m
    <2>. QED  BY LitAdded
  <1>3. Lit(S1, json) = Lamp(11, "parity_error", json)
    BY LitOne
  <1>4. Lit(S2, json) = Lit(S1, json) \union Lamp(10, "address_error", json)
    <2>. HIDE DEF S1
    <2>. QED  BY <1>2
  <1>5. Lit(S3, json) = Lit(S2, json) \union Lamp(6, "user", json)
    <2>. HIDE DEF S2
    <2>. QED  BY <1>2
  <1>6. Lit(S4, json) = Lit(S3, json) \union Lamp(5, "super", json)
    <2>. HIDE DEF S3
    <2>. QED  BY <1>2
  <1>7. Lit(S5, json) = Lit(S4, json) \union Lamp(4, "kernel", json)
    <2>. HIDE DEF S4
    <2>. QED  BY <1>2
  <1>8. Lit(S6, json) = Lit(S5, json) \union Lamp(2, "addr32", json)
    <2>. HIDE DEF S5
    <2>. QED  BY <1>2
  <1>9. Lit(S7, json) = Lit(S6, json) \union Lamp(1, "addr64", json)
    <2>. HIDE DEF S6
    <2>. QED  BY <1>2
  <1>10. Lit(S8, json) = Lit(S7, json) \union Lamp(0, "vax", json)
    <2>. HIDE DEF S7
    <2>. QED  BY <1>2
  <1>11. Lit(S8, json) =
          Lamp(11, "parity_error", json)
          \union Lamp(10, "address_error", json)
          \union Lamp(6, "user", json)
          \union Lamp(5, "super", json)
          \union Lamp(4, "kernel", json)
          \union Lamp(2, "addr32", json)
          \union Lamp(1, "addr64", json)
          \union Lamp(0, "vax", json)
    <2>. HIDE DEF S1, S2, S3, S4, S5, S6, S7, S8
    <2>. QED  BY <1>3, <1>4, <1>5, <1>6, <1>7, <1>8, <1>9, <1>10
  <1>12. \A n, m : x \in Lamp(n, m, json) <=> x = n /\ Truthy(json, m)
    BY DEF Lamp
  <1>. HIDE DEF S8
  <1>. QED  BY <1>1, <1>11, <1>12

(* What the JSON of a PDP-11 says of the members the page asks for.        *)
LEMMA PdpTruth ==
  ASSUME NEW s
  PROVE  /\ Truthy(PdpJson(s), "parity_error") <=> AnyOf(4 .. 7, s.ps_mser)
         /\ Truthy(PdpJson(s), "address_error")
              <=> AnyOf({5, 6}, s.ps_cpu_err)
         /\ ~Truthy(PdpJson(s), "user") /\ ~Truthy(PdpJson(s), "super")
         /\ ~Truthy(PdpJson(s), "kernel")
         /\ Truthy(PdpJson(s), "addr22") <=> 4 \in s.ps_mmr3
         /\ Truthy(PdpJson(s), "addr18")
              <=> 0 \in s.ps_mmr0 /\ 4 \notin s.ps_mmr3
         /\ Truthy(PdpJson(s), "addr16")
              <=> 0 \notin s.ps_mmr0 /\ 4 \notin s.ps_mmr3
         /\ PdpJson(s).data = s.ps_data
         /\ PdpJson(s).address = s.ps_address \intersect (0 .. 21)
         /\ PdpJson(s) # Null
  <1>1. DOMAIN PdpJson(s) =
          {"address", "data", "parity_error", "address_error", "user_mode",
           "super_mode", "kernel_mode", "addr16", "addr18", "addr22"}
    BY DEF PdpJson
  <1>2. PdpJson(s)["parity_error"] = AnyOf(4 .. 7, s.ps_mser)
    BY DEF PdpJson
  <1>3. PdpJson(s)["address_error"] = AnyOf({5, 6}, s.ps_cpu_err)
    BY DEF PdpJson
  <1>4. PdpJson(s)["addr22"] = (4 \in s.ps_mmr3)
    BY DEF PdpJson
  <1>5. PdpJson(s)["addr18"] = (0 \in s.ps_mmr0 /\ ~(4 \in s.ps_mmr3))
    BY DEF PdpJson
  <1>6. PdpJson(s)["addr16"] =
          ~((0 \in s.ps_mmr0 /\ ~(4 \in s.ps_mmr3)) \/ 4 \in s.ps_mmr3)
    BY DEF PdpJson
  <1>7. /\ PdpJson(s).data = s.ps_data
        /\ PdpJson(s).address = s.ps_address \intersect (0 .. 21)
    BY DEF PdpJson
  <1>8. PdpJson(s) # Null
    <2>1. DOMAIN Null = {"null"}
      BY DEF Null
    <2>. QED  BY <1>1, <2>1
  <1>. QED  BY <1>1, <1>2, <1>3, <1>4, <1>5, <1>6, <1>7, <1>8 DEF Truthy

(* The JSON of a VAX has none of the members the page asks for.            *)
LEMMA VaxTruth ==
  ASSUME NEW s, NEW member, member \notin {"address", "data"}
  PROVE  /\ ~Truthy(VaxJson(s), member)
         /\ VaxJson(s).data = s.ps_data
         /\ VaxJson(s).address = s.ps_address
         /\ VaxJson(s) # Null
  <1>1. DOMAIN VaxJson(s) = {"address", "data"}
    BY DEF VaxJson
  <1>2. DOMAIN Null = {"null"}
    BY DEF Null
  <1>. QED  BY <1>1, <1>2 DEF Truthy, VaxJson

(* The status lamps of a page that was sent `before' and then `now'.       *)
DataLamp(old, json) ==
  IF old = Null \/ old.data # json.data THEN {3} ELSE {}

(* What StatusOf works out from two messages is what is meant by the panel *)
(* states that they carried.                                               *)
LEMMA StatusShown ==
  ASSUME HasLampTest(page), NEW now \in PanelState(page),
         NEW before \in PanelState(page) \union {Null},
         NEW old, NEW b,
         old = IF before = Null THEN Null
               ELSE udp_packet_to_json(page, before)
  PROVE  AlwaysOn \union
           StatusOf(page, [lampTest |-> b, old_state |-> old,
                           state |-> udp_packet_to_json(page, now)])
           = StatusMeant(now, before)
  <1>. DEFINE json == udp_packet_to_json(page, now)
              members == IF page = "pdproxy" THEN PdpStatus ELSE VaxStatus
              meantData == IF before = Null \/ now.ps_data # before.ps_data
                           THEN {3} ELSE {}
  <1>1. page = "pdproxy" \/ page = "netbsdvax"
    BY DEF HasLampTest
  <1>2. StatusOf(page, [lampTest |-> b, old_state |-> old, state |-> json])
          = {9, 7} \union Lit(members, json) \union DataLamp(old, json)
    BY DEF StatusOf, Lit, DataLamp
  <1>3. /\ \A s : udp_packet_to_json(page, s).data = s.ps_data
        /\ \A s : udp_packet_to_json(page, s) # Null
    <2>1. CASE page = "pdproxy"
      <3>1. \A s : udp_packet_to_json(page, s) = PdpJson(s)
        BY <2>1 DEF udp_packet_to_json
      <3>. QED  BY <3>1, PdpTruth
    <2>2. CASE page = "netbsdvax"
      <3>1. \A s : udp_packet_to_json(page, s) = VaxJson(s)
        BY <2>2 DEF udp_packet_to_json
      <3>2. "user" \notin {"address", "data"}
        OBVIOUS
      <3>. QED  BY <3>1, <3>2, VaxTruth
    <2>. QED  BY <1>1, <2>1, <2>2
  <1>4. DataLamp(old, json) = meantData
    BY <1>3 DEF DataLamp
  <1>5. CASE page = "pdproxy"
    <2>1. members = PdpStatus /\ json = PdpJson(now) /\ page # "netbsdvax"
      BY <1>5 DEF udp_packet_to_json
    <2>2. \A x : x \in Lit(PdpStatus, PdpJson(now)) <=>
            \/ x = 11 /\ AnyOf(4 .. 7, now.ps_mser)
            \/ x = 10 /\ AnyOf({5, 6}, now.ps_cpu_err)
            \/ x = 2 /\ 0 \notin now.ps_mmr0 /\ 4 \notin now.ps_mmr3
            \/ x = 1 /\ 0 \in now.ps_mmr0 /\ 4 \notin now.ps_mmr3
            \/ x = 0 /\ 4 \in now.ps_mmr3
      BY PdpLit, PdpTruth
    <2>3. /\ AnyOf(4 .. 7, now.ps_mser)
               <=> now.ps_mser \intersect (4 .. 7) # {}
          /\ AnyOf({5, 6}, now.ps_cpu_err)
               <=> now.ps_cpu_err \intersect {5, 6} # {}
      BY DEF AnyOf
    <2>4. StatusMeant(now, before) =
            {9, 7} \union AlwaysOn \union meantData
            \union ((IF now.ps_mser \intersect (4 .. 7) = {} THEN {} ELSE {11})
                    \union (IF now.ps_cpu_err \intersect {5, 6} = {} THEN {}
                            ELSE {10})
                    \union (IF 4 \in now.ps_mmr3 THEN {0}
                            ELSE IF 0 \in now.ps_mmr0 THEN {1} ELSE {2}))
      BY <2>1 DEF StatusMeant
    <2>5. Lit(PdpStatus, PdpJson(now)) =
            (IF now.ps_mser \intersect (4 .. 7) = {} THEN {} ELSE {11})
            \union (IF now.ps_cpu_err \intersect {5, 6} = {} THEN {}
                    ELSE {10})
            \union (IF 4 \in now.ps_mmr3 THEN {0}
                    ELSE IF 0 \in now.ps_mmr0 THEN {1} ELSE {2})
      BY <2>2, <2>3
    <2>6. AlwaysOn \union ({9, 7} \union Lit(members, json)
                           \union DataLamp(old, json))
            = {9, 7} \union AlwaysOn \union meantData
              \union Lit(PdpStatus, PdpJson(now))
      <3>. HIDE DEF members, json, meantData
      <3>. QED  BY <1>4, <2>1
    <2>. QED  BY <1>2, <2>4, <2>5, <2>6
  <1>6. CASE page = "netbsdvax"
    <2>1. members = VaxStatus /\ json = VaxJson(now) /\ page = "netbsdvax"
      BY <1>6 DEF udp_packet_to_json
    <2>2. Lit(VaxStatus, VaxJson(now)) = {}
      <3>1. \A x : x \notin Lit(VaxStatus, VaxJson(now))
        BY VaxLit, VaxTruth
      <3>. QED  BY <3>1
    <2>3. StatusMeant(now, before) =
            {9, 7} \union AlwaysOn \union meantData \union {}
      BY <2>1 DEF StatusMeant
    <2>4. AlwaysOn \union ({9, 7} \union Lit(members, json)
                           \union DataLamp(old, json))
            = {9, 7} \union AlwaysOn \union meantData \union {}
      <3>. HIDE DEF members, json, meantData
      <3>. QED  BY <1>4, <2>1, <2>2
    <2>. QED  BY <1>2, <2>3, <2>4
  <1>. QED  BY <1>1, <1>5, <1>6

-----------------------------------------------------------------------------
(* The message that carried the i-th panel state the page received.        *)
Got(i) == IF i < 1 THEN Null ELSE udp_packet_to_json(page, Shown(i))

ShownPanel(b) ==
  IF HasLampTest(page) THEN LampPanel(b, Got(handled - 1), Got(handled))
  ELSE RegisterPanel(Got(handled - 1), Got(handled))

(* What the label says in each state of the connection; the interval that  *)
(* writes to it runs only while the connection is open.                    *)
LabelInv ==
  /\ readyState \in {"fetching", "connecting", "failed", "open", "closed"}
  /\ readyState \in {"fetching", "connecting", "failed"}
       => js.label.text = "Connecting..."
  /\ readyState = "open" => js.label.text \in Live \union {"Connected"}
  /\ readyState = "closed" => js.label.text = "Disconnected"
  /\ js.statusInterval => readyState = "open"

(* The script's record is that of the two panel states it was sent last,   *)
(* by whatever way it came about.                                          *)
PanelInv == \E b \in BOOLEAN : js.panel = ShownPanel(b)

MachineInv ==
  /\ page \in DOMAIN States
  /\ machine \in Seq(PanelState(page)) /\ Len(machine) = published
  /\ handled \in 0 .. Len(received["page"])

PageInv == /\ FeedTyped /\ MachineInv
           /\ Idle(js) /\ LabelInv /\ PanelInv

(* What has been received is the number of a state that was published.     *)
LEMMA ShownTyped ==
  ASSUME FeedTyped, MachineInv, NEW i \in Int,
         1 <= i, i <= Len(received["page"])
  PROVE  /\ received["page"][i] \in 1 .. published
         /\ Shown(i) \in PanelState(page)
         /\ Shown(i) = machine[received["page"][i]]
  <1>1. received["page"] \in Seq(1 .. published)
    BY DEF FeedTyped, Me
  <1>2. i \in 1 .. Len(received["page"])
    OBVIOUS
  <1>3. received["page"][i] \in 1 .. published
    BY <1>1, <1>2, ElementOfSeq
  <1>4. machine[received["page"][i]] \in PanelState(page)
    BY <1>3, ElementOfSeq DEF MachineInv
  <1>5. ~(i < 1)
    OBVIOUS
  <1>. QED  BY <1>3, <1>4, <1>5 DEF Shown

(* The page without a lamp test is the amd64's.                            *)
LEMMA PagesKnown ==
  ASSUME PageAssumption, MachineInv
  PROVE  /\ page \in {"pdproxy", "netbsdvax", "amd64proxy"}
         /\ ~HasLampTest(page) <=> page = "amd64proxy"
  BY DEF PageAssumption, MachineInv, HasLampTest

(* No panel state, and no JSON of one, is null.                            *)
LEMMA StatesAreNotNull ==
  ASSUME PageAssumption, MachineInv, NEW s \in PanelState(page)
  PROVE  /\ s # Null
         /\ udp_packet_to_json(page, s) # Null
         /\ page = "amd64proxy" => /\ udp_packet_to_json(page, s) = s
                                   /\ s \in Amd64State
  <1>1. CASE page = "pdproxy"
    <2>1. s \in PdpState /\ udp_packet_to_json(page, s) = PdpJson(s)
      BY <1>1 DEF PanelState, udp_packet_to_json
    <2>2. "ps_data" \in DOMAIN s
      BY <2>1 DEF PdpState
    <2>3. "ps_data" \notin DOMAIN Null
      BY DEF Null
    <2>. QED  BY <1>1, <2>1, <2>2, <2>3, PdpTruth
  <1>2. CASE page = "netbsdvax"
    <2>1. s \in VaxState /\ udp_packet_to_json(page, s) = VaxJson(s)
      BY <1>2 DEF PanelState, udp_packet_to_json
    <2>2. "ps_data" \in DOMAIN s
      BY <2>1 DEF VaxState
    <2>3. "ps_data" \notin DOMAIN Null
      BY DEF Null
    <2>4. "user" \notin {"address", "data"}
      OBVIOUS
    <2>. QED  BY <1>2, <2>1, <2>2, <2>3, <2>4, VaxTruth
  <1>3. CASE page = "amd64proxy"
    <2>1. s \in Amd64State /\ udp_packet_to_json(page, s) = Amd64Json(s)
      BY <1>3 DEF PanelState, udp_packet_to_json
    <2>2. Amd64Json(s) = s
      BY <2>1 DEF Amd64Json, Amd64State
    <2>3. DOMAIN s = Registers /\ "rax" \in Registers
      BY <2>1 DEF Amd64State, Registers
    <2>4. "rax" \notin DOMAIN Null
      BY DEF Null
    <2>. QED  BY <2>1, <2>2, <2>3, <2>4
  <1>. QED  BY <1>1, <1>2, <1>3, PagesKnown

(* No more has been handled than was received.                             *)
LEMMA HandledRange ==
  ASSUME FeedTyped, MachineInv
  PROVE  /\ handled \in Nat /\ Len(received["page"]) \in Nat
         /\ handled <= Len(received["page"])
  <1>1. Len(received["page"]) \in Nat
    BY LenProperties DEF FeedTyped, Me
  <1>. QED  BY <1>1 DEF MachineInv

(* For the pages with lamps for an address, data and the status.           *)
LEMMA LampsMeant ==
  ASSUME PageAssumption, FeedTyped, MachineInv, HasLampTest(page),
         NEW b \in BOOLEAN,
         js.panel = LampPanel(b, Got(handled - 1), Got(handled))
  PROVE  js.panel.lit = LitMeant
  <1>. DEFINE now == Shown(handled)
              before == Shown(handled - 1)
              old == Got(handled - 1)
              json == Got(handled)
              rec == [lampTest |-> b, old_state |-> old, state |-> json]
              dark == [address |-> {}, display |-> {}, status |-> AlwaysOn]
              meant == [address |-> now.ps_address
                                      \intersect initPanel(page).address,
                        display |-> now.ps_data,
                        status  |-> StatusMeant(now, before)]
  <1>1. js.panel.lit = Lights(page, rec) /\ js.panel.lampTest = b
    BY DEF LampPanel, Masks
  <1>2. handled \in Nat /\ handled <= Len(received["page"])
    BY HandledRange
  <1>3. page # "amd64proxy"
        /\ (page = "pdproxy" \/ page = "netbsdvax")
    BY DEF HasLampTest
  <1>4. LitMeant = IF b THEN initPanel(page)
                   ELSE IF now = Null THEN dark ELSE meant
    <2>1. CASE b
      BY <1>1, <1>3, <2>1 DEF LitMeant
    <2>2. CASE ~b
      <3>. HIDE DEF meant, dark
      <3>. QED  BY <1>1, <1>3, <2>2 DEF LitMeant, meant, dark
    <2>. QED  BY <2>1, <2>2
  <1>5. CASE b
    <2>1. Lights(page, rec) = initPanel(page)
      BY <1>5 DEF Lights
    <2>. QED  BY <1>1, <1>4, <1>5, <2>1
  <1>6. CASE ~b /\ handled = 0
    <2>1. now = Null /\ json = Null
      BY <1>6 DEF Shown, Got
    <2>2. Lights(page, rec) = dark
      BY <1>6, <2>1 DEF Lights
    <2>. QED  BY <1>1, <1>4, <1>6, <2>1, <2>2
  <1>7. CASE ~b /\ handled # 0
    <2>1. now \in PanelState(page) /\ now # Null
          /\ json = udp_packet_to_json(page, now) /\ json # Null
      <3>1. 1 <= handled /\ handled \in Int /\ ~(handled < 1)
        BY <1>2, <1>7
      <3>2. now \in PanelState(page)
        BY <1>2, <3>1, ShownTyped
      <3>3. json = udp_packet_to_json(page, now)
        BY <3>1 DEF Got
      <3>. HIDE DEF now, json
      <3>. QED  BY <3>2, <3>3, StatesAreNotNull
    <2>2. /\ before \in PanelState(page) \union {Null}
          /\ old = IF before = Null THEN Null
                   ELSE udp_packet_to_json(page, before)
      <3>1. CASE handled - 1 < 1
        BY <3>1 DEF Shown, Got
      <3>2. CASE ~(handled - 1 < 1)
        <4>1. 1 <= handled - 1 /\ handled - 1 <= Len(received["page"])
              /\ handled - 1 \in Int
          <5>1. Len(received["page"]) \in Nat
            BY HandledRange
          <5>. QED  BY <1>2, <3>2, <5>1
        <4>2. before \in PanelState(page)
          BY <4>1, ShownTyped
        <4>3. before # Null
          BY <4>2, StatesAreNotNull
        <4>4. old = udp_packet_to_json(page, before)
          BY <3>2 DEF Got
        <4>. HIDE DEF before, old
        <4>. QED  BY <4>2, <4>3, <4>4
      <3>. QED  BY <3>1, <3>2
    <2>3. Lights(page, rec) =
            [address |-> json.address \intersect initPanel(page).address,
             display |-> json.data \intersect initPanel(page).display,
             status  |-> AlwaysOn \union StatusOf(page, rec)]
      <3>1. ~rec.lampTest /\ rec.state = json
        BY <1>7
      <3>. HIDE DEF rec, json
      <3>. QED  BY <2>1, <3>1 DEF Lights
    <2>4. AlwaysOn \union StatusOf(page, rec) = StatusMeant(now, before)
      <3>1. AlwaysOn \union
              StatusOf(page, [lampTest |-> b, old_state |-> old,
                              state |-> udp_packet_to_json(page, now)])
              = StatusMeant(now, before)
        <4>. HIDE DEF now, before, old
        <4>. QED  BY <2>1, <2>2, StatusShown
      <3>. HIDE DEF now, json
      <3>. QED  BY <2>1, <3>1
    <2>5. /\ json.address \intersect initPanel(page).address
               = now.ps_address \intersect initPanel(page).address
          /\ json.data \intersect initPanel(page).display = now.ps_data
      <3>1. CASE page = "pdproxy"
        <4>1. now \in PdpState /\ json = PdpJson(now)
              /\ initPanel(page) = PdpPanel
          <5>. HIDE DEF now, json
          <5>. QED  BY <2>1, <3>1 DEF PanelState, udp_packet_to_json, initPanel
        <4>2. now.ps_data \subseteq 0 .. 15
          <5>. HIDE DEF now
          <5>. QED  BY <4>1 DEF PdpState
        <4>3. json.data = now.ps_data
              /\ json.address = now.ps_address \intersect (0 .. 21)
          <5>. HIDE DEF now, json
          <5>. QED  BY <4>1, PdpTruth
        <4>4. initPanel(page).address = 0 .. 21
              /\ initPanel(page).display = 0 .. 15
          BY <3>1 DEF initPanel, PdpPanel
        <4>. HIDE DEF now, json
        <4>. QED  BY <4>2, <4>3, <4>4
      <3>2. CASE page = "netbsdvax"
        <4>1. now \in VaxState /\ json = VaxJson(now)
          <5>. HIDE DEF now, json
          <5>. QED  BY <2>1, <3>2 DEF PanelState, udp_packet_to_json
        <4>2. now.ps_data \subseteq 0 .. 31
          <5>. HIDE DEF now
          <5>. QED  BY <4>1 DEF VaxState
        <4>3. json.data = now.ps_data /\ json.address = now.ps_address
          <5>1. "user" \notin {"address", "data"}
            OBVIOUS
          <5>. HIDE DEF now, json
          <5>. QED  BY <4>1, <5>1, VaxTruth
        <4>4. initPanel(page).display = 0 .. 31
          BY <3>2 DEF initPanel, VaxPanel
        <4>. HIDE DEF now, json
        <4>. QED  BY <4>2, <4>3, <4>4
      <3>. QED  BY <1>3, <3>1, <3>2
    <2>6. Lights(page, rec) = meant
      <3>. HIDE DEF now, before, json, rec
      <3>. QED  BY <2>3, <2>4, <2>5
    <2>. HIDE DEF now, meant, rec, dark
    <2>. QED  BY <1>1, <1>4, <1>7, <2>1, <2>6
  <1>. QED  BY <1>2, <1>5, <1>6, <1>7

(* For the page with an amd64's registers.                                 *)
LEMMA RegistersMeant ==
  ASSUME PageAssumption, FeedTyped, MachineInv, page = "amd64proxy",
         js.panel = RegisterPanel(Got(handled - 1), Got(handled))
  PROVE  js.panel.lit = LitMeant /\ js.panel.text = js.panel.lit
  <1>. DEFINE now == Shown(handled)
              json == Got(handled)
              dark == [r \in Registers |-> {}]
  <1>1. js.panel.lit = Values(json) /\ js.panel.text = Values(json)
    BY DEF RegisterPanel
  <1>2. LitMeant = IF now = Null THEN dark ELSE [r \in Registers |-> now[r]]
    BY DEF LitMeant
  <1>3. handled \in Nat /\ handled <= Len(received["page"])
    BY HandledRange
  <1>4. CASE handled = 0
    <2>1. now = Null /\ json = Null
      BY <1>4 DEF Shown, Got
    <2>. QED  BY <1>1, <1>2, <2>1 DEF Values
  <1>5. CASE handled # 0
    <2>1. 1 <= handled /\ handled \in Int /\ ~(handled < 1)
      BY <1>3, <1>5
    <2>2. now \in PanelState(page)
      BY <1>3, <2>1, ShownTyped
    <2>3. json = udp_packet_to_json(page, now)
      BY <2>1 DEF Got
    <2>4. now # Null /\ json = now /\ json \in Amd64State
      <3>. HIDE DEF now, json
      <3>. QED  BY <2>2, <2>3, StatesAreNotNull
    <2>5. now = [r \in Registers |-> now[r]]
      <3>. HIDE DEF now, json
      <3>. QED  BY <2>4 DEF Amd64State
    <2>. HIDE DEF now, json
    <2>. QED  BY <1>1, <1>2, <2>4, <2>5 DEF Values
  <1>. QED  BY <1>4, <1>5

(* The invariant is strong enough.                                         *)
LEMMA PageInvImplies ==
  ASSUME PageAssumption, PageInv
  PROVE  LampsFollow /\ LabelTruthful
  <1>0. FeedTyped /\ MachineInv /\ PanelInv /\ LabelInv
    BY DEF PageInv
  <1>1. PICK b \in BOOLEAN : js.panel = ShownPanel(b)
    BY <1>0 DEF PanelInv
  <1>2. LampsFollow
    <2>1. CASE HasLampTest(page)
      <3>1. js.panel = LampPanel(b, Got(handled - 1), Got(handled))
        BY <1>1, <2>1 DEF ShownPanel
      <3>2. js.panel.lit = LitMeant
        BY <1>0, <2>1, <3>1, LampsMeant
      <3>3. page # "amd64proxy"
        BY <2>1 DEF HasLampTest
      <3>. QED  BY <3>2, <3>3 DEF LampsFollow, ButModes
    <2>2. CASE ~HasLampTest(page)
      <3>1. js.panel = RegisterPanel(Got(handled - 1), Got(handled))
        BY <1>1, <2>2 DEF ShownPanel
      <3>2. page = "amd64proxy"
        BY <1>0, <2>2, PagesKnown
      <3>3. js.panel.lit = LitMeant /\ js.panel.text = js.panel.lit
        BY <1>0, <3>1, <3>2, RegistersMeant
      <3>. QED  BY <3>3 DEF LampsFollow, ButModes
    <2>. QED  BY <2>1, <2>2
  <1>3. LabelTruthful
    BY <1>0 DEF LabelInv, LabelTruthful, Live
  <1>. QED  BY <1>2, <1>3

-----------------------------------------------------------------------------
(* What a page was sent does not change as the feed goes on.               *)
SameMachine ==
  /\ page' = page
  /\ \A n \in 1 .. published : machine'[n] = machine[n]

(* A message once received stays what it was.                              *)
LEMMA GotKept ==
  ASSUME FeedTyped, MachineInv, Kept, SameMachine, NEW i \in Int,
         i <= Len(received["page"])
  PROVE  Got(i)' = Got(i)
  <1>1. CASE i < 1
    BY <1>1 DEF Got
  <1>2. CASE ~(i < 1)
    <2>1. 1 <= i /\ i \in 1 .. Len(received["page"])
      BY <1>2, LenProperties DEF FeedTyped, Me
    <2>2. received["page"][i] \in 1 .. published
      BY <2>1, ShownTyped
    <2>3. received'["page"][i] = received["page"][i]
      BY <2>1 DEF Kept
    <2>4. machine'[received'["page"][i]] = machine[received["page"][i]]
      BY <2>2, <2>3 DEF SameMachine
    <2>5. Shown(i)' = Shown(i)
      BY <1>2, <2>4 DEF Shown
    <2>6. page' = page
      BY DEF SameMachine
    <2>7. /\ Got(i) = udp_packet_to_json(page, Shown(i))
          /\ Got(i)' = udp_packet_to_json(page, Shown(i))'
      BY <1>2 DEF Got
    <2>8. udp_packet_to_json(page, Shown(i))'
            = udp_packet_to_json(page, Shown(i))
      BY <2>5, <2>6 DEF udp_packet_to_json
    <2>. QED  BY <2>7, <2>8
  <1>. QED  BY <1>1, <1>2

(* So the panel record that belongs to what was handled stays the same.    *)
LEMMA ShownKept ==
  ASSUME FeedTyped, MachineInv, Kept, SameMachine, handled' = handled,
         NEW b \in BOOLEAN
  PROVE  ShownPanel(b)' = ShownPanel(b)
  <1>1. handled \in Nat /\ handled <= Len(received["page"])
        /\ Len(received["page"]) \in Nat
    BY HandledRange
  <1>2. Got(handled)' = Got(handled) /\ Got(handled - 1)' = Got(handled - 1)
    <2>1. PICK h \in Nat : h = handled
      BY <1>1
    <2>2. h <= Len(received["page"]) /\ h - 1 <= Len(received["page"])
          /\ h \in Int /\ h - 1 \in Int
      BY <1>1, <2>1
    <2>3. Got(h)' = Got(h)
      BY <2>2, GotKept
    <2>4. Got(h - 1)' = Got(h - 1)
      BY <2>2, GotKept
    <2>5. handled' = h
      BY <2>1
    <2>. QED  BY <2>1, <2>3, <2>4, <2>5 DEF Got, Shown
  <1>3. page' = page
    BY DEF SameMachine
  <1>4. HasLampTest(page)' <=> HasLampTest(page)
    BY <1>3 DEF HasLampTest
  <1>5. LampPanel(b, Got(handled - 1), Got(handled))'
          = LampPanel(b, Got(handled - 1), Got(handled))
    BY <1>2, <1>3 DEF LampPanel, Masks, Lights, StatusOf, initPanel
  <1>6. RegisterPanel(Got(handled - 1), Got(handled))'
          = RegisterPanel(Got(handled - 1), Got(handled))
    BY <1>2 DEF RegisterPanel, Values
  <1>. QED  BY <1>4, <1>5, <1>6 DEF ShownPanel

(* So does the invariant that the script's record is that one.             *)
LEMMA PanelKept ==
  ASSUME FeedTyped, MachineInv, PanelInv, Kept, SameMachine,
         handled' = handled, js'.panel = js.panel
  PROVE  PanelInv'
  <1>1. PICK b \in BOOLEAN : js.panel = ShownPanel(b)
    BY DEF PanelInv
  <1>2. ShownPanel(b)' = ShownPanel(b)
    BY ShownKept
  <1>. QED  BY <1>1, <1>2 DEF PanelInv

(* A step that leaves the feed and the machine alone.                      *)
LEMMA StillKept ==
  ASSUME FeedTyped, UNCHANGED <<feedVars, page, machine>>
  PROVE  /\ FeedTyped' /\ Kept /\ SameMachine
         /\ received' = received /\ published' = published
  <1>1. /\ published' = published /\ status' = status /\ lost' = lost
        /\ owed' = owed /\ received' = received
        /\ page' = page /\ machine' = machine
    BY DEF feedVars
  <1>2. Len(received["page"]) \in Nat
    BY LenProperties DEF FeedTyped, Me
  <1>. QED  BY <1>1, <1>2 DEF FeedTyped, Kept, SameMachine

(* The invariant holds of a page that has just been loaded.                *)
LEMMA PageStarts ==
  ASSUME PageAssumption, Init
  PROVE  PageInv
  <1>1. FeedTyped
    <2>1. /\ published = 0 /\ status = [c \in Me |-> "new"]
          /\ lost = [c \in Me |-> FALSE]
          /\ owed = [c \in Me |-> <<>>] /\ received = [c \in Me |-> <<>>]
      BY DEF Init, Feed!Init, Me
    <2>2. <<>> \in Seq(1 .. published)
      BY EmptySeq
    <2>. QED  BY <2>1, <2>2 DEF FeedTyped
  <1>2. received["page"] = <<>> /\ published = 0 /\ machine = <<>>
        /\ handled = 0 /\ page \in DOMAIN States
    BY DEF Init, Feed!Init
  <1>3. MachineInv
    BY <1>2, EmptySeq DEF MachineInv
  <1>. DEFINE panel == initialize(page)
              label == Label("Connecting...")
  <1>4. /\ DOMAIN js = JsFields
        /\ js.msgQueue = <<>> /\ js.processing = FALSE
        /\ js.statusInterval = FALSE
        /\ js.label = label /\ js.panel = panel
    <2>1. js = [msgQueue |-> <<>>, processing |-> FALSE,
                lastMessageTime |-> FALSE, statusInterval |-> FALSE,
                fpsInterval |-> FALSE, frameCount |-> 0, fps |-> 0,
                label |-> label, panel |-> panel]
      BY DEF Init
    <2>. HIDE DEF label, panel
    <2>. QED  BY <2>1 DEF JsFields
  <1>5. Idle(js)
    BY <1>4 DEF Idle
  <1>6. LabelInv
    BY <1>4 DEF LabelInv, Init, Label
  <1>7. PanelInv
    <2>1. Got(handled) = Null /\ Got(handled - 1) = Null
      BY <1>2 DEF Got
    <2>2. CASE HasLampTest(page)
      <3>1. js.panel = LampPanel(FALSE, Null, Null)
        BY <1>4, <2>2, LampInit
      <3>2. js.panel = ShownPanel(FALSE)
        BY <2>1, <2>2, <3>1 DEF ShownPanel
      <3>. QED  BY <3>2 DEF PanelInv
    <2>3. CASE ~HasLampTest(page)
      <3>1. page = "amd64proxy"
        BY <1>3, <2>3, PagesKnown
      <3>2. js.panel = RegisterPanel(Null, Null)
        BY <1>4, <3>1, RegisterInit
      <3>3. js.panel = ShownPanel(FALSE)
        BY <2>1, <2>3, <3>2 DEF ShownPanel
      <3>. QED  BY <3>3 DEF PanelInv
    <2>. QED  BY <2>2, <2>3
  <1>. QED  BY <1>1, <1>3, <1>5, <1>6, <1>7 DEF PageInv

-----------------------------------------------------------------------------
(* The steps, one by one.  First those that touch no more than the feed.   *)
LEMMA PublishKeeps ==
  ASSUME PageAssumption, PageInv, Publish
  PROVE  PageInv'
  <1>0. FeedTyped /\ MachineInv /\ PanelInv /\ LabelInv /\ Idle(js)
    BY DEF PageInv
  <1>1. FeedTyped' /\ Kept /\ published' = published + 1
    BY <1>0, FeedPublishes DEF Publish
  <1>2. page' = page /\ handled' = handled /\ readyState' = readyState
        /\ js' = js
    BY DEF Publish
  <1>3. PICK state \in States[page] : machine' = Append(machine, state)
    BY DEF Publish
  <1>4. state \in PanelState(page)
    BY <1>0 DEF PageAssumption, MachineInv
  <1>5. /\ machine \in Seq(PanelState(page)) /\ Len(machine) = published
        /\ published \in Nat
    BY <1>0 DEF MachineInv, FeedTyped
  <1>6. /\ machine' \in Seq(PanelState(page))
        /\ Len(machine') = published + 1
        /\ \A n \in 1 .. published : machine'[n] = machine[n]
    BY <1>3, <1>4, <1>5, AppendProperties
  <1>7. SameMachine
    BY <1>2, <1>6 DEF SameMachine
  <1>8. handled \in 0 .. Len(received'["page"])
    <2>1. /\ handled \in Nat /\ handled <= Len(received["page"])
          /\ Len(received["page"]) \in Nat
      BY <1>0, HandledRange
    <2>2. Len(received'["page"]) \in Nat
      BY <1>1, LenProperties DEF FeedTyped, Me
    <2>3. Len(received["page"]) <= Len(received'["page"])
      BY <1>1 DEF Kept
    <2>. QED  BY <2>1, <2>2, <2>3
  <1>9. MachineInv'
    <2>1. PanelState(page') = PanelState(page)
      BY <1>2
    <2>. QED  BY <1>0, <1>1, <1>2, <1>6, <1>8, <2>1
             DEF MachineInv, PanelState
  <1>10. PanelInv'
    BY <1>0, <1>1, <1>2, <1>7, PanelKept
  <1>11. LabelInv' /\ Idle(js)'
    BY <1>0, <1>2 DEF LabelInv, Idle
  <1>. QED  BY <1>1, <1>9, <1>10, <1>11 DEF PageInv

(* The proxy and the network: the page may have more messages to handle.   *)
LEMMA ProxyKeeps ==
  ASSUME PageAssumption, PageInv, Proxy
  PROVE  PageInv'
  <1>0. FeedTyped /\ MachineInv /\ PanelInv /\ LabelInv /\ Idle(js)
    BY DEF PageInv
  <1>1. FeedTyped' /\ Kept /\ published' = published
    BY <1>0, FeedServes DEF Proxy
  <1>2. page' = page /\ handled' = handled /\ readyState' = readyState
        /\ js' = js /\ machine' = machine
    BY DEF Proxy
  <1>3. SameMachine
    BY <1>2 DEF SameMachine
  <1>4. handled \in 0 .. Len(received'["page"])
    <2>1. /\ handled \in Nat /\ handled <= Len(received["page"])
          /\ Len(received["page"]) \in Nat
      BY <1>0, HandledRange
    <2>2. Len(received'["page"]) \in Nat
      BY <1>1, LenProperties DEF FeedTyped, Me
    <2>3. Len(received["page"]) <= Len(received'["page"])
      BY <1>1 DEF Kept
    <2>. QED  BY <2>1, <2>2, <2>3
  <1>5. MachineInv'
    BY <1>0, <1>1, <1>2, <1>4 DEF MachineInv, PanelState
  <1>6. PanelInv'
    BY <1>0, <1>1, <1>2, <1>3, PanelKept
  <1>7. LabelInv' /\ Idle(js)'
    BY <1>0, <1>2 DEF LabelInv, Idle
  <1>. QED  BY <1>1, <1>5, <1>6, <1>7 DEF PageInv

(* The steps that neither bring a message nor change the panel.            *)
LEMMA QuietKeeps ==
  ASSUME PageAssumption, PageInv,
         UNCHANGED <<feedVars, page, machine, handled>>,
         Idle(js'), js'.panel = js.panel, LabelInv'
  PROVE  PageInv'
  <1>0. FeedTyped /\ MachineInv /\ PanelInv
    BY DEF PageInv
  <1>1. /\ FeedTyped' /\ Kept /\ SameMachine
        /\ received' = received /\ published' = published
    BY <1>0, StillKept
  <1>2. MachineInv'
    BY <1>0, <1>1 DEF MachineInv, PanelState
  <1>3. PanelInv'
    BY <1>0, <1>1, PanelKept
  <1>4. Idle(js)'
    BY DEF Idle
  <1>. QED  BY <1>1, <1>2, <1>3, <1>4 DEF PageInv

(* The callbacks that open and close the connection.                       *)
LEMMA ConnectionKeeps ==
  ASSUME PageAssumption, PageInv, Configure \/ Open \/ Close
  PROVE  PageInv'
  <1>0. LabelInv /\ Idle(js) /\ UNCHANGED <<feedVars, page, machine, handled>>
    BY DEF PageInv, Configure, Open, Close
  <1>1. CASE Configure
    <2>1. js' = js /\ readyState = "fetching"
          /\ readyState' \in {"connecting", "failed"}
      BY <1>1 DEF Configure
    <2>2. LabelInv'
      BY <1>0, <2>1 DEF LabelInv
    <2>. QED  BY <1>0, <2>1, <2>2, QuietKeeps
  <1>2. CASE Open
    <2>1. js' = onopen(js) /\ readyState' = "open"
      BY <1>2 DEF Open
    <2>2. Idle(js') /\ js'.panel = js.panel /\ js'.label.text = "Connected"
      BY <1>0, <2>1, Opened
    <2>3. LabelInv'
      BY <2>1, <2>2 DEF LabelInv
    <2>. QED  BY <1>0, <2>2, <2>3, QuietKeeps
  <1>3. CASE Close
    <2>1. readyState' = "closed"
          /\ (js' = onclose(onerror(js)) \/ js' = onclose(js))
      BY <1>3 DEF Close
    <2>2. /\ Idle(js') /\ js'.panel = js.panel
          /\ js'.label.text = "Disconnected" /\ js'.statusInterval = FALSE
      <3>1. Idle(onerror(js)) /\ onerror(js).panel = js.panel
        BY <1>0, Failed
      <3>. QED  BY <1>0, <2>1, <3>1, Closed
    <2>3. LabelInv'
      BY <2>1, <2>2 DEF LabelInv
    <2>. QED  BY <1>0, <2>2, <2>3, QuietKeeps
  <1>. QED  BY <1>1, <1>2, <1>3

(* The two intervals.                                                      *)
LEMMA TickKeeps ==
  ASSUME PageAssumption, PageInv, StatusTick \/ FpsTick
  PROVE  PageInv'
  <1>0. /\ LabelInv /\ Idle(js) /\ readyState' = readyState
        /\ UNCHANGED <<feedVars, page, machine, handled>>
    BY DEF PageInv, StatusTick, FpsTick
  <1>1. CASE StatusTick
    <2>1. js' = updateStatusLabel(js) /\ js.statusInterval
      BY <1>1 DEF StatusTick
    <2>2. readyState = "open"
      BY <1>0, <2>1 DEF LabelInv
    <2>3. /\ Idle(js') /\ js'.panel = js.panel
          /\ js'.label.text \in Live
      BY <1>0, <2>1, StatusLabelled DEF Idle
    <2>4. LabelInv'
      BY <1>0, <2>2, <2>3 DEF LabelInv
    <2>. QED  BY <1>0, <2>3, <2>4, QuietKeeps
  <1>2. CASE FpsTick
    <2>1. js' = countFps(js)
      BY <1>2 DEF FpsTick
    <2>2. /\ Idle(js') /\ js'.panel = js.panel /\ js'.label = js.label
          /\ js'.statusInterval = js.statusInterval
      BY <1>0, <2>1, Counted
    <2>3. LabelInv'
      BY <1>0, <2>2 DEF LabelInv
    <2>. QED  BY <1>0, <2>2, <2>3, QuietKeeps
  <1>. QED  BY <1>1, <1>2

(* The lamp test is switched on or off.                                    *)
LEMMA ClickKeeps ==
  ASSUME PageAssumption, PageInv, Click
  PROVE  PageInv'
  <1>0. FeedTyped /\ MachineInv /\ PanelInv /\ LabelInv /\ Idle(js)
    BY DEF PageInv
  <1>1. /\ HasLampTest(page) /\ readyState' = readyState /\ handled' = handled
        /\ UNCHANGED <<feedVars, page, machine>>
    BY DEF Click
  <1>2. PICK b \in BOOLEAN : js.panel = ShownPanel(b)
    BY <1>0 DEF PanelInv
  <1>. DEFINE panel == clickLampTest(page, js.panel)
  <1>3. panel = ShownPanel(~b)
    BY <1>1, <1>2, LampClick DEF ShownPanel
  <1>4. /\ Idle(js') /\ js'.panel = panel /\ js'.label = js.label
        /\ js'.statusInterval = js.statusInterval
    <2>1. js' = [js EXCEPT !.panel = panel]
      BY DEF Click
    <2>. HIDE DEF panel
    <2>. QED  BY <1>0, <2>1, Clicked
  <1>5. /\ FeedTyped' /\ Kept /\ SameMachine
        /\ received' = received /\ published' = published
    BY <1>0, <1>1, StillKept
  <1>6. PICK c \in BOOLEAN : c = ~b
    OBVIOUS
  <1>7. ShownPanel(c)' = ShownPanel(c)
    BY <1>0, <1>1, <1>5, ShownKept
  <1>8. PanelInv'
    BY <1>3, <1>4, <1>6, <1>7 DEF PanelInv
  <1>9. MachineInv'
    BY <1>0, <1>1, <1>5 DEF MachineInv, PanelState
  <1>10. LabelInv' /\ Idle(js)'
    BY <1>0, <1>1, <1>4 DEF LabelInv, Idle
  <1>. QED  BY <1>5, <1>8, <1>9, <1>10 DEF PageInv

(* A message: the panel's record is that of one state more.                *)
LEMMA MessageKeeps ==
  ASSUME PageAssumption, PageInv, Message
  PROVE  PageInv'
  <1>0. FeedTyped /\ MachineInv /\ PanelInv /\ LabelInv /\ Idle(js)
    BY DEF PageInv
  <1>1. /\ readyState = "open" /\ readyState' = "open"
        /\ handled < Len(received["page"]) /\ handled' = handled + 1
        /\ UNCHANGED <<feedVars, page, machine>>
    BY DEF Message
  <1>. DEFINE json == udp_packet_to_json(page,
                        machine[received["page"][handled']])
  <1>2. js' = onmessage(js, json)
    BY DEF Message
  <1>3. /\ Idle(js') /\ js'.label.text \in Live
        /\ js'.panel = handleMessage(page, js.panel, json)
        /\ js'.statusInterval = js.statusInterval
    <2>. HIDE DEF json
    <2>. QED  BY <1>0, <1>2, MessageHandled
  <1>4. PICK b \in BOOLEAN : js.panel = ShownPanel(b)
    BY <1>0 DEF PanelInv
  <1>5. /\ handled \in Nat /\ Len(received["page"]) \in Nat
    BY <1>0, HandledRange
  <1>6. PICK h \in Nat : h = handled
    BY <1>5
  <1>7. /\ 1 <= h + 1 /\ h + 1 <= Len(received["page"]) /\ h + 1 \in Int
        /\ ~(h + 1 < 1) /\ h \in Int /\ h <= Len(received["page"])
    BY <1>1, <1>5, <1>6
  <1>8. /\ Shown(h + 1) \in PanelState(page)
        /\ Shown(h + 1) = machine[received["page"][h + 1]]
    BY <1>0, <1>7, ShownTyped
  <1>9. Got(h + 1) = json
    <2>1. handled' = h + 1
      BY <1>1, <1>6
    <2>. QED  BY <1>7, <1>8, <2>1 DEF Got
  <1>10. /\ FeedTyped' /\ Kept /\ SameMachine
         /\ received' = received /\ published' = published
    BY <1>0, <1>1, StillKept
  <1>11. Got(h + 1)' = Got(h + 1) /\ Got(h)' = Got(h)
    BY <1>0, <1>7, <1>10, GotKept
  <1>12. js'.panel = IF HasLampTest(page) THEN LampPanel(b, Got(h), json)
                     ELSE RegisterPanel(Got(h), json)
    <2>. HIDE DEF json
    <2>1. CASE HasLampTest(page)
      <3>1. js.panel = LampPanel(b, Got(h - 1), Got(h))
        BY <1>4, <1>6, <2>1 DEF ShownPanel
      <3>. QED  BY <1>3, <2>1, <3>1, LampMessage
    <2>2. CASE ~HasLampTest(page)
      <3>1. js.panel = RegisterPanel(Got(h - 1), Got(h))
        BY <1>4, <1>6, <2>2 DEF ShownPanel
      <3>2. page = "amd64proxy"
        BY <1>0, <2>2, PagesKnown
      <3>3. json \in Amd64State
        BY <1>0, <1>7, <1>8, <1>9, <3>2, StatesAreNotNull DEF Got
      <3>4. Got(h) \in Amd64State \union {Null}
        <4>1. CASE h < 1
          BY <4>1 DEF Got
        <4>2. CASE ~(h < 1)
          <5>1. Shown(h) \in PanelState(page)
            BY <1>0, <1>7, <4>2, ShownTyped
          <5>. QED  BY <1>0, <3>2, <4>2, <5>1, StatesAreNotNull DEF Got
        <4>. QED  BY <4>1, <4>2
      <3>. QED  BY <1>3, <2>2, <3>1, <3>2, <3>3, <3>4, RegisterMessage
    <2>. QED  BY <2>1, <2>2
  <1>13. PanelInv'
    <2>. HIDE DEF json
    <2>1. /\ Got(handled)' = json /\ Got(handled - 1)' = Got(h)
      <3>1. handled' = h + 1 /\ h + 1 - 1 = h
        BY <1>1, <1>6
      <3>2. Got(handled)' = Got(h + 1)' /\ Got(handled - 1)' = Got(h)'
        BY <3>1 DEF Got, Shown
      <3>. QED  BY <1>9, <1>11, <3>2
    <2>2. page' = page
      BY <1>1
    <2>3. CASE HasLampTest(page)
      <3>1. ShownPanel(b)' = LampPanel(b, Got(handled - 1), Got(handled))'
        BY <2>2, <2>3 DEF ShownPanel, HasLampTest
      <3>2. LampPanel(b, Got(handled - 1), Got(handled))'
              = LampPanel(b, Got(h), json)
        BY <2>1, <2>2 DEF LampPanel, Masks, Lights, StatusOf, initPanel
      <3>. QED  BY <1>12, <2>3, <3>1, <3>2 DEF PanelInv
    <2>4. CASE ~HasLampTest(page)
      <3>1. ShownPanel(b)' = RegisterPanel(Got(handled - 1), Got(handled))'
        BY <2>2, <2>4 DEF ShownPanel, HasLampTest
      <3>2. RegisterPanel(Got(handled - 1), Got(handled))'
              = RegisterPanel(Got(h), json)
        BY <2>1 DEF RegisterPanel, Values
      <3>. QED  BY <1>12, <2>4, <3>1, <3>2 DEF PanelInv
    <2>. QED  BY <2>3, <2>4
  <1>14. MachineInv'
    <2>1. handled' \in 0 .. Len(received'["page"])
      BY <1>1, <1>5, <1>10
    <2>. QED  BY <1>0, <1>1, <1>10, <2>1 DEF MachineInv, PanelState
  <1>15. LabelInv' /\ Idle(js)'
    BY <1>0, <1>1, <1>3 DEF LabelInv, Idle
  <1>. QED  BY <1>10, <1>13, <1>14, <1>15 DEF PageInv

(* Every step preserves the invariant.                                     *)
LEMMA PageSteps ==
  ASSUME PageAssumption, PageInv, [Next]_vars
  PROVE  PageInv'
  <1>1. CASE Configure \/ Open \/ Close
    BY <1>1, ConnectionKeeps
  <1>2. CASE Publish
    BY <1>2, PublishKeeps
  <1>3. CASE Proxy
    BY <1>3, ProxyKeeps
  <1>4. CASE Message
    BY <1>4, MessageKeeps
  <1>5. CASE StatusTick \/ FpsTick
    BY <1>5, TickKeeps
  <1>6. CASE Click
    BY <1>6, ClickKeeps
  <1>7. CASE UNCHANGED vars
    <2>1. /\ UNCHANGED <<feedVars, page, machine, handled>>
          /\ js' = js /\ readyState' = readyState
      BY <1>7 DEF vars
    <2>2. Idle(js') /\ LabelInv'
      BY <2>1 DEF PageInv, Idle, LabelInv
    <2>. QED  BY <2>1, <2>2, QuietKeeps
  <1>. QED  BY <1>1, <1>2, <1>3, <1>4, <1>5, <1>6, <1>7 DEF Next

(* The inductive invariant.                                                *)
THEOREM PageInvCorrect == Spec => []PageInv
  <1>1. Init => PageInv
    BY PageAssumption, PageStarts
  <1>2. PageInv /\ [Next]_vars => PageInv'
    BY PageAssumption, PageSteps
  <1>. QED  BY <1>1, <1>2, PTL DEF Spec

(* The lamps and the numbers of each page are those of the panel state it  *)
(* was sent last, those of the modes left out: updateLights and            *)
(* update32Bits, which touch only what differs from what the script        *)
(* remembers, never lose their place.                                      *)
THEOREM LampsAlwaysFollow == Spec => []LampsFollow
  <1>1. PageInv => LampsFollow
    BY PageAssumption, PageInvImplies
  <1>. QED  BY <1>1, PageInvCorrect, PTL

(* The label says Disconnected exactly while the connection is closed.     *)
THEOREM LabelAlwaysTruthful == Spec => []LabelTruthful
  <1>1. PageInv => LabelTruthful
    BY PageAssumption, PageInvImplies
  <1>. QED  BY <1>1, PageInvCorrect, PTL
=============================================================================
