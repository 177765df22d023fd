------------------------- MODULE CloudInit_proofs ---------------------------
(***************************************************************************)
(* What the conversions of CloudInit do to every document.                 *)
(***************************************************************************)
EXTENDS CloudInit, SequenceTheorems, TLAPS

(* Is t what s is and more?  (IsPrefix of SequencesExt, entry by entry)    *)
Begins(s, t) ==
    Len(s) <= Len(t) /\ \A i \in 1..Len(s) : t[i] = s[i]

(* No entry of a list holds an address. *)
Unaddressed(list) == \A i \in 1..Len(list) : list[i][2] = 0

(* What is not a list counts as an empty one. *)
AsList(list) == IF list = NotAList THEN <<>> ELSE list

(* A name and a number are an entry of a list.                              *)
LEMMA EntryType == \A n \in Names : \A a \in Nat : <<n, a>> \in Entries
BY DEF Entries

(* Sequences of one, two and three, written out.                            *)
LEMMA ShortSequences ==
    \A S : \A a, b, c \in S :
      /\ <<a>> \in Seq(S) /\ <<a, b>> \in Seq(S) /\ <<a, b, c>> \in Seq(S)
      /\ Len(<<a>>) = 1 /\ Len(<<a, b>>) = 2 /\ Len(<<a, b, c>>) = 3
      /\ <<a>>[1] = a /\ <<a, b>>[1] = a /\ <<a, b>>[2] = b
OBVIOUS

(* A sequence of one is not the empty one.                                  *)
LEMMA OneAndNone == \A a : Len(<<a>>) = 1 /\ Len(<<>>) = 0
OBVIOUS

(* What stands for a value that is not a list is told from the empty list.  *)
LEMMA NotAListType == NotAList \in Seq(Entries) /\ NotAList # <<>>
<1>1. <<"not a list", 0>> \in Entries
  BY EntryType DEF Names
<1> QED BY <1>1, ShortSequences, OneAndNone, Zenon DEF NotAList

(* Of the two files that are added, the script alone holds the address.     *)
LEMMA LoopbackType ==
    ASSUME NEW addr \in Nat
    PROVE  /\ LoopbackFiles(addr) \in Seq(Entries)
           /\ LoopbackCommands \in Seq(Entries)
           /\ Len(LoopbackFiles(addr)) = 2
           /\ LoopbackFiles(addr)[1][2] = addr
           /\ LoopbackFiles(addr)[2][2] = 0
<1>1. /\ <<"configure-lo.sh", addr>> \in Entries
      /\ <<"configure-lo.service", 0>> \in Entries
      /\ <<"daemon-reload", 0>> \in Entries
      /\ <<"enable configure-lo", 0>> \in Entries
      /\ <<"start configure-lo", 0>> \in Entries
  BY EntryType DEF Names
<1>2. LoopbackFiles(addr) \in Seq(Entries)
  BY <1>1, ShortSequences, Zenon DEF LoopbackFiles
<1>3. LoopbackCommands \in Seq(Entries)
  BY <1>1, ShortSequences, Zenon DEF LoopbackCommands
<1>4. /\ LoopbackFiles(addr)[1] = <<"configure-lo.sh", addr>>
      /\ LoopbackFiles(addr)[2] = <<"configure-lo.service", 0>>
  BY DEF LoopbackFiles
<1> QED
  BY <1>2, <1>3, <1>4 DEF LoopbackFiles

(* Converting a document to JSON loses the header and none of its entries.  *)
LEMMA ConversionFacts ==
    ASSUME NEW d \in Documents, cloudInitYAMLToJSON(d).ok
    PROVE  LET j == cloudInitYAMLToJSON(d).doc
           IN  /\ j \in Documents /\ ~j.header
               /\ j.write_files = d.write_files /\ j.runcmd = d.runcmd
  BY DEF cloudInitYAMLToJSON, Failed, Result, Documents, Bodies

(* A list that is extended is itself and then what is added; what is no     *)
(* list counts as none.                                                     *)
LEMMA ExtendedFacts ==
    ASSUME NEW list \in Seq(Entries), NEW new \in Seq(Entries)
    PROVE  /\ Extended(list, new) = AsList(list) \o new
           /\ AsList(list) \in Seq(Entries)
           /\ Extended(list, new) \in Seq(Entries)
           /\ Len(Extended(list, new)) = Len(AsList(list)) + Len(new)
           /\ \A i \in 1..Len(Extended(list, new)) :
                Extended(list, new)[i] = IF i <= Len(AsList(list))
                                           THEN AsList(list)[i]
                                           ELSE new[i - Len(AsList(list))]
<1>1. AsList(list) \in Seq(Entries)
  BY EmptySeq DEF AsList
<1>2. Extended(list, new) = AsList(list) \o new
  BY ConcatEmptySeq DEF Extended, AsList
<1> QED
  BY <1>1, <1>2, ConcatProperties

(* Extending a list keeps what is there.                                   *)
LEMMA ExtendedBegins ==
    ASSUME NEW list \in Seq(Entries), NEW new \in Seq(Entries)
    PROVE  Begins(AsList(list), Extended(list, new))
<1>1. /\ Len(AsList(list)) \in Nat /\ Len(new) \in Nat
  BY ExtendedFacts, LenProperties
<1> QED
  BY <1>1, ExtendedFacts DEF Begins

(* The two files come last, and the first of them holds the address.       *)
LEMMA FilesExtended ==
    ASSUME NEW list \in Seq(Entries), NEW addr \in Nat,
           Unaddressed(AsList(list))
    PROVE  LET files == Extended(list, LoopbackFiles(addr))
               n == Len(AsList(list))
           IN  /\ n + 1 \in 1..Len(files)
               /\ files[n + 1][2] = addr
               /\ \A i \in 1..Len(files) : i # n + 1 => files[i][2] = 0
<1> DEFINE files == Extended(list, LoopbackFiles(addr))
           old == AsList(list)
           n == Len(old)
<1>1. LoopbackFiles(addr) \in Seq(Entries)
  BY LoopbackType
<1>2. n \in Nat
  BY <1>1, ExtendedFacts, LenProperties
<1>3. /\ Len(files) = n + 2
      /\ \A i \in 1..Len(files) :
           files[i] = IF i <= n THEN old[i] ELSE LoopbackFiles(addr)[i - n]
  <2>1. Len(files) = n + Len(LoopbackFiles(addr))
    BY <1>1, ExtendedFacts
  <2> QED
    BY <1>1, <2>1, ExtendedFacts, LoopbackType
<1> HIDE DEF files
<1>4. files[n + 1] = LoopbackFiles(addr)[1]
  BY <1>2, <1>3
<1>5. files[n + 2] = LoopbackFiles(addr)[2]
  BY <1>2, <1>3
<1>6. ASSUME NEW i \in 1..Len(files), i # n + 1
      PROVE  files[i][2] = 0
  <2>1. CASE i <= n
    BY <1>2, <1>3, <2>1 DEF Unaddressed
  <2>2. CASE i = n + 2
    BY <1>5, <2>2, LoopbackType
  <2> QED
    BY <1>2, <1>3, <1>6, <2>1, <2>2
<1> QED
  BY <1>2, <1>3, <1>4, <1>6, LoopbackType DEF files

(* addPersistentLoAddressToCloudInit, when it succeeds, keeps all files and *)
(* commands of the document and adds its own after them.                    *)
THEOREM AddressAddedOnce ==
    ASSUME NEW d \in Documents, NEW addr \in Nat,
           addPersistentLoAddressToCloudInit(d, addr).ok
    PROVE  LET u == addPersistentLoAddressToCloudInit(d, addr).doc
           IN  /\ u \in Documents /\ ~u.header
               /\ u.write_files = Extended(d.write_files,
                                           LoopbackFiles(addr))
               /\ Begins(AsList(d.write_files), u.write_files)
               /\ Begins(AsList(d.runcmd), u.runcmd)
<1> DEFINE j == cloudInitYAMLToJSON(d)
           u == addPersistentLoAddressToCloudInit(d, addr).doc
           files == Extended(d.write_files, LoopbackFiles(addr))
           commands == Extended(d.runcmd, LoopbackCommands)
<1>1. j.ok
  BY DEF addPersistentLoAddressToCloudInit, Failed
<1>2. /\ j.doc \in Documents /\ ~j.doc.header
      /\ j.doc.write_files = d.write_files /\ j.doc.runcmd = d.runcmd
  BY <1>1, ConversionFacts
<1>3. /\ files \in Seq(Entries) /\ commands \in Seq(Entries)
      /\ Begins(AsList(d.write_files), files)
      /\ Begins(AsList(d.runcmd), commands)
  <2>1. /\ d.write_files \in Seq(Entries) /\ d.runcmd \in Seq(Entries)
        /\ LoopbackFiles(addr) \in Seq(Entries)
        /\ LoopbackCommands \in Seq(Entries)
    BY LoopbackType DEF Documents
  <2> QED
    BY <2>1, ExtendedFacts, ExtendedBegins
<1>4. u = [j.doc EXCEPT !.write_files = files, !.runcmd = commands]
  BY <1>1, <1>2 DEF addPersistentLoAddressToCloudInit, Failed, Result
<1> HIDE DEF files, commands, j
<1>5. /\ u \in Documents /\ ~u.header
      /\ u.write_files = files /\ u.runcmd = commands
  BY <1>2, <1>3, <1>4 DEF Documents
<1> QED
  BY <1>3, <1>5 DEF files

(* What is sent is a document without the header line.                     *)
LEMMA UserDataType ==
    ASSUME NEW d \in Documents, NEW controlPlane \in BOOLEAN,
           NEW addr \in Nat, UserData(d, controlPlane, addr).ok
    PROVE  /\ UserData(d, controlPlane, addr).doc \in Documents
           /\ ~UserData(d, controlPlane, addr).doc.header
<1> DEFINE a == addPersistentLoAddressToCloudInit(d, addr)
           u == UserData(d, controlPlane, addr).doc
<1>1. CASE ~controlPlane
  BY <1>1, ConversionFacts DEF UserData
<1>2. CASE controlPlane
  <2>1. /\ a.ok /\ cloudInitYAMLToJSON(a.doc).ok
        /\ u = cloudInitYAMLToJSON(a.doc).doc
    BY <1>2 DEF UserData, Failed
  <2>2. a.doc \in Documents
    BY <2>1, AddressAddedOnce
  <2> QED
    BY <2>1, <2>2, ConversionFacts
<1> QED
  BY <1>1, <1>2

(* What a document u owes to the bootstrap data d: all of them, and on the  *)
(* control plane the address addr as well, in one place.                   *)
SentFor(u, d, controlPlane, addr) ==
    /\ ~u.header
    /\ ~controlPlane => /\ u.write_files = d.write_files
                        /\ u.runcmd = d.runcmd
    /\ controlPlane =>
         /\ Begins(AsList(d.write_files), u.write_files)
         /\ Begins(AsList(d.runcmd), u.runcmd)
         /\ \E i \in 1..Len(u.write_files) :
              /\ u.write_files[i][2] = addr
              /\ \A k \in 1..Len(u.write_files) :
                   k # i => u.write_files[k][2] = 0

(* What is sent: the document as it was but for its header, and on the     *)
(* control plane with the entries appended, one of which holds the address. *)
THEOREM UserDataSent ==
    ASSUME NEW d \in Documents, NEW controlPlane \in BOOLEAN,
           NEW addr \in Nat, UserData(d, controlPlane, addr).ok,
           Unaddressed(AsList(d.write_files))
    PROVE  LET u == UserData(d, controlPlane, addr).doc
           IN  u \in Documents /\ SentFor(u, d, controlPlane, addr)
<1> DEFINE a == addPersistentLoAddressToCloudInit(d, addr)
           u == UserData(d, controlPlane, addr).doc
<1>1. CASE ~controlPlane
  BY <1>1, ConversionFacts DEF UserData, SentFor
<1>2. CASE controlPlane
  <2>1. /\ a.ok /\ cloudInitYAMLToJSON(a.doc).ok
        /\ u = cloudInitYAMLToJSON(a.doc).doc
    BY <1>2 DEF UserData, Failed
  <2>2. /\ a.doc \in Documents
        /\ a.doc.write_files = Extended(d.write_files, LoopbackFiles(addr))
        /\ Begins(AsList(d.write_files), a.doc.write_files)
        /\ Begins(AsList(d.runcmd), a.doc.runcmd)
    BY <2>1, AddressAddedOnce
  <2>3. /\ u \in Documents /\ ~u.header
        /\ u.write_files = a.doc.write_files /\ u.runcmd = a.doc.runcmd
    BY <2>1, <2>2, ConversionFacts
  <2>4. d.write_files \in Seq(Entries)
    BY DEF Documents
  <2> DEFINE n == Len(AsList(d.write_files))
             files == Extended(d.write_files, LoopbackFiles(addr))
  <2>6. /\ n + 1 \in 1..Len(files) /\ files[n + 1][2] = addr
        /\ \A i \in 1..Len(files) : i # n + 1 => files[i][2] = 0
    BY <2>4, FilesExtended
  <2>7. u.write_files = files
    BY <2>2, <2>3
  <2> HIDE DEF a, u, n, files
  <2>5. \E i \in 1..Len(u.write_files) :
          /\ u.write_files[i][2] = addr
          /\ \A k \in 1..Len(u.write_files) :
               k # i => u.write_files[k][2] = 0
    BY <2>6, <2>7
  <2> QED
    BY <1>2, <2>2, <2>3, <2>5 DEF u, SentFor
<1> QED
  BY <1>1, <1>2
=============================================================================
