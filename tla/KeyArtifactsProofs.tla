------------------------- MODULE KeyArtifactsProofs -------------------------
(***************************************************************************)
(* The artifact directory, for any sources, keys, parameters, tears and    *)
(* number of builds and damages: no proving key loads but one that a setup *)
(* produced, a manifest vouches for one build, what a build that ran to    *)
(* its end leaves behind is consistent, and every key file on disk makes   *)
(* the contract and the offline verifier accept the same calls.            *)
(***************************************************************************)
EXTENDS KeyArtifacts, SequenceTheorems, FiniteSetTheorems, WellFoundedInduction, TLAPS

-----------------------------------------------------------------------------
(* The inductive invariant *)

\* The manifest of the files of one build.
BuildSums(b, c) ==
    [i \in DOMAIN Vouched |-> [key |-> Vouched[i], data |-> Product(b, <<c, Vouched[i]>>)]]

\* What a finished build of sources b leaves at a path.
Final(b, path) == IF path[2] = "SHA256SUMS" THEN BuildSums(b, path[1]) ELSE Product(b, path)

\* The first lines of a text, each of them possibly cut short or overwritten.
RemainsOf(f, text) ==
    \E n \in 0 .. Len(text) :
       /\ DOMAIN f = 1 .. n /\ f = [i \in 1 .. n |-> f[i]]
       /\ \A i \in 1 .. n : f[i] \in Spoilt(text[i])

\* A builder that runs is somewhere in the plan, in an undamaged directory.
BuilderInv ==
    /\ build \in Builds
    /\ step \in 1 .. Len(Plan) + 1
    /\ building \in BOOLEAN /\ damaged \in BOOLEAN
    /\ building => step <= Len(Plan) /\ ~damaged

\* Every file is what remains of some build's, not necessarily the last one's.
FilesInv ==
    /\ DOMAIN files = Paths
    /\ \A path \in Paths : \E b \in Builds : RemainsOf(files[path], Final(b, path))

\* What the last builder has finished is all there until something is damaged.
WrittenInv == ~damaged => \A j \in 1 .. step - 1 : files[Plan[j]] = Final(build, Plan[j])

\* It has passed the assertions so far.
AssertedInv == \A j \in 1 .. step - 1 : LayoutAsserted(build, Plan[j])

\* A key read earlier was in its file at the time.
HeldInv ==
    held # << >> =>
       \E c \in Circuits, b \in Builds :
          /\ held = << [circuit |-> c, data |-> held[1].data] >>
          /\ RemainsOf(held[1].data, Product(b, <<c, "proving_key.bin">>))

ArtifactInv == BuilderInv /\ FilesInv /\ WrittenInv /\ AssertedInv /\ HeldInv
-----------------------------------------------------------------------------
(* Lists, whatever their values *)

Listed(s, n) == s = [i \in 1 .. n |-> s[i]]

LEMMA ListLen ==
    ASSUME NEW n \in Nat, NEW s, Listed(s, n)
    PROVE  Len(s) = n /\ DOMAIN s = 1 .. n /\ s \in Seq({s[i] : i \in 1 .. n})
  <1> DEFINE S == {s[i] : i \in 1 .. n}
  <1>1. s \in [1 .. n -> S]
    BY DEF Listed
  <1>2. s \in Seq(S)
    BY <1>1, SeqDef, Zenon
  <1>3. Len(s) = n
    BY <1>1, <1>2, LenProperties
  <1> QED BY <1>1, <1>2, <1>3

LEMMA SeqListed ==
    ASSUME NEW S, NEW s \in Seq(S)
    PROVE  Len(s) \in Nat /\ Listed(s, Len(s))
  <1>1. Len(s) \in Nat /\ s \in [1 .. Len(s) -> S]
    BY LenProperties
  <1> QED BY <1>1 DEF Listed

\* u is the list s of length n with x at its end.
Appended(u, s, n, x) ==
    /\ Listed(u, n + 1)
    /\ u[n + 1] = x
    /\ \A i \in 1 .. n : u[i] = s[i]

LEMMA ListAppend ==
    ASSUME NEW n \in Nat, NEW s, Listed(s, n), NEW x
    PROVE  Appended(Append(s, x), s, n, x)
  <1> DEFINE S == {s[i] : i \in 1 .. n} \cup {x}
  <1>1. s \in [1 .. n -> S]
    BY DEF Listed
  <1>2. s \in Seq(S)
    BY <1>1, SeqDef, Zenon
  <1>3. Len(s) = n
    BY ListLen
  <1>4. Append(s, x) \in Seq(S) /\ Len(Append(s, x)) = n + 1
        /\ Append(s, x)[n + 1] = x /\ \A i \in 1 .. n : Append(s, x)[i] = s[i]
    BY <1>2, <1>3, AppendProperties
  <1> HIDE DEF S
  <1>5. Listed(Append(s, x), n + 1)
    BY <1>4, SeqListed
  <1> QED BY <1>4, <1>5 DEF Appended

LEMMA ListPrefix ==
    ASSUME NEW n \in Nat, NEW s, Listed(s, n), NEW k \in 0 .. n
    PROVE  /\ Listed(SubSeq(s, 1, k), k)
           /\ \A i \in 1 .. k : SubSeq(s, 1, k)[i] = s[i]
  <1> DEFINE S == {s[i] : i \in 1 .. n}
  <1>1. s \in Seq(S) /\ Len(s) = n
    BY ListLen
  <1>2. \A i \in 1 .. k : s[i] \in S
    OBVIOUS
  <1> HIDE DEF S
  <1>3. /\ SubSeq(s, 1, k) \in Seq(S)
        /\ Len(SubSeq(s, 1, k)) = IF 1 <= k THEN k - 1 + 1 ELSE 0
        /\ \A i \in 1 .. k - 1 + 1 : SubSeq(s, 1, k)[i] = s[1 + i - 1]
    BY <1>1, <1>2, SubSeqProperties
  <1>4. Len(SubSeq(s, 1, k)) = k /\ \A i \in 1 .. k : SubSeq(s, 1, k)[i] = s[i]
    BY <1>3
  <1> QED BY <1>3, <1>4, SeqListed

\* u is the list s of length m followed by the list t of length n.
Concat(u, s, m, t, n) ==
    /\ Listed(u, m + n)
    /\ \A i \in 1 .. m : u[i] = s[i]
    /\ \A i \in 1 .. n : u[m + i] = t[i]

LEMMA ListConcat ==
    ASSUME NEW m \in Nat, NEW n \in Nat, NEW s, Listed(s, m), NEW t, Listed(t, n)
    PROVE  Concat(s \o t, s, m, t, n)
  <1> DEFINE S == {s[i] : i \in 1 .. m} \cup {t[i] : i \in 1 .. n}
  <1>1. s \in [1 .. m -> S] /\ t \in [1 .. n -> S]
    BY DEF Listed
  <1>2. s \in Seq(S) /\ t \in Seq(S)
    BY <1>1, SeqDef, Zenon
  <1>3. Len(s) = m /\ Len(t) = n
    BY ListLen
  <1> HIDE DEF S
  <1>4. /\ s \o t \in Seq(S) /\ Len(s \o t) = m + n
        /\ \A i \in 1 .. m + n : (s \o t)[i] = IF i <= m THEN s[i] ELSE t[i - m]
    BY <1>2, <1>3, ConcatProperties
  <1>5. \A i \in 1 .. m : i \in 1 .. m + n /\ i <= m
    OBVIOUS
  <1>6. \A i \in 1 .. n : m + i \in 1 .. m + n /\ ~(m + i <= m) /\ (m + i) - m = i
    OBVIOUS
  <1>7. Listed(s \o t, m + n)
    BY <1>4, SeqListed
  <1> QED BY <1>4, <1>5, <1>6, <1>7 DEF Concat

-----------------------------------------------------------------------------
(* The plan *)

LEMMA NamesAre ==
    /\ Names[1] = "proving_key.bin" /\ Names[2] = "verifying_key.bin" /\ Names[3] = "verifying_key.hex"
    /\ Names[4] = "layout.txt" /\ Names[5] = "SHA256SUMS"
    /\ DOMAIN Vouched = 1 .. 4 /\ \A i \in 1 .. 4 : Vouched[i] = Names[i]
  BY DEF Names, Vouched

LEMMA PlanIs ==
    /\ Len(Plan) = 11 /\ DOMAIN Plan = 1 .. 11 /\ Plan[11] = ParamsPath
    /\ \A i \in 1 .. 5 : Plan[i] = <<"transfer", Names[i]>> /\ Plan[5 + i] = <<"withdraw", Names[i]>>
  <1> DEFINE t == [i \in 1 .. 5 |-> <<"transfer", Names[i]>>]
             w == [i \in 1 .. 5 |-> <<"withdraw", Names[i]>>]
             p == <<ParamsPath>>
  <1>1. Listed(t, 5) /\ Listed(w, 5)
    BY DEF Listed
  <1>2. Listed(p, 1) /\ p[1] = ParamsPath
    BY DEF Listed
  <1>3. \A i \in 1 .. 5 : t[i] = <<"transfer", Names[i]>> /\ w[i] = <<"withdraw", Names[i]>>
    OBVIOUS
  <1> HIDE DEF t, w, p
  <1>4. Concat(t \o w, t, 5, w, 5)
    BY <1>1, ListConcat
  <1> DEFINE tw == t \o w
  <1>a. Listed(tw, 10)
    BY <1>4, 5 + 5 = 10 DEF Concat
  <1> HIDE DEF tw
  <1>5. Concat(tw \o p, tw, 10, p, 1)
    BY <1>2, <1>a, ListConcat
  <1>6. Plan = tw \o p
    BY DEF Plan, t, w, p, tw
  <1>7. Listed(Plan, 11)
    BY <1>5, <1>6, 10 + 1 = 11 DEF Concat
  <1>8. Len(Plan) = 11 /\ DOMAIN Plan = 1 .. 11
    BY <1>7, ListLen
  <1>9. \A i \in 1 .. 10 : Plan[i] = tw[i]
    BY <1>5, <1>6 DEF Concat
  <1>10. Plan[11] = ParamsPath
    <2>1. Plan[10 + 1] = p[1]
      BY <1>5, <1>6, 1 \in 1 .. 1 DEF Concat
    <2> QED BY <2>1, <1>2
  <1>11. \A i \in 1 .. 5 : tw[i] = t[i] /\ tw[5 + i] = w[i]
    BY <1>4 DEF Concat, tw
  <1>12. \A i \in 1 .. 5 : i \in 1 .. 10 /\ 5 + i \in 1 .. 10
    OBVIOUS
  <1> QED BY <1>3, <1>8, <1>9, <1>10, <1>11, <1>12

LEMMA CircuitsAre == Circuits = {"transfer", "withdraw"}
  BY DEF Circuits, CircuitSeq, Range
LEMMA PlanTable ==
    /\ Len(Plan) = 11 /\ DOMAIN Plan = 1 .. 11
    /\ Plan[1] = <<"transfer", "proving_key.bin">> /\ Plan[2] = <<"transfer", "verifying_key.bin">>
    /\ Plan[3] = <<"transfer", "verifying_key.hex">> /\ Plan[4] = <<"transfer", "layout.txt">>
    /\ Plan[5] = <<"transfer", "SHA256SUMS">>
    /\ Plan[6] = <<"withdraw", "proving_key.bin">> /\ Plan[7] = <<"withdraw", "verifying_key.bin">>
    /\ Plan[8] = <<"withdraw", "verifying_key.hex">> /\ Plan[9] = <<"withdraw", "layout.txt">>
    /\ Plan[10] = <<"withdraw", "SHA256SUMS">>
    /\ Plan[11] = <<"shielded_pool", "poseidon_params.rs">>
  <1>1. \A i \in 1 .. 5 : Plan[i] = <<"transfer", Names[i]>> /\ Plan[5 + i] = <<"withdraw", Names[i]>>
    BY PlanIs
  <1>2. 1 \in 1 .. 5 /\ 2 \in 1 .. 5 /\ 3 \in 1 .. 5 /\ 4 \in 1 .. 5 /\ 5 \in 1 .. 5
    OBVIOUS
  <1>3. /\ Plan[1] = <<"transfer", Names[1]>> /\ Plan[5 + 1] = <<"withdraw", Names[1]>>
        /\ Plan[2] = <<"transfer", Names[2]>> /\ Plan[5 + 2] = <<"withdraw", Names[2]>>
        /\ Plan[3] = <<"transfer", Names[3]>> /\ Plan[5 + 3] = <<"withdraw", Names[3]>>
        /\ Plan[4] = <<"transfer", Names[4]>> /\ Plan[5 + 4] = <<"withdraw", Names[4]>>
        /\ Plan[5] = <<"transfer", Names[5]>> /\ Plan[5 + 5] = <<"withdraw", Names[5]>>
    BY <1>1, <1>2
  <1>4. 5 + 1 = 6 /\ 5 + 2 = 7 /\ 5 + 3 = 8 /\ 5 + 4 = 9 /\ 5 + 5 = 10
    OBVIOUS
  <1> QED BY <1>3, <1>4, PlanIs, NamesAre DEF ParamsPath

\* No file is written twice in a build.
LEMMA PlanInjective == \A i, j \in 1 .. 11 : Plan[i] = Plan[j] => i = j
  <1>1. \A i \in 1 .. 11 : i = 1 \/ i = 2 \/ i = 3 \/ i = 4 \/ i = 5 \/ i = 6 \/ i = 7 \/ i = 8
                           \/ i = 9 \/ i = 10 \/ i = 11
    OBVIOUS
  <1>2. \A i \in 1 .. 11 : i \in 1 .. 5 => Plan[i][1] = "transfer"
    BY PlanTable, <1>1
  <1>3. \A i \in 1 .. 11 : i \in 6 .. 10 => Plan[i][1] = "withdraw"
    BY PlanTable, <1>1
  <1>4. Plan[11][1] = "shielded_pool"
    BY PlanTable
  <1>5. \A i, j \in 1 .. 5 : Plan[i][2] = Plan[j][2] => i = j
    <2>1. \A i \in 1 .. 5 : i = 1 \/ i = 2 \/ i = 3 \/ i = 4 \/ i = 5
      OBVIOUS
    <2> QED BY PlanTable, <2>1
  <1>6. \A i, j \in 6 .. 10 : Plan[i][2] = Plan[j][2] => i = j
    <2>1. \A i \in 6 .. 10 : i = 6 \/ i = 7 \/ i = 8 \/ i = 9 \/ i = 10
      OBVIOUS
    <2> QED BY PlanTable, <2>1
  <1>7. \A i \in 1 .. 11 : i \in 1 .. 5 \/ i \in 6 .. 10 \/ i = 11
    OBVIOUS
  <1> QED BY <1>2, <1>3, <1>4, <1>5, <1>6, <1>7

LEMMA PathsAre ==
    /\ \A j \in 1 .. 11 : Plan[j] \in Paths
    /\ \A path \in Paths : \E j \in 1 .. 11 : path = Plan[j]
    /\ \A c \in Circuits : <<c, "SHA256SUMS">> \in Paths
    /\ \A c \in Circuits : \A i \in 1 .. 4 : <<c, Vouched[i]>> \in Paths
  <1>1. Paths = {Plan[j] : j \in 1 .. 11}
    BY PlanTable DEF Paths, Range
  <1>2. \A j \in 1 .. 11 : Plan[j] \in Paths
    BY <1>1
  <1>3. 1 \in 1 .. 11 /\ 2 \in 1 .. 11 /\ 3 \in 1 .. 11 /\ 4 \in 1 .. 11 /\ 5 \in 1 .. 11
        /\ 6 \in 1 .. 11 /\ 7 \in 1 .. 11 /\ 8 \in 1 .. 11 /\ 9 \in 1 .. 11 /\ 10 \in 1 .. 11
    OBVIOUS
  <1>4. \A c \in Circuits : <<c, "SHA256SUMS">> \in Paths
    BY <1>2, <1>3, PlanTable, CircuitsAre
  <1>5. \A i \in 1 .. 4 : i = 1 \/ i = 2 \/ i = 3 \/ i = 4
    OBVIOUS
  <1>6. \A i \in 1 .. 4 : <<"transfer", Vouched[i]>> \in Paths
    BY <1>2, <1>3, <1>5, PlanTable, NamesAre
  <1>7. \A i \in 1 .. 4 : <<"withdraw", Vouched[i]>> \in Paths
    BY <1>2, <1>3, <1>5, PlanTable, NamesAre
  <1> QED BY <1>1, <1>2, <1>4, <1>6, <1>7, CircuitsAre

\* A circuit's manifest comes after the four files it vouches for.
LEMMA ManifestIsLast ==
    ASSUME NEW j \in 1 .. 11, Plan[j][2] = "SHA256SUMS"
    PROVE  /\ Plan[j][1] \in Circuits
           /\ Plan[j] = <<Plan[j][1], "SHA256SUMS">>
           /\ \A i \in 1 .. 4 : \E k \in 1 .. j - 1 : Plan[k] = <<Plan[j][1], Vouched[i]>>
  <1>1. j = 5 \/ j = 10
    <2>1. j = 1 \/ j = 2 \/ j = 3 \/ j = 4 \/ j = 5 \/ j = 6 \/ j = 7 \/ j = 8
          \/ j = 9 \/ j = 10 \/ j = 11
      OBVIOUS
    <2> QED BY <2>1, PlanTable
  <1>2. Plan[j][1] \in Circuits /\ Plan[j] = <<Plan[j][1], "SHA256SUMS">>
    BY <1>1, PlanTable, CircuitsAre
  <1>3. \A i \in 1 .. 4 : i = 1 \/ i = 2 \/ i = 3 \/ i = 4
    OBVIOUS
  <1>4. \A i \in 1 .. 4 : Plan[i] = <<"transfer", Vouched[i]>> /\ Plan[5 + i] = <<"withdraw", Vouched[i]>>
    <2>1. 5 + 1 = 6 /\ 5 + 2 = 7 /\ 5 + 3 = 8 /\ 5 + 4 = 9
      OBVIOUS
    <2> QED BY <2>1, <1>3, PlanTable, NamesAre
  <1>5. \A i \in 1 .. 4 : \E k \in 1 .. j - 1 : Plan[k] = <<Plan[j][1], Vouched[i]>>
    <2> TAKE i \in 1 .. 4
    <2>1. CASE j = 5
      <3>1. Plan[j][1] = "transfer"
        BY <2>1, PlanTable
      <3>2. i \in 1 .. j - 1
        BY <2>1
      <3> QED BY <3>1, <3>2, <1>4
    <2>2. CASE j = 10
      <3>1. Plan[j][1] = "withdraw"
        BY <2>2, PlanTable
      <3>2. 5 + i \in 1 .. j - 1
        BY <2>2
      <3> QED BY <3>1, <3>2, <1>4
    <2> QED BY <1>1, <2>1, <2>2
  <1> QED BY <1>2, <1>5

-----------------------------------------------------------------------------
(* The files *)

\* A file name and its circuit, whichever the circuit.
LEMMA NamesDiffer ==
    /\ \A c, n, m : <<c, n>> = <<c, m>> => n = m
    /\ \A c, n : <<c, n>>[1] = c /\ <<c, n>>[2] = n
    /\ \A c \in Circuits : \A n : <<c, n>> # ParamsPath
    /\ \A i \in 1 .. 4 : Vouched[i] # "SHA256SUMS"
    /\ Vouched[1] = "proving_key.bin" /\ Vouched[2] = "verifying_key.bin"
    /\ Vouched[3] = "verifying_key.hex" /\ Vouched[4] = "layout.txt"
    /\ \A i \in 1 .. 4 : Vouched[i] = "proving_key.bin" => i = 1
  <1>1. \A i \in 1 .. 4 : i = 1 \/ i = 2 \/ i = 3 \/ i = 4
    OBVIOUS
  <1> QED BY <1>1, NamesAre, CircuitsAre DEF ParamsPath

LEMMA Products ==
    ASSUME NEW b, NEW c \in Circuits
    PROVE  /\ Product(b, <<c, "proving_key.bin">>) = << Part(b, c, 1), Part(b, c, 2) >>
           /\ Product(b, <<c, "verifying_key.bin">>) = << Part(b, c, 3) >>
           /\ Product(b, <<c, "verifying_key.hex">>) = HexFile[b][c]
           /\ Product(b, <<c, "layout.txt">>) = << Layout(c) >>
           /\ Product(b, ParamsPath) = ParamsFile[b]
  BY NamesDiffer DEF Product, ParamsPath

LEMMA Tuples ==
    /\ \A x : Listed(<<x>>, 1)
    /\ \A x, y : Listed(<<x, y>>, 2)
    /\ \A x, y, z : Listed(<<x, y, z>>, 3)
  BY DEF Listed

\* Every vouched product is a list of lines.
LEMMA ProductListed ==
    ASSUME NEW b \in Builds, NEW path \in Paths, path[2] # "SHA256SUMS"
    PROVE  \E n \in Nat : Listed(Product(b, path), n)
  <1>0. 1 \in Nat /\ 2 \in Nat /\ 3 \in Nat /\ 4 \in Nat
    OBVIOUS
  <1>1. PICK j \in 1 .. 11 : path = Plan[j]
    BY PathsAre
  <1>2. CASE path = ParamsPath
    <2>1. Product(b, path) = ParamsFile[b]
      BY <1>2 DEF Product, ParamsPath
    <2>2. Listed(ParamsFile[b], 3)
      BY Tuples DEF ParamsFile
    <2> QED BY <2>1, <2>2, <1>0
  <1>3. CASE path # ParamsPath
    <2>1. PICK c \in Circuits, i \in 1 .. 4 : path = <<c, Vouched[i]>>
      <3>1. j = 1 \/ j = 2 \/ j = 3 \/ j = 4 \/ j = 5 \/ j = 6 \/ j = 7 \/ j = 8
            \/ j = 9 \/ j = 10 \/ j = 11
        OBVIOUS
      <3>2. 1 \in 1 .. 4 /\ 2 \in 1 .. 4 /\ 3 \in 1 .. 4 /\ 4 \in 1 .. 4
        OBVIOUS
      <3>3. j # 5 /\ j # 10 /\ j # 11
        BY <1>1, <1>3, PlanTable DEF ParamsPath
      <3> QED BY <1>1, <3>1, <3>2, <3>3, PlanTable, NamesDiffer, CircuitsAre
    <2>2. \/ path = <<c, "proving_key.bin">> \/ path = <<c, "verifying_key.bin">>
          \/ path = <<c, "verifying_key.hex">> \/ path = <<c, "layout.txt">>
      <3>1. i = 1 \/ i = 2 \/ i = 3 \/ i = 4
        OBVIOUS
      <3> QED BY <2>1, <3>1, NamesDiffer
    <2>3. CASE path = <<c, "proving_key.bin">>
      <3>1. Product(b, path) = << Part(b, c, 1), Part(b, c, 2) >>
        BY <2>3, Products
      <3> QED BY <1>0, <3>1, Tuples
    <2>4. CASE path = <<c, "verifying_key.bin">>
      <3>1. Product(b, path) = << Part(b, c, 3) >>
        BY <2>4, Products
      <3> QED BY <1>0, <3>1, Tuples
    <2>5. CASE path = <<c, "layout.txt">>
      <3>1. Product(b, path) = << Layout(c) >>
        BY <2>5, Products
      <3> QED BY <1>0, <3>1, Tuples
    <2>6. CASE path = <<c, "verifying_key.hex">>
      <3> DEFINE vk == VkToBytes(Setup[b][c])
                 head == [k \in 1 .. 4 |-> [key |-> Header[k], no |-> 0, data |-> vk[Header[k]]]]
                 ics == [k \in DOMAIN vk.ic |-> [key |-> "ic", no |-> k - 1, data |-> vk.ic[k]]]
      <3>1. Product(b, path) = HexFile[b][c]
        BY <2>6, Products
      <3>2. HexFile[b][c] = head \o ics
        BY DEF HexFile, RenderVkHex
      <3>3. PICK n \in Nat : DOMAIN vk.ic = 1 .. n
        <4>1. Setup[b][c].ic \in Seq(Range(G1))
          BY ArtifactAssumption
        <4>2. vk.ic = [k \in DOMAIN Setup[b][c].ic |-> G1ToBytes(Setup[b][c].ic[k])]
          BY DEF VkToBytes
        <4> HIDE DEF vk
        <4> QED BY <4>1, <4>2, LenProperties
      <3>4. Listed(head, 4) /\ Listed(ics, n)
        <4> HIDE DEF vk
        <4> QED BY <3>3 DEF Listed
      <3> HIDE DEF head, ics
      <3>5. Concat(head \o ics, head, 4, ics, n)
        BY <1>0, <3>4, ListConcat
      <3> QED BY <3>1, <3>2, <3>5 DEF Concat
    <2> QED BY <2>2, <2>3, <2>4, <2>5, <2>6
  <1> QED BY <1>2, <1>3

LEMMA FinalListed ==
    ASSUME NEW b \in Builds, NEW path \in Paths
    PROVE  Len(Final(b, path)) \in Nat /\ Listed(Final(b, path), Len(Final(b, path)))
  <1>1. PICK n \in Nat : Listed(Final(b, path), n)
    <2>1. CASE path[2] = "SHA256SUMS"
      <3>1. Listed(BuildSums(b, path[1]), 4)
        BY NamesAre DEF Listed, BuildSums
      <3> QED BY <2>1, <3>1, 4 \in Nat DEF Final
    <2>2. CASE path[2] # "SHA256SUMS"
      BY <2>2, ProductListed DEF Final
    <2> QED BY <2>1, <2>2
  <1> QED BY <1>1, ListLen

-----------------------------------------------------------------------------
(* What may remain of a file *)

LEMMA SpoiltLines ==
    ASSUME NEW line
    PROVE  /\ line \in Spoilt(line)
           /\ [line EXCEPT !.data = Short] \in Spoilt(line)
           /\ \A l \in Spoilt(line) : [l EXCEPT !.data = Garbage] \in Spoilt(line)
  <1>1. line \in Spoilt(line) /\ [line EXCEPT !.data = Short] \in Spoilt(line)
        /\ [line EXCEPT !.data = Garbage] \in Spoilt(line)
    BY DEF Spoilt
  <1>2. ASSUME NEW l \in Spoilt(line)
        PROVE  [l EXCEPT !.data = Garbage] \in Spoilt(line)
    <2>1. l = line \/ \E mark \in {Garbage, Short} : l = [line EXCEPT !.data = mark]
      BY DEF Spoilt
    <2>2. CASE l = line
      BY <2>2, <1>1
    <2>3. ASSUME NEW mark, l = [line EXCEPT !.data = mark]
          PROVE  [l EXCEPT !.data = Garbage] \in Spoilt(line)
      <3>1. [l EXCEPT !.data = Garbage] = [line EXCEPT !.data = Garbage]
        BY <2>3
      <3> QED BY <3>1, <1>1
    <2> QED BY <2>1, <2>2, <2>3
  <1> QED BY <1>1, <1>2

LEMMA SpoiltEntry ==
    ASSUME NEW k, NEW d, NEW l \in Spoilt([key |-> k, data |-> d])
    PROVE  l.key = k /\ (l.data = d \/ l.data = Garbage \/ l.data = Short)
  BY DEF Spoilt

LEMMA EmptyRemains ==
    ASSUME NEW text, Len(text) \in Nat
    PROVE  RemainsOf(<< >>, text)
  <1>1. 0 \in 0 .. Len(text) /\ DOMAIN << >> = 1 .. 0
    OBVIOUS
  <1>2. << >> = [i \in 1 .. 0 |-> << >>[i]]
    OBVIOUS
  <1> QED BY <1>1, <1>2 DEF RemainsOf

LEMMA WholeRemains ==
    ASSUME NEW text, Len(text) \in Nat, Listed(text, Len(text))
    PROVE  RemainsOf(text, text)
  <1>1. DOMAIN text = 1 .. Len(text) /\ text = [i \in 1 .. Len(text) |-> text[i]]
    BY DEF Listed
  <1>2. Len(text) \in 0 .. Len(text)
    OBVIOUS
  <1>3. \A i \in 1 .. Len(text) : text[i] \in Spoilt(text[i])
    BY SpoiltLines
  <1> QED BY <1>1, <1>2, <1>3 DEF RemainsOf

LEMMA PrefixRemains ==
    ASSUME NEW text, Len(text) \in Nat, Listed(text, Len(text)), NEW n \in Nat, n < Len(text)
    PROVE  /\ RemainsOf(SubSeq(text, 1, n), text)
           /\ RemainsOf(Append(SubSeq(text, 1, n), [text[n + 1] EXCEPT !.data = Short]), text)
  <1> DEFINE some == SubSeq(text, 1, n)
             cut == [text[n + 1] EXCEPT !.data = Short]
  <1>1. n \in 0 .. Len(text) /\ n + 1 \in 0 .. Len(text) /\ n + 1 \in Nat
    OBVIOUS
  <1>2. Listed(some, n) /\ \A i \in 1 .. n : some[i] = text[i]
    BY <1>1, ListPrefix
  <1>3. cut \in Spoilt(text[n + 1])
    BY SpoiltLines
  <1> HIDE DEF some, cut
  <1>4. Appended(Append(some, cut), some, n, cut)
    BY <1>2, ListAppend
  <1>5. \A i \in 1 .. n : some[i] \in Spoilt(text[i])
    BY <1>2, SpoiltLines
  <1>6. RemainsOf(some, text)
    <2>1. DOMAIN some = 1 .. n /\ some = [i \in 1 .. n |-> some[i]]
      BY <1>2 DEF Listed
    <2> QED BY <1>1, <1>5, <2>1 DEF RemainsOf
  <1>7. RemainsOf(Append(some, cut), text)
    <2> DEFINE torn == Append(some, cut)
    <2>1. DOMAIN torn = 1 .. n + 1 /\ torn = [i \in 1 .. n + 1 |-> torn[i]]
      BY <1>4 DEF Listed, Appended
    <2>2. \A i \in 1 .. n + 1 : i \in 1 .. n \/ i = n + 1
      BY <1>1
    <2>3. \A i \in 1 .. n + 1 : torn[i] \in Spoilt(text[i])
      BY <1>3, <1>4, <1>5, <2>2 DEF Appended
    <2> HIDE DEF torn
    <2>4. RemainsOf(torn, text)
      BY <1>1, <2>1, <2>3 DEF RemainsOf
    <2> QED BY <2>4 DEF torn
  <1> QED BY <1>6, <1>7 DEF some, cut

LEMMA DamageRemains ==
    ASSUME NEW f, NEW text, Len(text) \in Nat, RemainsOf(f, text), NEW k \in DOMAIN f
    PROVE  RemainsOf([f EXCEPT ![k].data = Garbage], text)
  <1>1. PICK n \in 0 .. Len(text) :
           /\ DOMAIN f = 1 .. n /\ f = [i \in 1 .. n |-> f[i]]
           /\ \A i \in 1 .. n : f[i] \in Spoilt(text[i])
    BY DEF RemainsOf
  <1> DEFINE g == [f EXCEPT ![k] = [f[k] EXCEPT !.data = Garbage]]
  <1>2. [f EXCEPT ![k].data = Garbage] = g
    OBVIOUS
  <1>3. DOMAIN g = 1 .. n /\ g = [i \in 1 .. n |-> g[i]]
    BY <1>1
  <1>4. \A i \in 1 .. n : g[i] = IF i = k THEN [f[k] EXCEPT !.data = Garbage] ELSE f[i]
    BY <1>1
  <1>5. [f[k] EXCEPT !.data = Garbage] \in Spoilt(text[k])
    BY <1>1, SpoiltLines
  <1> HIDE DEF g
  <1>6. \A i \in 1 .. n : g[i] \in Spoilt(text[i])
    BY <1>1, <1>4, <1>5
  <1>7. RemainsOf(g, text)
    BY <1>1, <1>3, <1>6 DEF RemainsOf
  <1> QED BY <1>2, <1>7

\* What remains of a vouched file is no mark.
LEMMA MarksAreNoFiles ==
    ASSUME NEW b \in Builds, NEW c \in Circuits, NEW i \in 1 .. 4, NEW f,
           RemainsOf(f, Product(b, <<c, Vouched[i]>>))
    PROVE  f # Garbage /\ f # Short
  <1> DEFINE text == Product(b, <<c, Vouched[i]>>)
             S == UNION {Spoilt(line) : line \in Range(text)}
  <1>1. <<c, Vouched[i]>> \in Paths /\ <<c, Vouched[i]>>[2] # "SHA256SUMS"
    BY PathsAre, NamesDiffer
  <1>2. PICK m \in Nat : Listed(text, m)
    BY <1>1, ProductListed
  <1>3. Len(text) = m /\ DOMAIN text = 1 .. m
    BY <1>2, ListLen
  <1>4. Vouched[i] \in Range(Vouched)
    BY NamesAre DEF Range
  <1>5. Garbage \notin Seq(S) /\ Short \notin Seq(S)
    BY <1>4, ArtifactAssumption
  <1> HIDE DEF text
  <1>6. PICK n \in 0 .. m : /\ f = [k \in 1 .. n |-> f[k]]
                            /\ \A k \in 1 .. n : f[k] \in Spoilt(text[k])
    BY <1>3 DEF RemainsOf, text
  <1>7. \A k \in 1 .. n : k \in 1 .. m
    OBVIOUS
  <1>8. \A k \in 1 .. n : text[k] \in Range(text)
    BY <1>3, <1>7 DEF Range
  <1>9. \A k \in 1 .. n : f[k] \in S
    BY <1>6, <1>8
  <1> HIDE DEF S
  <1>10. f \in [1 .. n -> S]
    BY <1>6, <1>9
  <1>11. n \in Nat
    BY <1>2
  <1>12. f \in Seq(S)
    BY <1>10, <1>11, SeqDef, Zenon
  <1> QED BY <1>5, <1>12

-----------------------------------------------------------------------------
(* The steps *)

LEMMA InitInv == Init => ArtifactInv
  <1> SUFFICES ASSUME Init PROVE ArtifactInv
    OBVIOUS
  <1>1. build \in Builds /\ step = 1 /\ building = FALSE /\ damaged = FALSE /\ held = << >>
        /\ DOMAIN files = Paths
    BY DEF Init
  <1>2. step \in 1 .. Len(Plan) + 1 /\ \A j \in 1 .. step - 1 : FALSE
    BY <1>1, PlanTable
  <1>3. \A path \in Paths : \E b \in Builds : RemainsOf(files[path], Final(b, path))
    <2>1. \A path \in Paths : files[path] = << >>
      BY DEF Init
    <2>2. \A path \in Paths : RemainsOf(<< >>, Final(build, path))
      BY <1>1, FinalListed, EmptyRemains
    <2> QED BY <1>1, <2>1, <2>2
  <1> QED BY <1>1, <1>2, <1>3 DEF ArtifactInv, BuilderInv, FilesInv, WrittenInv, AssertedInv, HeldInv

\* The manifest that a builder reads back is the one of its own files.
LEMMA ContentsAreFinal ==
    ASSUME ArtifactInv, building
    PROVE  Contents(build, Plan[step]) = Final(build, Plan[step])
  <1>1. step \in 1 .. 11 /\ build \in Builds
        /\ \A j \in 1 .. step - 1 : files[Plan[j]] = Final(build, Plan[j])
    BY PlanTable DEF ArtifactInv, BuilderInv, WrittenInv
  <1>2. CASE Plan[step][2] # "SHA256SUMS"
    BY <1>2 DEF Contents, Final
  <1>3. CASE Plan[step][2] = "SHA256SUMS"
    <2> DEFINE c == Plan[step][1]
    <2>1. \A i \in 1 .. 4 : files[<<c, Vouched[i]>>] = Product(build, <<c, Vouched[i]>>)
      <3> TAKE i \in 1 .. 4
      <3>1. PICK k \in 1 .. step - 1 : Plan[k] = <<c, Vouched[i]>>
        BY <1>1, <1>3, ManifestIsLast
      <3>2. files[<<c, Vouched[i]>>] = Final(build, <<c, Vouched[i]>>)
        BY <1>1, <3>1
      <3>3. <<c, Vouched[i]>>[2] # "SHA256SUMS"
        BY NamesDiffer
      <3> QED BY <3>2, <3>3 DEF Final
    <2> HIDE DEF c
    <2>2. Sums(c) = BuildSums(build, c)
      BY <2>1, NamesAre DEF Sums, BuildSums
    <2> QED BY <1>3, <2>2 DEF Contents, Final, c
  <1> QED BY <1>2, <1>3

LEMMA FileChanges ==
    ASSUME ArtifactInv, NEW path \in Paths, NEW f, NEW b \in Builds,
           RemainsOf(f, Final(b, path)), files' = [files EXCEPT ![path] = f]
    PROVE  FilesInv' /\ files'[path] = f /\ \A p \in Paths : p # path => files'[p] = files[p]
  <1>1. DOMAIN files = Paths /\ \A p \in Paths : \E a \in Builds : RemainsOf(files[p], Final(a, p))
    BY DEF ArtifactInv, FilesInv
  <1>2. DOMAIN files' = Paths /\ files'[path] = f /\ \A p \in Paths : p # path => files'[p] = files[p]
    BY <1>1
  <1>3. \A p \in Paths : \E a \in Builds : RemainsOf(files'[p], Final(a, p))
    <2> TAKE p \in Paths
    <2>1. CASE p = path
      BY <1>2, <2>1
    <2>2. CASE p # path
      BY <1>1, <1>2, <2>2
    <2> QED BY <2>1, <2>2
  <1>4. FilesInv'
    BY <1>2, <1>3 DEF FilesInv
  <1> QED BY <1>2, <1>4

LEMMA StartBuildInv ==
    ASSUME ArtifactInv, NEW b \in Builds, StartBuild(b)
    PROVE  ArtifactInv'
  <1>1. building' = TRUE /\ build' = b /\ step' = 1 /\ damaged' = FALSE /\ files' = files /\ held' = held
    BY DEF StartBuild
  <1>2. BuilderInv' /\ WrittenInv' /\ AssertedInv'
    <2>1. 1 \in 1 .. Len(Plan) + 1 /\ 1 <= Len(Plan) /\ \A j \in 1 .. 1 - 1 : FALSE
      BY PlanTable
    <2> QED BY <1>1, <2>1 DEF BuilderInv, WrittenInv, AssertedInv
  <1>3. FilesInv' /\ HeldInv'
    BY <1>1 DEF ArtifactInv, FilesInv, HeldInv
  <1> QED BY <1>2, <1>3 DEF ArtifactInv

\* Neither a torn write nor a whole one reaches the files written before.
LEMMA EarlierFilesStay ==
    ASSUME ArtifactInv, building, NEW f, files' = [files EXCEPT ![Plan[step]] = f]
    PROVE  \A j \in 1 .. step - 1 : files'[Plan[j]] = Final(build, Plan[j])
  <1>1. step \in 1 .. 11 /\ DOMAIN files = Paths
        /\ \A j \in 1 .. step - 1 : files[Plan[j]] = Final(build, Plan[j])
    BY PlanTable DEF ArtifactInv, BuilderInv, FilesInv, WrittenInv
  <1> TAKE j \in 1 .. step - 1
  <1>2. j \in 1 .. 11 /\ j # step
    BY <1>1
  <1>3. Plan[j] # Plan[step] /\ Plan[j] \in Paths
    BY <1>1, <1>2, PlanInjective, PathsAre
  <1> QED BY <1>1, <1>3

LEMMA WriteSomeInv ==
    ASSUME ArtifactInv, NEW n \in Nat, NEW cut \in BOOLEAN, WriteSome(n, cut)
    PROVE  ArtifactInv'
  <1> DEFINE path == Plan[step]
             new == Contents(build, path)
             some == SubSeq(new, 1, n)
             f == IF cut THEN Append(some, [new[n + 1] EXCEPT !.data = Short]) ELSE some
  <1>1. /\ building /\ n < Len(new)
        /\ files' = [files EXCEPT ![path] = f]
        /\ UNCHANGED <<building, build, step, damaged, held>>
    BY DEF WriteSome, Over, damage
  <1>2. step \in 1 .. 11 /\ build \in Builds /\ path \in Paths
    BY <1>1, PlanTable, PathsAre DEF ArtifactInv, BuilderInv
  <1>3. new = Final(build, path)
    BY <1>1, ContentsAreFinal
  <1>4. Len(new) \in Nat /\ Listed(new, Len(new))
    BY <1>2, <1>3, FinalListed
  <1>5. RemainsOf(f, Final(build, path))
    <2> HIDE DEF new, path
    <2> QED BY <1>1, <1>3, <1>4, PrefixRemains
  <1> HIDE DEF f, new
  <1>6. FilesInv'
    BY <1>1, <1>2, <1>5, FileChanges
  <1>7. WrittenInv'
    BY <1>1, EarlierFilesStay DEF WrittenInv
  <1>8. BuilderInv' /\ AssertedInv' /\ HeldInv'
    BY <1>1 DEF ArtifactInv, BuilderInv, AssertedInv, HeldInv, LayoutAsserted
  <1> QED BY <1>6, <1>7, <1>8 DEF ArtifactInv

LEMMA WriteRestInv ==
    ASSUME ArtifactInv, WriteRest
    PROVE  ArtifactInv'
  <1> DEFINE path == Plan[step]
             new == Contents(build, path)
  <1>1. /\ building
        /\ files' = [files EXCEPT ![path] = new]
        /\ IF LayoutAsserted(build, path) THEN step' = step + 1 ELSE step' = step
        /\ building' = (step' = step + 1 /\ step < Len(Plan))
        /\ UNCHANGED <<build, damaged, held>>
    BY DEF WriteRest, Over, damage
  <1>2. step \in 1 .. 11 /\ build \in Builds /\ path \in Paths /\ damaged = FALSE
    BY <1>1, PlanTable, PathsAre DEF ArtifactInv, BuilderInv
  <1>3. new = Final(build, path)
    BY <1>1, ContentsAreFinal
  <1>4. Len(new) \in Nat /\ Listed(new, Len(new))
    BY <1>2, <1>3, FinalListed
  <1>5. RemainsOf(new, Final(build, path))
    BY <1>3, <1>4, WholeRemains
  <1> HIDE DEF new
  <1>6. FilesInv' /\ files'[path] = Final(build, path)
    BY <1>1, <1>2, <1>3, <1>5, FileChanges
  <1>7. \A j \in 1 .. step - 1 : files'[Plan[j]] = Final(build, Plan[j])
    BY <1>1, EarlierFilesStay
  <1>8. step' = step \/ (step' = step + 1 /\ LayoutAsserted(build, path))
    <2>1. IF LayoutAsserted(build, path) THEN step' = step + 1 ELSE step' = step
      BY <1>1
    <2> QED BY <2>1
  <1>9. \A j \in 1 .. step' - 1 : j \in 1 .. step - 1 \/ (j = step /\ step' = step + 1)
    <2>1. step' = step \/ step' = step + 1
      BY <1>8
    <2> QED BY <1>2, <2>1
  <1>10. WrittenInv'
    BY <1>1, <1>6, <1>7, <1>9 DEF WrittenInv
  <1>11. AssertedInv'
    <2>1. \A j \in 1 .. step - 1 : LayoutAsserted(build, Plan[j])
      BY DEF ArtifactInv, AssertedInv
    <2>2. \A j \in 1 .. step' - 1 : LayoutAsserted(build, Plan[j])
      <3>1. step' = step + 1 => LayoutAsserted(build, Plan[step])
        BY <1>2, <1>8
      <3> QED BY <1>9, <2>1, <3>1
    <2> QED BY <1>1, <2>2 DEF AssertedInv, LayoutAsserted
  <1>12. BuilderInv'
    <2>1. step' = step \/ step' = step + 1
      BY <1>8
    <2>2. step' \in 1 .. 12
      BY <1>2, <2>1
    <2>3. building' \in BOOLEAN /\ (building' => step' = step + 1 /\ step < Len(Plan))
      BY <1>1
    <2>4. Len(Plan) = 11 /\ Len(Plan)' = 11 /\ 11 + 1 = 12
      BY PlanTable
    <2>5. building' => step' <= 11
      BY <1>2, <2>3, <2>4
    <2> QED BY <1>1, <1>2, <2>2, <2>3, <2>4, <2>5 DEF BuilderInv
  <1>13. HeldInv'
    BY <1>1 DEF ArtifactInv, HeldInv
  <1> QED BY <1>6, <1>10, <1>11, <1>12, <1>13 DEF ArtifactInv

LEMMA CrashInv ==
    ASSUME ArtifactInv, Crash
    PROVE  ArtifactInv'
  <1>1. building' = FALSE /\ step' = 1 /\ UNCHANGED <<files, build, damaged, held>>
    BY DEF Crash, damage
  <1>2. BuilderInv' /\ WrittenInv' /\ AssertedInv'
    <2>1. 1 \in 1 .. Len(Plan) + 1 /\ \A j \in 1 .. 1 - 1 : FALSE
      BY PlanTable
    <2> QED BY <1>1, <2>1 DEF ArtifactInv, BuilderInv, WrittenInv, AssertedInv
  <1>3. FilesInv' /\ HeldInv'
    BY <1>1 DEF ArtifactInv, FilesInv, HeldInv
  <1> QED BY <1>2, <1>3 DEF ArtifactInv

LEMMA DamageInv ==
    ASSUME ArtifactInv, NEW path \in Paths, NEW n, Damage(path, n)
    PROVE  ArtifactInv'
  <1> DEFINE f == [files[path] EXCEPT ![n].data = Garbage]
  <1>1. /\ ~building /\ n \in DOMAIN files[path] /\ damaged' = TRUE
        /\ files' = [files EXCEPT ![path][n].data = Garbage]
        /\ UNCHANGED <<building, build, step, held>>
    BY DEF Damage, builder
  <1>2. files' = [files EXCEPT ![path] = f]
    BY <1>1
  <1>3. PICK b \in Builds : RemainsOf(files[path], Final(b, path))
    BY DEF ArtifactInv, FilesInv
  <1>4. RemainsOf(f, Final(b, path))
    BY <1>1, <1>3, FinalListed, DamageRemains
  <1> HIDE DEF f
  <1>5. FilesInv'
    BY <1>2, <1>3, <1>4, FileChanges
  <1>6. BuilderInv' /\ AssertedInv' /\ HeldInv'
    BY <1>1 DEF ArtifactInv, BuilderInv, AssertedInv, HeldInv, LayoutAsserted
  <1>7. WrittenInv'
    BY <1>1 DEF WrittenInv
  <1> QED BY <1>5, <1>6, <1>7 DEF ArtifactInv

LEMMA ReadKeyInv ==
    ASSUME ArtifactInv, NEW c \in Circuits, ReadKey(c)
    PROVE  ArtifactInv'
  <1> DEFINE data == files[<<c, "proving_key.bin">>]
  <1>1. /\ held' = << [circuit |-> c, data |-> data] >>
        /\ UNCHANGED <<files, building, build, step, damaged>>
    BY DEF ReadKey, builder, damage
  <1>2. <<c, "proving_key.bin">> \in Paths /\ <<c, "proving_key.bin">>[2] # "SHA256SUMS"
    BY PathsAre, NamesDiffer, 1 \in 1 .. 4
  <1>3. PICK b \in Builds : RemainsOf(data, Product(b, <<c, "proving_key.bin">>))
    BY <1>2 DEF ArtifactInv, FilesInv, Final
  <1> HIDE DEF data
  <1>4. held'[1].data = data
    BY <1>1
  <1>5. HeldInv'
    BY <1>1, <1>3, <1>4 DEF HeldInv
  <1>6. BuilderInv' /\ FilesInv' /\ WrittenInv' /\ AssertedInv'
    BY <1>1 DEF ArtifactInv, BuilderInv, FilesInv, WrittenInv, AssertedInv, LayoutAsserted
  <1> QED BY <1>5, <1>6 DEF ArtifactInv

LEMMA LoadKeyInv ==
    ASSUME ArtifactInv, LoadKey
    PROVE  ArtifactInv'
  <1>1. held' = << >> /\ UNCHANGED <<files, building, build, step, damaged>>
    BY DEF LoadKey, builder, damage
  <1> QED BY <1>1 DEF ArtifactInv, BuilderInv, FilesInv, WrittenInv, AssertedInv, LayoutAsserted, HeldInv

LEMMA StepInv ==
    ASSUME ArtifactInv, [Next]_vars
    PROVE  ArtifactInv'
  <1>1. ASSUME NEW b \in Builds, StartBuild(b)
        PROVE  ArtifactInv'
    BY <1>1, StartBuildInv
  <1>2. ASSUME NEW tear \in Tears, WriteSome(tear[1], tear[2])
        PROVE  ArtifactInv'
    <2>1. tear[1] \in Nat /\ tear[2] \in BOOLEAN
      BY ArtifactAssumption
    <2> QED BY <1>2, <2>1, WriteSomeInv
  <1>3. CASE WriteRest
    BY <1>3, WriteRestInv
  <1>4. CASE Crash
    BY <1>4, CrashInv
  <1>5. ASSUME NEW path \in Paths, NEW n \in 1 .. 8, Damage(path, n)
        PROVE  ArtifactInv'
    BY <1>5, DamageInv
  <1>6. ASSUME NEW c \in Circuits, ReadKey(c)
        PROVE  ArtifactInv'
    BY <1>6, ReadKeyInv
  <1>7. CASE LoadKey
    BY <1>7, LoadKeyInv
  <1>8. CASE UNCHANGED vars
    <2>1. UNCHANGED <<files, building, build, step, damaged, held>>
      BY <1>8 DEF vars, builder, damage
    <2> QED BY <2>1 DEF ArtifactInv, BuilderInv, FilesInv, WrittenInv, AssertedInv, LayoutAsserted, HeldInv
  <1> QED BY <1>1, <1>2, <1>3, <1>4, <1>5, <1>6, <1>7, <1>8 DEF Next

\* ArtifactInv holds in every reachable state.
THEOREM ArtifactInvariant == Spec => []ArtifactInv
  BY InitInv, StepInv, PTL DEF Spec

-----------------------------------------------------------------------------
(* Keys that load, manifests that match *)

\* A manifest line, cut short or overwritten as it may be, still names its file,
\* and gives that file's digest or none.
LEMMA ManifestLines ==
    ASSUME NEW b, NEW c, NEW sums, RemainsOf(sums, BuildSums(b, c)), NEW i \in DOMAIN sums
    PROVE  /\ i \in 1 .. 4
           /\ sums[i].key = Vouched[i]
           /\ sums[i].data \in {Product(b, <<c, Vouched[i]>>), Garbage, Short}
  <1> DEFINE text == BuildSums(b, c)
  <1>1. Listed(text, 4)
        /\ \A k \in 1 .. 4 : text[k] = [key |-> Vouched[k], data |-> Product(b, <<c, Vouched[k]>>)]
    BY NamesAre DEF Listed, BuildSums
  <1>2. Len(text) = 4
    BY <1>1, 4 \in Nat, ListLen
  <1> HIDE DEF text
  <1>3. PICK n \in 0 .. 4 : DOMAIN sums = 1 .. n /\ \A k \in 1 .. n : sums[k] \in Spoilt(text[k])
    BY <1>2 DEF RemainsOf, text
  <1>4. i \in 1 .. n /\ i \in 1 .. 4
    BY <1>3
  <1>5. sums[i] \in Spoilt([key |-> Vouched[i], data |-> Product(b, <<c, Vouched[i]>>)])
    BY <1>1, <1>3, <1>4
  <1> QED BY <1>4, <1>5, SpoiltEntry

LEMMA OnlyValidKeys ==
    ASSUME ArtifactInv
    PROVE  OnlyValidKeysLoad
  <1> SUFFICES ASSUME held # << >>, Loads(held[1])
               PROVE  \E b \in Builds :
                         held[1].data = Product(b, <<held[1].circuit, "proving_key.bin">>)
    BY DEF OnlyValidKeysLoad
  <1>1. PICK c \in Circuits, b \in Builds :
           /\ held = << [circuit |-> c, data |-> held[1].data] >>
           /\ RemainsOf(held[1].data, Product(b, <<c, "proving_key.bin">>))
    BY DEF ArtifactInv, HeldInv
  <1> DEFINE data == held[1].data
             text == Product(b, <<c, "proving_key.bin">>)
  <1>2. held[1].circuit = c
    BY <1>1
  <1>3. Complete(data) /\ (HashMatches(files[<<c, "SHA256SUMS">>], data) \/ ValidPoints(data))
    BY <1>2 DEF Loads
  <1>4. Listed(text, 2) /\ text = << Part(b, c, 1), Part(b, c, 2) >>
    <2>1. text = << Part(b, c, 1), Part(b, c, 2) >>
      BY Products
    <2> QED BY <2>1, Tuples
  <1>5. Len(text) = 2
    BY <1>4, 2 \in Nat, ListLen
  <1> HIDE DEF data, text
  <1>6. PICK n \in 0 .. 2 : /\ DOMAIN data = 1 .. n /\ data = [i \in 1 .. n |-> data[i]]
                            /\ \A i \in 1 .. n : data[i] \in Spoilt(text[i])
    BY <1>1, <1>5 DEF RemainsOf, data, text
  <1>7. CASE ValidPoints(data)
    <2>1. n = 2
      <3>1. Listed(data, n) /\ n \in Nat
        BY <1>6 DEF Listed
      <3> QED BY <1>3, <3>1, ListLen DEF Complete
    <2>2. \A i \in 1 .. 2 : data[i].data # Garbage /\ data[i].data # Short
      BY <1>3, <1>6, <1>7, <2>1 DEF Complete, ValidPoints
    <2>3. \A i \in 1 .. 2 : text[i] = Part(b, c, i)
      BY <1>4
    <2>4. \A i \in 1 .. 2 : data[i] = text[i]
      <3> TAKE i \in 1 .. 2
      <3>1. data[i] \in Spoilt(Part(b, c, i))
        BY <1>6, <2>1, <2>3
      <3>2. data[i] = Part(b, c, i) \/ \E mark \in {Garbage, Short} :
                                          data[i] = [Part(b, c, i) EXCEPT !.data = mark]
        BY <3>1 DEF Spoilt
      <3>3. ASSUME NEW mark \in {Garbage, Short}, data[i] = [Part(b, c, i) EXCEPT !.data = mark]
            PROVE  FALSE
        <4>1. data[i].data = mark
          BY <3>3 DEF Part
        <4> QED BY <4>1, <2>2
      <3> QED BY <2>3, <3>2, <3>3
    <2>5. data = text
      BY <1>4, <1>6, <2>1, <2>4 DEF Listed
    <2> QED BY <1>2, <2>5 DEF data, text
  <1>8. CASE HashMatches(files[<<c, "SHA256SUMS">>], data)
    <2> DEFINE sums == files[<<c, "SHA256SUMS">>]
    <2>1. PICK i \in LinesOf(sums, "proving_key.bin") : sums[i].data = data
      BY <1>8 DEF HashMatches
    <2>2. PICK a \in Builds : RemainsOf(sums, BuildSums(a, c))
      <3>1. <<c, "SHA256SUMS">> \in Paths /\ <<c, "SHA256SUMS">>[2] = "SHA256SUMS"
            /\ <<c, "SHA256SUMS">>[1] = c
        BY PathsAre, NamesDiffer
      <3> QED BY <3>1 DEF ArtifactInv, FilesInv, Final
    <2> HIDE DEF sums
    <2>3. i \in DOMAIN sums /\ sums[i].key = "proving_key.bin"
      BY <2>1 DEF LinesOf
    <2>4. i \in 1 .. 4 /\ sums[i].key = Vouched[i]
          /\ sums[i].data \in {Product(a, <<c, Vouched[i]>>), Garbage, Short}
      BY <2>2, <2>3, ManifestLines
    <2>5. Vouched[i] = "proving_key.bin"
      BY <2>3, <2>4
    <2>6. data \in {Product(a, <<c, "proving_key.bin">>), Garbage, Short}
      BY <2>1, <2>4, <2>5
    <2>7. data # Garbage /\ data # Short
      <3>1. 1 \in 1 .. 4 /\ Vouched[1] = "proving_key.bin"
        BY NamesDiffer
      <3>2. RemainsOf(data, Product(b, <<c, Vouched[1]>>))
        BY <1>1, <3>1 DEF data
      <3> QED BY <3>1, <3>2, MarksAreNoFiles
    <2> QED BY <1>2, <2>6, <2>7 DEF data
  <1> QED BY <1>3, <1>7, <1>8

LEMMA ManifestVouches ==
    ASSUME ArtifactInv
    PROVE  ManifestVouchesOneBuild
  <1> SUFFICES ASSUME NEW c \in Circuits, files[<<c, "SHA256SUMS">>] = Sums(c)
               PROVE  \E b \in Builds : \A i \in DOMAIN Vouched :
                         files[<<c, Vouched[i]>>] = Product(b, <<c, Vouched[i]>>)
    BY DEF ManifestVouchesOneBuild
  <1>1. PICK b \in Builds : RemainsOf(Sums(c), BuildSums(b, c))
    <2>1. <<c, "SHA256SUMS">> \in Paths /\ <<c, "SHA256SUMS">>[2] = "SHA256SUMS"
          /\ <<c, "SHA256SUMS">>[1] = c
      BY PathsAre, NamesDiffer
    <2> QED BY <2>1 DEF ArtifactInv, FilesInv, Final
  <1>2. DOMAIN Sums(c) = 1 .. 4 /\ \A i \in 1 .. 4 : Sums(c)[i].data = files[<<c, Vouched[i]>>]
    BY NamesAre DEF Sums
  <1>3. \A i \in 1 .. 4 : files[<<c, Vouched[i]>>] = Product(b, <<c, Vouched[i]>>)
    <2> TAKE i \in 1 .. 4
    <2>1. files[<<c, Vouched[i]>>] \in {Product(b, <<c, Vouched[i]>>), Garbage, Short}
      <3>1. i \in DOMAIN Sums(c)
        BY <1>2
      <3> QED BY <1>1, <1>2, <3>1, ManifestLines
    <2>2. PICK a \in Builds : RemainsOf(files[<<c, Vouched[i]>>], Product(a, <<c, Vouched[i]>>))
      <3>1. <<c, Vouched[i]>> \in Paths /\ <<c, Vouched[i]>>[2] # "SHA256SUMS"
        BY PathsAre, NamesDiffer
      <3> QED BY <3>1 DEF ArtifactInv, FilesInv, Final
    <2> QED BY <2>1, <2>2, MarksAreNoFiles
  <1> QED BY <1>1, <1>3, NamesAre

\* However torn, damaged or half-replaced the directory and however the reads of a
\* prover fall between the writes of a builder, for any sources and keys.
THEOREM OnlySetupKeysLoad == Spec => []OnlyValidKeysLoad
  BY ArtifactInvariant, OnlyValidKeys, PTL

\* A matching manifest and the four files it names are of one build, for any
\* number of builds, interruptions and damages.
THEOREM ManifestsVouch == Spec => []ManifestVouchesOneBuild
  BY ArtifactInvariant, ManifestVouches, PTL

-----------------------------------------------------------------------------
(* Digits *)

LEMMA DivMod ==
    ASSUME NEW x \in Nat, NEW m \in Nat \ {0}
    PROVE  x % m \in 0 .. m - 1 /\ x \div m \in Nat /\ x = m * (x \div m) + (x % m)
  OBVIOUS

LEMMA DivUnique ==
    ASSUME NEW m \in Nat \ {0}, NEW q \in Nat, NEW r \in 0 .. m - 1
    PROVE  (m * q + r) \div m = q /\ (m * q + r) % m = r
  OBVIOUS

LEMMA DivTwice ==
    ASSUME NEW x \in Nat, NEW m \in Nat \ {0}
    PROVE  x \div (m * m) = (x \div m) \div m /\ m * m \in Nat \ {0}
  <1> DEFINE q == x \div m
             r == x % m
             p == q \div m
             s == q % m
  <1>1. q \in Nat /\ r \in 0 .. m - 1 /\ x = m * q + r
    BY DivMod
  <1>2. p \in Nat /\ s \in 0 .. m - 1 /\ q = m * p + s
    BY <1>1, DivMod
  <1> HIDE DEF q, r, p, s
  <1>3. m * m \in Nat \ {0}
    OBVIOUS
  <1>4. m * (m * p + s) = (m * m) * p + m * s
    BY <1>2
  <1>5. x = (m * m) * p + (m * s + r)
    BY <1>1, <1>2, <1>4
  <1>6. m * s + r \in 0 .. m * m - 1
    <2>1. m * s <= m * (m - 1)
      BY <1>2
    <2>2. m * (m - 1) = m * m - m
      OBVIOUS
    <2>3. m * s \in Nat
      BY <1>2
    <2> QED BY <1>1, <2>1, <2>2, <2>3, <1>3
  <1>7. x \div (m * m) = p
    BY <1>2, <1>3, <1>5, <1>6, DivUnique
  <1> QED BY <1>3, <1>7 DEF p, q

\* The digits of a coordinate give it back, and leave the flag's bit alone.
LEMMA Digits ==
    ASSUME NEW x \in 0 .. CoordOrder - 1
    PROVE  /\ FqFromBe(FqBe(x)) = x
           /\ Listed(FqBe(x), 3)
           /\ ~IsInfinity(FqBe(x))
  <1>1. Base \in Nat \ {0} /\ CoordOrder \in Nat /\ CoordOrder <= 2 * Base * Base
    BY HashAssumption, CoordAssumption
  <1>2. x \in Nat /\ x < CoordOrder
    BY <1>1
  <1> DEFINE q == x \div Base
             d1 == x \div (Base * Base)
             d2 == q % Base
             d3 == x % Base
  <1>3. q \in Nat /\ d3 \in 0 .. Base - 1 /\ x = Base * q + d3
    BY <1>1, <1>2, DivMod
  <1>4. d1 = q \div Base /\ Base * Base \in Nat \ {0}
    BY <1>1, <1>2, DivTwice
  <1>5. d1 \in Nat /\ d2 \in 0 .. Base - 1 /\ q = Base * d1 + d2
    BY <1>1, <1>3, <1>4, DivMod
  <1>6. FqBe(x) = <<d1, d2, d3>>
    BY DEF FqBe
  <1>7. FqFromBe(FqBe(x)) = (d1 * Base * Base + d2 * Base + d3) % CoordOrder
    BY <1>6 DEF FqFromBe
  <1>8. IsInfinity(FqBe(x)) <=> (d1 \div 2) % 2 = 1
    BY <1>6 DEF IsInfinity, InfinityFlag
  <1> HIDE DEF q, d1, d2, d3
  <1>9. x = d1 * Base * Base + d2 * Base + d3
    <2>1. Base * (Base * d1 + d2) = d1 * Base * Base + d2 * Base
      BY <1>1, <1>5
    <2> QED BY <1>3, <1>5, <2>1
  <1>10. x % CoordOrder = x
    BY <1>1, <1>2
  <1>11. d1 \in {0, 1}
    <2>1. d1 * Base * Base = (Base * Base) * d1 /\ 2 * Base * Base = (Base * Base) * 2
      BY <1>1, <1>5
    <2>2. d2 * Base \in Nat
      BY <1>1, <1>5
    <2>3. (Base * Base) * d1 < (Base * Base) * 2
      BY <1>1, <1>2, <1>3, <1>4, <1>5, <1>9, <2>1, <2>2
    <2>4. d1 < 2
      <3>1. CASE d1 >= 2
        <4>1. (Base * Base) * d1 >= (Base * Base) * 2
          BY <1>4, <1>5, <3>1
        <4> QED BY <1>4, <1>5, <2>3, <4>1
      <3> QED BY <1>5, <3>1
    <2> QED BY <1>5, <2>4
  <1>12. 0 \div 2 = 0 /\ 1 \div 2 = 0 /\ 0 % 2 = 0
    OBVIOUS
  <1>13. ~IsInfinity(FqBe(x))
    BY <1>8, <1>11, <1>12
  <1>14. Listed(FqBe(x), 3)
    BY <1>6, Tuples
  <1> QED BY <1>7, <1>9, <1>10, <1>13, <1>14

\* Three digits out of a longer string.
LEMMA DigitsWithin ==
    ASSUME NEW x \in 0 .. CoordOrder - 1, NEW n \in Nat, NEW u, Listed(u, n),
           NEW k \in Nat, 1 <= k, k + 2 <= n,
           u[k] = FqBe(x)[1], u[k + 1] = FqBe(x)[2], u[k + 2] = FqBe(x)[3]
    PROVE  FqFromBe(SubSeq(u, k, k + 2)) = x
  <1> DEFINE S == {u[i] : i \in 1 .. n}
             v == SubSeq(u, k, k + 2)
  <1>1. u \in Seq(S) /\ Len(u) = n
    BY ListLen
  <1>2. \A i \in k .. k + 2 : u[i] \in S
    OBVIOUS
  <1> HIDE DEF S
  <1>3. \A i \in 1 .. (k + 2) - k + 1 : v[i] = u[k + i - 1]
    BY <1>1, <1>2, SubSeqProperties
  <1>4. 1 \in 1 .. (k + 2) - k + 1 /\ 2 \in 1 .. (k + 2) - k + 1 /\ 3 \in 1 .. (k + 2) - k + 1
        /\ k + 1 - 1 = k /\ k + 2 - 1 = k + 1 /\ k + 3 - 1 = k + 2
    OBVIOUS
  <1> HIDE DEF v
  <1>5. v[1] = u[k] /\ v[2] = u[k + 1] /\ v[3] = u[k + 2]
    BY <1>3, <1>4
  <1>6. FqFromBe(v) = FqFromBe(FqBe(x))
    BY <1>5 DEF FqFromBe
  <1> QED BY <1>6, Digits DEF v

LEMMA G1RoundTrip ==
    ASSUME NEW point \in Range(G1)
    PROVE  G1FromBytes(G1ToBytes(point)) = point
  <1>1. PICK e \in Fr : point = G1[e]
    BY DEF Range, G1
  <1>2. FieldOrder \in Nat \ {0} /\ CoordOrder \in Nat /\ FieldOrder < CoordOrder
    BY HashAssumption, CoordAssumption
  <1>3. CASE e = 0
    <2>1. point = << >>
      BY <1>1, <1>3 DEF G1, Identity
    <2>2. G1ToBytes(point) = <<2, 0, 0, 0, 0, 0>>
      BY <2>1 DEF G1ToBytes, Identity, InfinityFlag
    <2>3. IsInfinity(<<2, 0, 0, 0, 0, 0>>)
      BY DEF IsInfinity, InfinityFlag
    <2> QED BY <2>1, <2>2, <2>3 DEF G1FromBytes, Identity
  <1>4. CASE e # 0
    <2> DEFINE y == CoordOrder - e
               bytes == FqBe(e) \o FqBe(y)
    <2>1. point = <<e, y>> /\ point # << >>
      BY <1>1, <1>4 DEF G1
    <2>2. e \in 0 .. CoordOrder - 1 /\ y \in 0 .. CoordOrder - 1
      BY <1>2, <1>4 DEF Fr
    <2> HIDE DEF y
    <2>3. G1ToBytes(point) = bytes
      BY <2>1 DEF G1ToBytes, Identity
    <2>4. Concat(bytes, FqBe(e), 3, FqBe(y), 3)
      BY <2>2, 3 \in Nat, Digits, ListConcat
    <2>5. Listed(bytes, 6)
      BY <2>4, 3 + 3 = 6 DEF Concat
    <2>6. /\ bytes[1] = FqBe(e)[1] /\ bytes[1 + 1] = FqBe(e)[2] /\ bytes[1 + 2] = FqBe(e)[3]
          /\ bytes[4] = FqBe(y)[1] /\ bytes[4 + 1] = FqBe(y)[2] /\ bytes[4 + 2] = FqBe(y)[3]
      <3>1. 1 \in 1 .. 3 /\ 2 \in 1 .. 3 /\ 3 \in 1 .. 3 /\ 1 + 1 = 2 /\ 1 + 2 = 3
            /\ 3 + 1 = 4 /\ 3 + 2 = 5 /\ 3 + 3 = 6 /\ 4 + 1 = 5 /\ 4 + 2 = 6
        OBVIOUS
      <3> HIDE DEF bytes
      <3> QED BY <2>4, <3>1 DEF Concat
    <2> HIDE DEF bytes
    <2>7. FqFromBe(SubSeq(bytes, 1, 1 + 2)) = e
      BY <2>2, <2>5, <2>6, 6 \in Nat, 1 \in Nat, 1 <= 1, 1 + 2 <= 6, DigitsWithin
    <2>8. FqFromBe(SubSeq(bytes, 4, 4 + 2)) = y
      BY <2>2, <2>5, <2>6, 6 \in Nat, 4 \in Nat, 1 <= 4, 4 + 2 <= 6, DigitsWithin
    <2>9. ~IsInfinity(bytes)
      BY <2>2, <2>6, Digits DEF IsInfinity
    <2>10. G1FromBytes(bytes) = <<e, y>>
      BY <2>7, <2>8, <2>9, 1 + 2 = 3, 4 + 2 = 6 DEF G1FromBytes
    <2> QED BY <2>1, <2>3, <2>10
  <1> QED BY <1>3, <1>4

LEMMA G2RoundTrip ==
    ASSUME NEW point \in Range(G2)
    PROVE  G2FromBytes(G2ToBytes(point)) = point
  <1>1. PICK e \in Fr : point = G2[e]
    BY DEF Range, G2
  <1>2. FieldOrder \in Nat \ {0} /\ CoordOrder \in Nat /\ FieldOrder < CoordOrder
    BY HashAssumption, CoordAssumption
  <1>3. CASE e = 0
    <2> DEFINE flag == <<InfinityFlag>>
               zeros == [i \in 1 .. 11 |-> 0]
    <2>1. point = << >>
      BY <1>1, <1>3 DEF G2, Identity
    <2>2. G2ToBytes(point) = flag \o zeros
      BY <2>1 DEF G2ToBytes, Identity
    <2>3. Listed(flag, 1) /\ flag[1] = 2 /\ Listed(zeros, 11)
      BY DEF Listed, InfinityFlag
    <2> HIDE DEF flag, zeros
    <2>4. Concat(flag \o zeros, flag, 1, zeros, 11)
      BY <2>3, 1 \in Nat, 11 \in Nat, ListConcat
    <2>5. (flag \o zeros)[1] = 2
      BY <2>3, <2>4, 1 \in 1 .. 1 DEF Concat
    <2>6. IsInfinity(flag \o zeros)
      BY <2>5 DEF IsInfinity, InfinityFlag
    <2> QED BY <2>1, <2>2, <2>6 DEF G2FromBytes, Identity
  <1>4. CASE e # 0
    <2> DEFINE y == CoordOrder - e
               one == FqBe(0) \o FqBe(e)
               two == one \o FqBe(1)
               bytes == two \o FqBe(y)
    <2>1. point = <<e, 0, y, 1>> /\ point # << >>
      BY <1>1, <1>4 DEF G2
    <2>2. e \in 0 .. CoordOrder - 1 /\ y \in 0 .. CoordOrder - 1
          /\ 0 \in 0 .. CoordOrder - 1 /\ 1 \in 0 .. CoordOrder - 1
      BY <1>2, <1>4 DEF Fr
    <2> HIDE DEF y
    <2>3. G2ToBytes(point) = bytes
      BY <2>1 DEF G2ToBytes, Identity
    <2>4. Listed(FqBe(e), 3) /\ Listed(FqBe(y), 3) /\ Listed(FqBe(0), 3) /\ Listed(FqBe(1), 3)
      BY <2>2, Digits
    <2>5. Concat(one, FqBe(0), 3, FqBe(e), 3)
      BY <2>4, 3 \in Nat, ListConcat
    <2> HIDE DEF one
    <2>6. Listed(one, 6)
      BY <2>5, 3 + 3 = 6 DEF Concat
    <2>7. Concat(two, one, 6, FqBe(1), 3)
      BY <2>4, <2>6, 3 \in Nat, 6 \in Nat, ListConcat
    <2> HIDE DEF two
    <2>8. Listed(two, 9)
      BY <2>7, 6 + 3 = 9 DEF Concat
    <2>9. Concat(bytes, two, 9, FqBe(y), 3)
      BY <2>4, <2>8, 3 \in Nat, 9 \in Nat, ListConcat
    <2> HIDE DEF bytes
    <2>10. Listed(bytes, 12)
      BY <2>9, 9 + 3 = 12 DEF Concat
    <2>11. 1 \in 1 .. 3 /\ 2 \in 1 .. 3 /\ 3 \in 1 .. 3
      OBVIOUS
    <2>12. one[1] = FqBe(0)[1] /\ one[2] = FqBe(0)[2] /\ one[3] = FqBe(0)[3]
           /\ one[4] = FqBe(e)[1] /\ one[5] = FqBe(e)[2] /\ one[6] = FqBe(e)[3]
      BY <2>5, <2>11, 3 + 1 = 4, 3 + 2 = 5, 3 + 3 = 6 DEF Concat
    <2>13. /\ \A i \in 1 .. 6 : two[i] = one[i]
           /\ two[7] = FqBe(1)[1] /\ two[8] = FqBe(1)[2] /\ two[9] = FqBe(1)[3]
      BY <2>7, <2>11, 6 + 1 = 7, 6 + 2 = 8, 6 + 3 = 9 DEF Concat
    <2>14. /\ \A i \in 1 .. 9 : bytes[i] = two[i]
           /\ bytes[10] = FqBe(y)[1] /\ bytes[11] = FqBe(y)[2] /\ bytes[12] = FqBe(y)[3]
      BY <2>9, <2>11, 9 + 1 = 10, 9 + 2 = 11, 9 + 3 = 12 DEF Concat
    <2>15. \A i \in 1 .. 6 : bytes[i] = one[i]
      BY <2>13, <2>14
    <2>16. bytes[7] = two[7] /\ bytes[8] = two[8] /\ bytes[9] = two[9]
      BY <2>14
    <2>17. bytes[1] = one[1] /\ bytes[2] = one[2] /\ bytes[3] = one[3]
           /\ bytes[4] = one[4] /\ bytes[5] = one[5] /\ bytes[6] = one[6]
      BY <2>15
    <2>18. 1 + 1 = 2 /\ 1 + 2 = 3 /\ 4 + 1 = 5 /\ 4 + 2 = 6 /\ 7 + 1 = 8 /\ 7 + 2 = 9
           /\ 10 + 1 = 11 /\ 10 + 2 = 12
      OBVIOUS
    <2>19. FqFromBe(SubSeq(bytes, 1, 1 + 2)) = 0
      BY <2>2, <2>10, <2>12, <2>17, <2>18, 12 \in Nat, 1 \in Nat, 1 <= 1, 1 + 2 <= 12, DigitsWithin
    <2>20. FqFromBe(SubSeq(bytes, 4, 4 + 2)) = e
      BY <2>2, <2>10, <2>12, <2>17, <2>18, 12 \in Nat, 4 \in Nat, 1 <= 4, 4 + 2 <= 12, DigitsWithin
    <2>21. FqFromBe(SubSeq(bytes, 7, 7 + 2)) = 1
      BY <2>2, <2>10, <2>13, <2>16, <2>18, 12 \in Nat, 7 \in Nat, 1 <= 7, 7 + 2 <= 12, DigitsWithin
    <2>22. FqFromBe(SubSeq(bytes, 10, 10 + 2)) = y
      BY <2>2, <2>10, <2>14, <2>18, 12 \in Nat, 10 \in Nat, 1 <= 10, 10 + 2 <= 12, DigitsWithin
    <2>23. ~IsInfinity(bytes)
      BY <2>2, <2>12, <2>17, Digits DEF IsInfinity
    <2>24. G2FromBytes(bytes) = <<e, 0, y, 1>>
      BY <2>18, <2>19, <2>20, <2>21, <2>22, <2>23 DEF G2FromBytes
    <2> QED BY <2>1, <2>3, <2>24
  <1> QED BY <1>3, <1>4

-----------------------------------------------------------------------------
(* The key file *)

LEMMA HeaderIs ==
    /\ Header[1] = "alpha" /\ Header[2] = "beta" /\ Header[3] = "gamma" /\ Header[4] = "delta"
    /\ \A i \in 1 .. 4 : Header[i] # "ic"
    /\ \A i, j \in 1 .. 4 : Header[i] = Header[j] => i = j
  <1>1. \A i \in 1 .. 4 : i = 1 \/ i = 2 \/ i = 3 \/ i = 4
    OBVIOUS
  <1>2. Header[1] = "alpha" /\ Header[2] = "beta" /\ Header[3] = "gamma" /\ Header[4] = "delta"
    BY DEF Header
  <1> QED BY <1>1, <1>2

\* An encoding is a string of digits, and so never a mark.
LEMMA EncodingsAreStrings ==
    /\ \A point \in Range(G1) : G1ToBytes(point) \in Seq(Nat)
    /\ \A point \in Range(G2) : G2ToBytes(point) \in Seq(Nat)
  <1>1. FieldOrder \in Nat \ {0} /\ CoordOrder \in Nat /\ FieldOrder < CoordOrder
        /\ Base \in Nat \ {0} /\ Base * Base \in Nat \ {0}
    <2>1. FieldOrder \in Nat \ {0} /\ CoordOrder \in Nat /\ FieldOrder < CoordOrder /\ Base \in Nat \ {0}
      BY HashAssumption, CoordAssumption
    <2>2. Base * Base \in Nat \ {0}
      BY <2>1
    <2> QED BY <2>1, <2>2
  <1>2. \A x \in Nat : FqBe(x) \in Seq(Nat)
    <2> TAKE x \in Nat
    <2>1. x \div (Base * Base) \in Nat /\ x \div Base \in Nat /\ x % Base \in Nat
      <3> DEFINE m == Base * Base
      <3>1. m \in Nat \ {0}
        BY <1>1
      <3> HIDE DEF m
      <3>2. x \div m \in Nat /\ x \div Base \in Nat /\ x % Base \in 0 .. Base - 1
        BY <1>1, <3>1, DivMod
      <3> QED BY <3>2 DEF m
    <2>2. (x \div Base) % Base \in Nat
      <3> DEFINE y == x \div Base
      <3>1. y \in Nat
        BY <2>1
      <3> HIDE DEF y
      <3>2. y % Base \in 0 .. Base - 1
        BY <1>1, <3>1, DivMod
      <3> QED BY <3>2 DEF y
    <2> QED BY <2>1, <2>2 DEF FqBe
  <1>3. \A s, t \in Seq(Nat) : s \o t \in Seq(Nat)
    BY ConcatProperties
  <1>4. ASSUME NEW point \in Range(G1)
        PROVE  G1ToBytes(point) \in Seq(Nat)
    <2>1. PICK e \in Fr : point = G1[e]
      BY DEF Range, G1
    <2>2. CASE e = 0
      <3>1. point = Identity
        BY <2>1, <2>2 DEF G1
      <3>2. <<2, 0, 0, 0, 0, 0>> \in Seq(Nat)
        OBVIOUS
      <3> QED BY <3>1, <3>2 DEF G1ToBytes, InfinityFlag
    <2>3. CASE e # 0
      <3>1. e \in Nat /\ CoordOrder - e \in Nat
        BY <1>1 DEF Fr
      <3>2. point = <<e, CoordOrder - e>>
        BY <2>1, <2>3 DEF G1
      <3>3. point # Identity /\ point[1] = e /\ point[2] = CoordOrder - e
        BY <3>2 DEF Identity
      <3>4. FqBe(e) \in Seq(Nat) /\ FqBe(CoordOrder - e) \in Seq(Nat)
        BY <1>2, <3>1
      <3>5. G1ToBytes(point) = FqBe(e) \o FqBe(CoordOrder - e)
        BY <3>3 DEF G1ToBytes
      <3> QED BY <1>3, <3>4, <3>5
    <2> QED BY <2>2, <2>3
  <1>5. ASSUME NEW point \in Range(G2)
        PROVE  G2ToBytes(point) \in Seq(Nat)
    <2>1. PICK e \in Fr : point = G2[e]
      BY DEF Range, G2
    <2>2. CASE e = 0
      <3>1. point = Identity
        BY <2>1, <2>2 DEF G2
      <3>2. <<InfinityFlag>> \in Seq(Nat)
        BY DEF InfinityFlag
      <3>3. [i \in 1 .. 11 |-> 0] \in Seq(Nat)
        <4>1. [i \in 1 .. 11 |-> 0] \in [1 .. 11 -> Nat]
          OBVIOUS
        <4>2. \A n \in Nat : \A f \in [1 .. n -> Nat] : f \in Seq(Nat)
          BY SeqDef, Zenon
        <4> QED BY <4>1, <4>2
      <3>4. <<InfinityFlag>> \o [i \in 1 .. 11 |-> 0] \in Seq(Nat)
        BY <1>3, <3>2, <3>3
      <3> QED BY <3>1, <3>4 DEF G2ToBytes
    <2>3. CASE e # 0
      <3>1. e \in Nat /\ CoordOrder - e \in Nat /\ 0 \in Nat /\ 1 \in Nat
        BY <1>1 DEF Fr
      <3>2. point = <<e, 0, CoordOrder - e, 1>>
        BY <2>1, <2>3 DEF G2
      <3>3. point # Identity /\ point[1] = e /\ point[2] = 0 /\ point[3] = CoordOrder - e /\ point[4] = 1
        BY <3>2 DEF Identity
      <3>4. FqBe(e) \in Seq(Nat) /\ FqBe(CoordOrder - e) \in Seq(Nat) /\ FqBe(0) \in Seq(Nat)
            /\ FqBe(1) \in Seq(Nat)
        BY <1>2, <3>1
      <3>5. G2ToBytes(point) = FqBe(0) \o FqBe(e) \o FqBe(1) \o FqBe(CoordOrder - e)
        BY <3>3 DEF G2ToBytes
      <3>6. FqBe(0) \o FqBe(e) \in Seq(Nat)
        BY <1>3, <3>4
      <3>7. FqBe(0) \o FqBe(e) \o FqBe(1) \in Seq(Nat)
        BY <1>3, <3>4, <3>6
      <3>8. FqBe(0) \o FqBe(e) \o FqBe(1) \o FqBe(CoordOrder - e) \in Seq(Nat)
        BY <1>3, <3>4, <3>7
      <3> QED BY <3>5, <3>8
    <2> QED BY <2>2, <2>3
  <1> QED BY <1>4, <1>5

\* A text with the keys and the numbers of a key file of k points.
KeyText(text, k) ==
    /\ DOMAIN text = 1 .. 4 + k
    /\ \A i \in 1 .. 4 : text[i].key = Header[i]
    /\ \A i \in 1 .. k : text[4 + i].key = "ic" /\ text[4 + i].no = i - 1

LEMMA TextHeader ==
    ASSUME NEW text, NEW k \in Nat, KeyText(text, k), NEW h \in 1 .. 4
    PROVE  LinesOf(text, Header[h]) = {h} /\ LastOf(text, Header[h]) = text[h].data
  <1>1. /\ DOMAIN text = 1 .. 4 + k
        /\ \A i \in 1 .. 4 : text[i].key = Header[i]
        /\ \A i \in 1 .. k : text[4 + i].key = "ic"
    BY DEF KeyText
  <1>2. LinesOf(text, Header[h]) = {h}
    <2>1. h \in LinesOf(text, Header[h])
      BY <1>1 DEF LinesOf
    <2>2. ASSUME NEW i \in LinesOf(text, Header[h])
          PROVE  i = h
      <3>1. i \in 1 .. 4 + k /\ text[i].key = Header[h]
        BY <1>1, <2>2 DEF LinesOf
      <3>2. CASE i \in 1 .. 4
        BY <1>1, <3>1, <3>2, HeaderIs
      <3>3. CASE i \notin 1 .. 4
        <4>1. i - 4 \in 1 .. k /\ 4 + (i - 4) = i
          BY <3>1, <3>3
        <4>2. text[4 + (i - 4)].key = "ic"
          BY <1>1, <4>1
        <4> QED BY <3>1, <4>1, <4>2, HeaderIs
      <3> QED BY <3>2, <3>3
    <2> QED BY <2>1, <2>2
  <1>3. LastOf(text, Header[h]) = text[CHOOSE i \in {h} : \A j \in {h} : j <= i].data
    BY <1>2 DEF LastOf
  <1>4. (CHOOSE i \in {h} : \A j \in {h} : j <= i) = h
    OBVIOUS
  <1> QED BY <1>2, <1>3, <1>4

\* The IC lines are in the order of their numbers already.
LEMMA TextIC ==
    ASSUME NEW text, NEW k \in Nat, KeyText(text, k)
    PROVE  /\ Cardinality(LinesOf(text, "ic")) = k
           /\ \A m \in 1 .. k : ICLine(text, m) = 4 + m
  <1>1. /\ DOMAIN text = 1 .. 4 + k
        /\ \A i \in 1 .. 4 : text[i].key = Header[i]
        /\ \A i \in 1 .. k : text[4 + i].key = "ic" /\ text[4 + i].no = i - 1
    BY DEF KeyText
  <1>2. \A i \in 5 .. 4 + k : i - 4 \in 1 .. k /\ 4 + (i - 4) = i
    OBVIOUS
  <1>3. \A i \in 5 .. 4 + k : text[i].key = "ic" /\ text[i].no = (i - 4) - 1
    <2> TAKE i \in 5 .. 4 + k
    <2>1. i - 4 \in 1 .. k /\ 4 + (i - 4) = i
      BY <1>2
    <2>2. text[4 + (i - 4)].key = "ic" /\ text[4 + (i - 4)].no = (i - 4) - 1
      BY <1>1, <2>1
    <2> QED BY <2>1, <2>2
  <1>4. LinesOf(text, "ic") = 5 .. 4 + k
    <2>1. \A i \in 1 .. 4 + k : i \in 1 .. 4 \/ i \in 5 .. 4 + k
      OBVIOUS
    <2>2. \A i \in 1 .. 4 : text[i].key # "ic"
      BY <1>1, HeaderIs
    <2>3. \A i \in 5 .. 4 + k : i \in DOMAIN text
      BY <1>1
    <2>4. \A i \in LinesOf(text, "ic") : i \in 5 .. 4 + k
      BY <1>1, <2>1, <2>2 DEF LinesOf
    <2>5. \A i \in 5 .. 4 + k : i \in LinesOf(text, "ic")
      BY <1>3, <2>3 DEF LinesOf
    <2> QED BY <2>4, <2>5
  <1>5. Cardinality(5 .. 4 + k) = k
    <2>1. 4 + k \in Int /\ (4 + k) - 5 + 1 = k
      OBVIOUS
    <2>2. Cardinality(5 .. 4 + k) = IF 5 > 4 + k THEN 0 ELSE (4 + k) - 5 + 1
      BY <2>1, 5 \in Int, FS_Interval
    <2> QED BY <2>1, <2>2
  <1>6. \A j \in 5 .. 4 + k : Cardinality({i \in 5 .. 4 + k : ICBefore(text, i, j)}) = j - 5
    <2> TAKE j \in 5 .. 4 + k
    <2>1. \A i \in 5 .. 4 + k : ICBefore(text, i, j) <=> i < j
      BY <1>3 DEF ICBefore
    <2>2. {i \in 5 .. 4 + k : ICBefore(text, i, j)} = 5 .. j - 1
      BY <2>1
    <2>3. Cardinality(5 .. j - 1) = j - 5
      <3>1. j - 1 \in Int /\ (j - 1) - 5 + 1 = j - 5
        OBVIOUS
      <3>2. Cardinality(5 .. j - 1) = IF 5 > j - 1 THEN 0 ELSE (j - 1) - 5 + 1
        BY <3>1, 5 \in Int, FS_Interval
      <3> QED BY <3>1, <3>2
    <2> QED BY <2>2, <2>3
  <1>7. \A m \in 1 .. k : ICLine(text, m) = 4 + m
    <2> TAKE m \in 1 .. k
    <2> DEFINE Rank(j) == Cardinality({i \in 5 .. 4 + k : ICBefore(text, i, j)})
    <2>1. ICLine(text, m) = CHOOSE j \in 5 .. 4 + k : Rank(j) = m - 1
      BY <1>4 DEF ICLine
    <2>2. 4 + m \in 5 .. 4 + k
      OBVIOUS
    <2>3. \A j \in 5 .. 4 + k : Rank(j) = j - 5
      BY <1>6
    <2> HIDE DEF Rank
    <2>4. \A j \in 5 .. 4 + k : Rank(j) = m - 1 <=> j = 4 + m
      BY <2>3
    <2> QED BY <2>1, <2>2, <2>4
  <1> QED BY <1>4, <1>5, <1>7

LEMMA ParseText ==
    ASSUME NEW text, NEW k \in Nat, KeyText(text, k)
    PROVE  ParseVkHex(text) =
              [alpha |-> text[1].data, beta |-> text[2].data, gamma |-> text[3].data,
               delta |-> text[4].data, ic |-> [m \in 1 .. k |-> text[4 + m].data]]
  <1>1. 1 \in 1 .. 4 /\ 2 \in 1 .. 4 /\ 3 \in 1 .. 4 /\ 4 \in 1 .. 4
    OBVIOUS
  <1>2. \A h \in 1 .. 4 : LastOf(text, Header[h]) = text[h].data
    BY TextHeader
  <1>3. LastOf(text, "alpha") = text[1].data /\ LastOf(text, "beta") = text[2].data
        /\ LastOf(text, "gamma") = text[3].data /\ LastOf(text, "delta") = text[4].data
    BY <1>1, <1>2, HeaderIs
  <1>4. Cardinality(LinesOf(text, "ic")) = k /\ \A m \in 1 .. k : ICLine(text, m) = 4 + m
    BY TextIC
  <1>5. [m \in 1 .. Cardinality(LinesOf(text, "ic")) |-> text[ICLine(text, m)].data]
        = [m \in 1 .. k |-> text[4 + m].data]
    BY <1>4
  <1> QED BY <1>3, <1>5 DEF ParseVkHex

\* The lines of a key file.
HeaderLine(vk, i) == [key |-> Header[i], no |-> 0, data |-> vk[Header[i]]]
ICEntry(vk, i) == [key |-> "ic", no |-> i - 1, data |-> vk.ic[i]]

\* The lines of the text of a key with n points.
LEMMA Rendered ==
    ASSUME NEW vk, NEW n \in Nat, DOMAIN vk.ic = 1 .. n
    PROVE  /\ Listed(RenderVkHex(vk), 4 + n)
           /\ \A i \in 1 .. 4 : RenderVkHex(vk)[i] = HeaderLine(vk, i)
           /\ \A i \in 1 .. n : RenderVkHex(vk)[4 + i] = ICEntry(vk, i)
  <1> DEFINE head == [i \in 1 .. 4 |-> HeaderLine(vk, i)]
             ics == [i \in DOMAIN vk.ic |-> ICEntry(vk, i)]
  <1>1. \A i \in 1 .. 4 : head[i] = HeaderLine(vk, i)
    OBVIOUS
  <1>2. \A i \in 1 .. n : ics[i] = ICEntry(vk, i)
    OBVIOUS
  <1>3. Listed(head, 4) /\ Listed(ics, n)
    BY DEF Listed
  <1>4. RenderVkHex(vk) = head \o ics
    BY DEF RenderVkHex, HeaderLine, ICEntry
  <1> HIDE DEF head, ics
  <1>5. Concat(head \o ics, head, 4, ics, n)
    BY <1>3, 4 \in Nat, ListConcat
  <1> QED BY <1>1, <1>2, <1>4, <1>5 DEF Concat

\* The points of a key.
PointsOf == [alpha : Range(G1), beta : Range(G2), gamma : Range(G2), delta : Range(G2), ic : Seq(Range(G1))]

\* The key file of a build.
LEMMA HexLines ==
    ASSUME NEW b \in Builds, NEW c \in Circuits
    PROVE  LET S == Setup[b][c]
               hex == HexFile[b][c]
               n == Len(S.ic)
           IN  /\ S \in PointsOf /\ n \in Nat
               /\ Listed(hex, 4 + n) /\ Len(hex) = 4 + n /\ KeyText(hex, n)
               /\ hex[1].data = G1ToBytes(S.alpha) /\ hex[2].data = G2ToBytes(S.beta)
               /\ hex[3].data = G2ToBytes(S.gamma) /\ hex[4].data = G2ToBytes(S.delta)
               /\ \A i \in 1 .. n : S.ic[i] \in Range(G1) /\ hex[4 + i].data = G1ToBytes(S.ic[i])
               /\ \A i \in 1 .. 4 + n : /\ hex[i].data \in Seq(Nat)
                                        /\ hex[i] = [key |-> hex[i].key, no |-> hex[i].no,
                                                     data |-> hex[i].data]
  <1> DEFINE S == Setup[b][c]
             n == Len(S.ic)
             vk == VkToBytes(S)
             hex == HexFile[b][c]
  <1>1. S \in PointsOf
    BY ArtifactAssumption DEF PointsOf
  <1> HIDE DEF S
  <1>2. /\ S.alpha \in Range(G1) /\ S.beta \in Range(G2) /\ S.gamma \in Range(G2)
        /\ S.delta \in Range(G2) /\ S.ic \in Seq(Range(G1))
    BY <1>1 DEF PointsOf
  <1>3. n \in Nat /\ DOMAIN S.ic = 1 .. n /\ \A i \in 1 .. n : S.ic[i] \in Range(G1)
    BY <1>2, LenProperties
  <1>4. hex = RenderVkHex(vk)
    BY DEF HexFile, S
  <1>5. /\ vk["alpha"] = G1ToBytes(S.alpha) /\ vk["beta"] = G2ToBytes(S.beta)
        /\ vk["gamma"] = G2ToBytes(S.gamma) /\ vk["delta"] = G2ToBytes(S.delta)
        /\ DOMAIN vk.ic = 1 .. n /\ \A i \in 1 .. n : vk.ic[i] = G1ToBytes(S.ic[i])
    BY <1>3 DEF VkToBytes
  <1> HIDE DEF vk, n
  <1>6. /\ Listed(hex, 4 + n)
        /\ \A i \in 1 .. 4 : hex[i] = HeaderLine(vk, i)
        /\ \A i \in 1 .. n : hex[4 + i] = ICEntry(vk, i)
    BY <1>3, <1>4, <1>5, Rendered
  <1> HIDE DEF hex
  <1>7. \A i \in 1 .. 4 : /\ hex[i].key = Header[i] /\ hex[i].data = vk[Header[i]]
                          /\ hex[i] = [key |-> hex[i].key, no |-> hex[i].no, data |-> hex[i].data]
    BY <1>6 DEF HeaderLine
  <1>8. \A i \in 1 .. n : /\ hex[4 + i].key = "ic" /\ hex[4 + i].no = i - 1
                          /\ hex[4 + i].data = G1ToBytes(S.ic[i])
                          /\ hex[4 + i] = [key |-> hex[4 + i].key, no |-> hex[4 + i].no,
                                           data |-> hex[4 + i].data]
    <2> TAKE i \in 1 .. n
    <2> DEFINE line == hex[4 + i]
    <2>1. line = [key |-> "ic", no |-> i - 1, data |-> vk.ic[i]]
      BY <1>6 DEF ICEntry
    <2> HIDE DEF line
    <2>2. /\ line.key = "ic" /\ line.no = i - 1 /\ line.data = vk.ic[i]
          /\ line = [key |-> line.key, no |-> line.no, data |-> line.data]
      BY <2>1
    <2> QED BY <1>5, <2>2 DEF line
  <1>9. 4 + n \in Nat
    BY <1>3
  <1>10. Len(hex) = 4 + n /\ DOMAIN hex = 1 .. 4 + n
    BY <1>6, <1>9, ListLen
  <1>11. KeyText(hex, n)
    BY <1>7, <1>8, <1>10 DEF KeyText
  <1>12. 1 \in 1 .. 4 /\ 2 \in 1 .. 4 /\ 3 \in 1 .. 4 /\ 4 \in 1 .. 4
    OBVIOUS
  <1>13. /\ hex[1].data = G1ToBytes(S.alpha) /\ hex[2].data = G2ToBytes(S.beta)
         /\ hex[3].data = G2ToBytes(S.gamma) /\ hex[4].data = G2ToBytes(S.delta)
    BY <1>5, <1>7, <1>12, HeaderIs
  <1>14. \A i \in 1 .. 4 + n : i \in 1 .. 4 \/ (i - 4 \in 1 .. n /\ 4 + (i - 4) = i)
    BY <1>3
  <1>15. \A i \in 1 .. 4 : hex[i].data \in Seq(Nat)
    <2>1. \A i \in 1 .. 4 : i = 1 \/ i = 2 \/ i = 3 \/ i = 4
      OBVIOUS
    <2> QED BY <1>2, <1>13, <2>1, EncodingsAreStrings
  <1>16. \A i \in 1 .. n : hex[4 + i].data \in Seq(Nat)
    BY <1>3, <1>8, EncodingsAreStrings
  <1>17. \A i \in 1 .. 4 + n : /\ hex[i].data \in Seq(Nat)
                               /\ hex[i] = [key |-> hex[i].key, no |-> hex[i].no, data |-> hex[i].data]
    <2> TAKE i \in 1 .. 4 + n
    <2>1. CASE i \in 1 .. 4
      BY <1>7, <1>15, <2>1
    <2>2. CASE i - 4 \in 1 .. n /\ 4 + (i - 4) = i
      <3> DEFINE j == i - 4
      <3>1. j \in 1 .. n /\ 4 + j = i
        BY <2>2
      <3> HIDE DEF j
      <3>2. /\ hex[4 + j].data \in Seq(Nat)
            /\ hex[4 + j] = [key |-> hex[4 + j].key, no |-> hex[4 + j].no, data |-> hex[4 + j].data]
        BY <1>8, <1>16, <3>1
      <3> QED BY <3>1, <3>2
    <2> QED BY <1>14, <2>1, <2>2
  <1> QED BY <1>1, <1>3, <1>6, <1>8, <1>10, <1>11, <1>13, <1>17 DEF S, hex, n

\* What is parsed from the first lines of a key file: the key without the points that
\* are missing.
LEMMA PrefixKey ==
    ASSUME NEW b \in Builds, NEW c \in Circuits, NEW k \in Nat, 4 + k <= Len(HexFile[b][c]),
           NEW text, Listed(text, 4 + k), \A i \in 1 .. 4 + k : text[i] = HexFile[b][c][i]
    PROVE  LET S == Setup[b][c]
               vk == ParseVkHex(text)
               key == VkFromBytes(vk)
           IN  /\ Listed(vk.ic, k) /\ Len(vk.ic) = k /\ (k # 0 => vk.ic # << >>) /\ IntactVk(vk)
               /\ key \in PointsOf /\ Len(key.ic) = k
               /\ key.alpha = S.alpha /\ key.beta = S.beta /\ key.gamma = S.gamma /\ key.delta = S.delta
               /\ \A i \in 1 .. k : key.ic[i] = S.ic[i]
  <1> DEFINE S == Setup[b][c]
             hex == HexFile[b][c]
             n == Len(S.ic)
             vk == ParseVkHex(text)
             key == VkFromBytes(vk)
  <1>1. /\ S \in PointsOf /\ n \in Nat /\ Len(hex) = 4 + n /\ KeyText(hex, n)
        /\ hex[1].data = G1ToBytes(S.alpha) /\ hex[2].data = G2ToBytes(S.beta)
        /\ hex[3].data = G2ToBytes(S.gamma) /\ hex[4].data = G2ToBytes(S.delta)
        /\ \A i \in 1 .. n : S.ic[i] \in Range(G1) /\ hex[4 + i].data = G1ToBytes(S.ic[i])
        /\ \A i \in 1 .. 4 + n : hex[i].data \in Seq(Nat)
    BY HexLines
  <1>2. /\ S.alpha \in Range(G1) /\ S.beta \in Range(G2) /\ S.gamma \in Range(G2) /\ S.delta \in Range(G2)
    BY <1>1 DEF PointsOf
  <1> HIDE DEF S, n
  <1>3. 4 + k <= Len(hex) /\ \A i \in 1 .. 4 + k : text[i] = hex[i]
    OBVIOUS
  <1> HIDE DEF hex
  <1>4. /\ \A i \in 1 .. 4 : i \in 1 .. 4 + k
        /\ \A i \in 1 .. k : 4 + i \in 1 .. 4 + k /\ i \in 1 .. n
        /\ \A i \in 1 .. 4 + k : i \in 1 .. 4 + n
        /\ 1 \in 1 .. 4 /\ 2 \in 1 .. 4 /\ 3 \in 1 .. 4 /\ 4 \in 1 .. 4
    BY <1>1, <1>3
  <1>5. KeyText(text, k)
    <2>1. DOMAIN text = 1 .. 4 + k
      BY DEF Listed
    <2>2. /\ \A i \in 1 .. 4 : hex[i].key = Header[i]
          /\ \A i \in 1 .. n : hex[4 + i].key = "ic" /\ hex[4 + i].no = i - 1
      BY <1>1 DEF KeyText
    <2>3. \A i \in 1 .. 4 : text[i].key = Header[i]
      BY <1>3, <1>4, <2>2
    <2>4. \A i \in 1 .. k : text[4 + i].key = "ic" /\ text[4 + i].no = i - 1
      BY <1>3, <1>4, <2>2
    <2> QED BY <2>1, <2>3, <2>4 DEF KeyText
  <1>6. vk = [alpha |-> text[1].data, beta |-> text[2].data, gamma |-> text[3].data,
              delta |-> text[4].data, ic |-> [m \in 1 .. k |-> text[4 + m].data]]
    BY <1>5, ParseText
  <1> HIDE DEF vk
  <1>7. /\ vk.alpha = G1ToBytes(S.alpha) /\ vk.beta = G2ToBytes(S.beta)
        /\ vk.gamma = G2ToBytes(S.gamma) /\ vk.delta = G2ToBytes(S.delta)
        /\ DOMAIN vk.ic = 1 .. k /\ \A i \in 1 .. k : vk.ic[i] = G1ToBytes(S.ic[i])
        /\ Listed(vk.ic, k)
    <2>1. vk.alpha = text[1].data /\ vk.beta = text[2].data /\ vk.gamma = text[3].data
          /\ vk.delta = text[4].data /\ vk.ic = [m \in 1 .. k |-> text[4 + m].data]
      BY <1>6
    <2>2. text[1] = hex[1] /\ text[2] = hex[2] /\ text[3] = hex[3] /\ text[4] = hex[4]
      BY <1>3, <1>4
    <2>3. \A i \in 1 .. k : text[4 + i].data = G1ToBytes(S.ic[i])
      BY <1>1, <1>3, <1>4
    <2> QED BY <1>1, <2>1, <2>2, <2>3 DEF Listed
  <1>8. Len(vk.ic) = k /\ (k # 0 => vk.ic # << >>)
    <2>1. Len(vk.ic) = k
      BY <1>7, ListLen
    <2>2. k # 0 => 1 \in DOMAIN vk.ic
      BY <1>7
    <2> QED BY <2>1, <2>2
  <1>9. IntactVk(vk)
    <2>1. {vk.alpha, vk.beta, vk.gamma, vk.delta} \subseteq Seq(Nat)
      BY <1>2, <1>7, EncodingsAreStrings
    <2>2. \A i \in 1 .. k : vk.ic[i] \in Seq(Nat)
      BY <1>1, <1>4, <1>7, EncodingsAreStrings
    <2>3. Range(vk.ic) \subseteq Seq(Nat)
      BY <1>7, <2>2 DEF Range
    <2>4. Garbage \notin Seq(Nat)
      BY CoordAssumption
    <2> QED BY <2>1, <2>3, <2>4 DEF IntactVk
  <1>10. /\ key.alpha = S.alpha /\ key.beta = S.beta /\ key.gamma = S.gamma /\ key.delta = S.delta
         /\ key.ic = [i \in 1 .. k |-> S.ic[i]]
         /\ key = [alpha |-> key.alpha, beta |-> key.beta, gamma |-> key.gamma, delta |-> key.delta,
                   ic |-> key.ic]
    <2>1. key = [alpha |-> G1FromBytes(vk.alpha), beta |-> G2FromBytes(vk.beta),
                 gamma |-> G2FromBytes(vk.gamma), delta |-> G2FromBytes(vk.delta),
                 ic |-> [i \in 1 .. k |-> G1FromBytes(vk.ic[i])]]
      BY <1>7 DEF VkFromBytes
    <2> HIDE DEF key
    <2>2. \A i \in 1 .. k : G1FromBytes(vk.ic[i]) = S.ic[i]
      BY <1>1, <1>4, <1>7, G1RoundTrip
    <2>3. /\ G1FromBytes(vk.alpha) = S.alpha /\ G2FromBytes(vk.beta) = S.beta
          /\ G2FromBytes(vk.gamma) = S.gamma /\ G2FromBytes(vk.delta) = S.delta
      BY <1>2, <1>7, G1RoundTrip, G2RoundTrip
    <2> QED BY <2>1, <2>2, <2>3
  <1> HIDE DEF key
  <1>11. key.ic \in Seq(Range(G1)) /\ Len(key.ic) = k /\ \A i \in 1 .. k : key.ic[i] = S.ic[i]
    <2>1. \A i \in 1 .. k : S.ic[i] \in Range(G1)
      BY <1>1, <1>4
    <2>2. key.ic \in [1 .. k -> Range(G1)]
      BY <1>10, <2>1
    <2>3. key.ic \in Seq(Range(G1))
      BY <2>2, SeqDef, Zenon
    <2>4. Len(key.ic) = k
      BY <2>2, <2>3, LenProperties
    <2> QED BY <1>10, <2>3, <2>4
  <1>12. key \in PointsOf
    BY <1>2, <1>10, <1>11 DEF PointsOf
  <1> QED BY <1>7, <1>8, <1>9, <1>10, <1>11, <1>12 DEF S, vk, key

\* parse_vk_hex is the exact inverse of render_vk_hex, whatever the points, the
\* identity among them.
LEMMA KeyRoundTrip ==
    ASSUME NEW b \in Builds, NEW c \in Circuits
    PROVE  VkFromBytes(ParseVkHex(HexFile[b][c])) = Setup[b][c]
  <1> DEFINE S == Setup[b][c]
             hex == HexFile[b][c]
             n == Len(S.ic)
             key == VkFromBytes(ParseVkHex(hex))
  <1>1. S \in PointsOf /\ n \in Nat /\ Len(hex) = 4 + n /\ Listed(hex, 4 + n)
    BY HexLines
  <1> HIDE DEF n
  <1>2. /\ key \in PointsOf /\ Len(key.ic) = n
        /\ key.alpha = S.alpha /\ key.beta = S.beta /\ key.gamma = S.gamma /\ key.delta = S.delta
        /\ \A i \in 1 .. n : key.ic[i] = S.ic[i]
    BY <1>1, PrefixKey
  <1> HIDE DEF key, S
  <1>3. key.ic \in Seq(Range(G1)) /\ S.ic \in Seq(Range(G1)) /\ Len(S.ic) = n
    BY <1>1, <1>2 DEF PointsOf, n
  <1>4. key.ic = [i \in 1 .. n |-> key.ic[i]] /\ S.ic = [i \in 1 .. n |-> S.ic[i]]
    BY <1>2, <1>3, SeqListed DEF Listed
  <1>5. key.ic = S.ic
    BY <1>2, <1>4
  <1>6. /\ key = [alpha |-> key.alpha, beta |-> key.beta, gamma |-> key.gamma, delta |-> key.delta,
                  ic |-> key.ic]
        /\ S = [alpha |-> S.alpha, beta |-> S.beta, gamma |-> S.gamma, delta |-> S.delta, ic |-> S.ic]
    BY <1>1, <1>2 DEF PointsOf
  <1> QED BY <1>2, <1>5, <1>6 DEF key, S

-----------------------------------------------------------------------------
(* A finished build *)

LEMMA FinishedFiles ==
    ASSUME ArtifactInv, Finished
    PROVE  /\ build \in Builds
           /\ \A path \in Paths : files[path] = Final(build, path) /\ LayoutAsserted(build, path)
  <1>1. step = 12 /\ build \in Builds /\ ~damaged
    BY PlanTable DEF ArtifactInv, BuilderInv, Finished
  <1>2. \A j \in 1 .. 11 : files[Plan[j]] = Final(build, Plan[j]) /\ LayoutAsserted(build, Plan[j])
    BY <1>1, 12 - 1 = 11 DEF ArtifactInv, WrittenInv, AssertedInv
  <1> QED BY <1>1, <1>2, PathsAre

LEMMA FinishedConsistent ==
    ASSUME ArtifactInv
    PROVE  FinishedBuildIsConsistent
  <1> SUFFICES ASSUME Finished, NEW c \in Circuits
               PROVE  /\ HashMatches(files[<<c, "SHA256SUMS">>], Product(build, <<c, "proving_key.bin">>))
                      /\ VkFromBytes(ParseVkHex(files[<<c, "verifying_key.hex">>])) = Setup[build][c]
                      /\ Len(Setup[build][c].ic) = files[<<c, "layout.txt">>][1].data + 1
    BY DEF FinishedBuildIsConsistent
  <1>1. build \in Builds /\ \A path \in Paths : files[path] = Final(build, path) /\ LayoutAsserted(build, path)
    BY FinishedFiles
  <1>2. /\ <<c, "SHA256SUMS">> \in Paths /\ <<c, "verifying_key.hex">> \in Paths
        /\ <<c, "layout.txt">> \in Paths
    BY PathsAre, NamesDiffer, 3 \in 1 .. 4, 4 \in 1 .. 4
  <1>3. files[<<c, "SHA256SUMS">>] = BuildSums(build, c)
        /\ (LayoutAsserted(build, <<c, "SHA256SUMS">>) => Len(Setup[build][c].ic) = Inputs[c] + 1)
    BY <1>1, <1>2, NamesDiffer DEF Final, LayoutAsserted
  <1>4. files[<<c, "verifying_key.hex">>] = Product(build, <<c, "verifying_key.hex">>)
        /\ files[<<c, "layout.txt">>] = Product(build, <<c, "layout.txt">>)
    BY <1>1, <1>2, NamesDiffer DEF Final
  <1>5. HashMatches(BuildSums(build, c), Product(build, <<c, "proving_key.bin">>))
    <2> DEFINE sums == BuildSums(build, c)
    <2>1. DOMAIN sums = 1 .. 4
          /\ \A i \in 1 .. 4 : sums[i].key = Vouched[i] /\ sums[i].data = Product(build, <<c, Vouched[i]>>)
      BY NamesAre DEF BuildSums
    <2> HIDE DEF sums
    <2>2. \A i \in LinesOf(sums, "proving_key.bin") : i = 1
      BY <2>1, NamesDiffer DEF LinesOf
    <2>3. 1 \in LinesOf(sums, "proving_key.bin") /\ sums[1].data = Product(build, <<c, "proving_key.bin">>)
      BY <2>1, 1 \in 1 .. 4, NamesDiffer DEF LinesOf
    <2>4. HashMatches(sums, Product(build, <<c, "proving_key.bin">>))
      BY <2>2, <2>3 DEF HashMatches
    <2> QED BY <2>4 DEF sums
  <1>6. VkFromBytes(ParseVkHex(Product(build, <<c, "verifying_key.hex">>))) = Setup[build][c]
    <2>1. Product(build, <<c, "verifying_key.hex">>) = HexFile[build][c]
      BY <1>1, Products
    <2> QED BY <1>1, <2>1, KeyRoundTrip
  <1>7. Product(build, <<c, "layout.txt">>)[1].data = Inputs[c]
    <2>1. Product(build, <<c, "layout.txt">>) = << Layout(c) >>
      BY Products
    <2> QED BY <2>1 DEF Layout
  <1> QED BY <1>1, <1>2, <1>3, <1>4, <1>5, <1>6, <1>7

\* What a build that ran to its end leaves behind, whatever keys its setup drew and
\* whatever was in the directory before.
THEOREM FinishedBuilds == Spec => []FinishedBuildIsConsistent
  BY ArtifactInvariant, FinishedConsistent, PTL

-----------------------------------------------------------------------------
(* Induction, over a set of numbers *)

LEMMA LeastNatural ==
    ASSUME NEW T, T \subseteq Nat, T # {}
    PROVE  \E m \in T : \A n \in T : m <= n
  <1> DEFINE R == OpToRel(<, Nat)
  <1>1. IsWellFoundedOn(R, Nat)
    BY NatLessThanWellFounded, Zenon
  <1>2. \A x, y \in Nat : x < y => <<x, y>> \in R
    BY Zenon DEF OpToRel
  <1> HIDE DEF R
  <1>3. PICK m \in T : \A n \in T : <<n, m>> \notin R
    BY <1>1, WFMin
  <1>4. \A n \in T : n \in Nat /\ m \in Nat /\ ~(n < m)
    BY <1>2, <1>3
  <1>5. \A n \in T : m <= n
    BY <1>4
  <1> QED BY <1>5

\* What holds of 0 and passes from each number below N to the next.
LEMMA Induction ==
    ASSUME NEW N \in Nat, NEW T, 0 \in T, \A n \in 0 .. N - 1 : n \in T => n + 1 \in T
    PROVE  0 .. N \subseteq T
  <1> SUFFICES ASSUME (0 .. N) \ T # {} PROVE FALSE
    OBVIOUS
  <1> DEFINE U == (0 .. N) \ T
  <1>1. PICK m \in U : \A n \in U : m <= n
    <2>1. U \subseteq Nat /\ U # {}
      OBVIOUS
    <2> HIDE DEF U
    <2> QED BY <2>1, LeastNatural
  <1>2. m - 1 \in 0 .. N - 1 /\ m - 1 \in 0 .. N /\ ~(m <= m - 1)
    BY <1>1
  <1>3. m - 1 \in T
    BY <1>1, <1>2
  <1> QED BY <1>1, <1>2, <1>3

-----------------------------------------------------------------------------
(* The recursive functions of the hash are defined *)

LEMMA Sizes == Rounds \in Nat /\ TreeDepth \in Nat /\ FieldOrder \in Nat \ {0} /\ Base \in Nat \ {0}
               /\ FieldOrder <= Base * Base
  BY HashAssumption DEF Rounds

LEMMA NativeDef ==
    ASSUME NEW params, NEW state
    PROVE  /\ NativeRounds(params, state)[0] = state
           /\ \A n \in 0 .. Rounds - 1 :
                 NativeRounds(params, state)[n + 1] =
                    Mix(params.mds,
                        Substitute(Pow5, n, Add(NativeRounds(params, state)[n], params.ark[n + 1])))
  <1> DEFINE Start == state
             Step(x, k) == Mix(params.mds, Substitute(Pow5, k - 1, Add(x, params.ark[k])))
             IsRec(f, n) == f = [k \in 0 .. n |-> IF k = 0 THEN Start ELSE Step(f[k - 1], k)]
             T == {n \in Nat : \E f : IsRec(f, n)}
  <1>1. 0 \in T
    <2> HIDE DEF Start, Step
    <2>1. IsRec([k \in 0 .. 0 |-> Start], 0)
      OBVIOUS
    <2> QED BY <2>1
  <1>2. ASSUME NEW n \in 0 .. Rounds - 1, n \in T PROVE n + 1 \in T
    <2> HIDE DEF Start, Step
    <2>1. PICK f : IsRec(f, n)
      BY <1>2
    <2> DEFINE g == [k \in 0 .. n + 1 |-> IF k = n + 1 THEN Step(f[n], n + 1) ELSE f[k]]
    <2>2. IsRec(g, n + 1)
      BY <2>1
    <2> HIDE DEF g, IsRec
    <2> QED BY <2>2
  <1>3. Rounds \in T
    <2> HIDE DEF T
    <2>1. 0 .. Rounds \subseteq T
      BY <1>1, <1>2, Induction, Sizes
    <2> QED BY <2>1, Sizes
  <1>4. IsRec(NativeRounds(params, state), Rounds)
    BY <1>3 DEF NativeRounds
  <1>5. \A n \in 0 .. Rounds - 1 :
           NativeRounds(params, state)[n + 1] = Step(NativeRounds(params, state)[n], n + 1)
    <2> HIDE DEF Start, Step
    <2> QED BY <1>4, Sizes
  <1>6. NativeRounds(params, state)[0] = Start
    <2> HIDE DEF Start, Step
    <2> QED BY <1>4, Sizes
  <1>7. \A n \in 0 .. Rounds - 1 : (n + 1) - 1 = n
    BY Sizes
  <1> QED BY <1>5, <1>6, <1>7

LEMMA GadgetDef ==
    ASSUME NEW params, NEW state
    PROVE  /\ GadgetRounds(params, state)[0] = state
           /\ \A n \in 0 .. Rounds - 1 :
                 GadgetRounds(params, state)[n + 1] =
                    Mix(params.mds,
                        Substitute(GadgetSBox, n, Add(GadgetRounds(params, state)[n], params.ark[n + 1])))
  <1> DEFINE Start == state
             Step(x, k) == Mix(params.mds, Substitute(GadgetSBox, k - 1, Add(x, params.ark[k])))
             IsRec(f, n) == f = [k \in 0 .. n |-> IF k = 0 THEN Start ELSE Step(f[k - 1], k)]
             T == {n \in Nat : \E f : IsRec(f, n)}
  <1>1. 0 \in T
    <2> HIDE DEF Start, Step
    <2>1. IsRec([k \in 0 .. 0 |-> Start], 0)
      OBVIOUS
    <2> QED BY <2>1
  <1>2. ASSUME NEW n \in 0 .. Rounds - 1, n \in T PROVE n + 1 \in T
    <2> HIDE DEF Start, Step
    <2>1. PICK f : IsRec(f, n)
      BY <1>2
    <2> DEFINE g == [k \in 0 .. n + 1 |-> IF k = n + 1 THEN Step(f[n], n + 1) ELSE f[k]]
    <2>2. IsRec(g, n + 1)
      BY <2>1
    <2> HIDE DEF g, IsRec
    <2> QED BY <2>2
  <1>3. Rounds \in T
    <2> HIDE DEF T
    <2>1. 0 .. Rounds \subseteq T
      BY <1>1, <1>2, Induction, Sizes
    <2> QED BY <2>1, Sizes
  <1>4. IsRec(GadgetRounds(params, state), Rounds)
    BY <1>3 DEF GadgetRounds
  <1>5. \A n \in 0 .. Rounds - 1 :
           GadgetRounds(params, state)[n + 1] = Step(GadgetRounds(params, state)[n], n + 1)
    <2> HIDE DEF Start, Step
    <2> QED BY <1>4, Sizes
  <1>6. GadgetRounds(params, state)[0] = Start
    <2> HIDE DEF Start, Step
    <2> QED BY <1>4, Sizes
  <1>7. \A n \in 0 .. Rounds - 1 : (n + 1) - 1 = n
    BY Sizes
  <1> QED BY <1>5, <1>6, <1>7

Matrix(mds) == [i \in Lanes |-> Decoded(mds[i])]

LEMMA ContractDef ==
    ASSUME NEW ark, NEW mds, NEW state, NEW size \in Nat, Len(ark) = size
    PROVE  /\ ContractRounds(ark, mds, state)[0] = state
           /\ \A n \in 0 .. size - 1 :
                 ContractRounds(ark, mds, state)[n + 1] =
                    Mix(Matrix(mds),
                        ContractSubstitute(n, Add(ContractRounds(ark, mds, state)[n],
                                                  Decoded(ark[n + 1]))))
  <1> DEFINE Start == state
             Step(x, k) == Mix(Matrix(mds), ContractSubstitute(k - 1, Add(x, Decoded(ark[k]))))
             IsRec(f, n) == f = [k \in 0 .. n |-> IF k = 0 THEN Start ELSE Step(f[k - 1], k)]
             T == {n \in Nat : \E f : IsRec(f, n)}
  <1>1. 0 \in T
    <2> HIDE DEF Start, Step
    <2>1. IsRec([k \in 0 .. 0 |-> Start], 0)
      OBVIOUS
    <2> QED BY <2>1
  <1>2. ASSUME NEW n \in 0 .. size - 1, n \in T PROVE n + 1 \in T
    <2> HIDE DEF Start, Step
    <2>1. PICK f : IsRec(f, n)
      BY <1>2
    <2> DEFINE g == [k \in 0 .. n + 1 |-> IF k = n + 1 THEN Step(f[n], n + 1) ELSE f[k]]
    <2>2. IsRec(g, n + 1)
      BY <2>1
    <2> HIDE DEF g, IsRec
    <2> QED BY <2>2
  <1>3. size \in T
    <2> HIDE DEF T
    <2>1. 0 .. size \subseteq T
      BY <1>1, <1>2, Induction, Zenon
    <2> QED BY <2>1, Sizes
  <1>4. IsRec(ContractRounds(ark, mds, state), size)
    BY <1>3 DEF ContractRounds, Matrix
  <1>5. \A n \in 0 .. size - 1 :
           ContractRounds(ark, mds, state)[n + 1] = Step(ContractRounds(ark, mds, state)[n], n + 1)
    <2> HIDE DEF Start, Step
    <2> QED BY <1>4, Sizes
  <1>6. ContractRounds(ark, mds, state)[0] = Start
    <2> HIDE DEF Start, Step
    <2> QED BY <1>4, Sizes
  <1>7. \A n \in 0 .. size - 1 : (n + 1) - 1 = n
    BY Sizes
  <1> QED BY <1>5, <1>6, <1>7

LEMMA NativeZerosDef ==
    ASSUME NEW params
    PROVE  /\ NativeZeros(params)[0] = 0
           /\ \A n \in 0 .. TreeDepth - 1 :
                 NativeZeros(params)[n + 1] =
                    NativeHash2(params, NativeZeros(params)[n], NativeZeros(params)[n])
  <1> DEFINE Start == 0
             Step(x, k) == NativeHash2(params, x, x)
             IsRec(f, n) == f = [k \in 0 .. n |-> IF k = 0 THEN Start ELSE Step(f[k - 1], k)]
             T == {n \in Nat : \E f : IsRec(f, n)}
  <1>1. 0 \in T
    <2> HIDE DEF Start, Step
    <2>1. IsRec([k \in 0 .. 0 |-> Start], 0)
      OBVIOUS
    <2> QED BY <2>1
  <1>2. ASSUME NEW n \in 0 .. TreeDepth - 1, n \in T PROVE n + 1 \in T
    <2> HIDE DEF Start, Step
    <2>1. PICK f : IsRec(f, n)
      BY <1>2
    <2> DEFINE g == [k \in 0 .. n + 1 |-> IF k = n + 1 THEN Step(f[n], n + 1) ELSE f[k]]
    <2>2. IsRec(g, n + 1)
      BY <2>1
    <2> HIDE DEF g, IsRec
    <2> QED BY <2>2
  <1>3. TreeDepth \in T
    <2> HIDE DEF T
    <2>1. 0 .. TreeDepth \subseteq T
      BY <1>1, <1>2, Induction, Sizes
    <2> QED BY <2>1, Sizes
  <1>4. IsRec(NativeZeros(params), TreeDepth)
    BY <1>3 DEF NativeZeros
  <1>5. \A n \in 0 .. TreeDepth - 1 :
           NativeZeros(params)[n + 1] = Step(NativeZeros(params)[n], n + 1)
    <2> HIDE DEF Start, Step
    <2> QED BY <1>4, Sizes
  <1>6. NativeZeros(params)[0] = Start
    <2> HIDE DEF Start, Step
    <2> QED BY <1>4, Sizes
  <1>7. \A n \in 0 .. TreeDepth - 1 : (n + 1) - 1 = n
    BY Sizes
  <1> QED BY <1>5, <1>6, <1>7

-----------------------------------------------------------------------------
(* The field and its bytes *)

LEMMA InField ==
    /\ \A x \in Nat : x % FieldOrder \in Fr
    /\ \A x \in Fr : x \in Nat /\ x % FieldOrder = x
    /\ 0 \in Fr
  BY Sizes DEF Fr

LEMMA BytesRoundTrip ==
    ASSUME NEW x \in Fr
    PROVE  FrFromBytes(FrToBytes(x)) = x /\ Canonical(FrToBytes(x))
  <1> DEFINE m == FieldOrder - 1
             q == x \div Base
             r == x % Base
             top == m \div Base
             low == m % Base
  <1>1. x \in Nat /\ m \in Nat /\ x <= m /\ Base \in Nat \ {0}
    BY Sizes DEF Fr
  <1>2. q \in Nat /\ r \in 0 .. Base - 1 /\ x = Base * q + r
    BY <1>1, DivMod
  <1>3. top \in Nat /\ low \in 0 .. Base - 1 /\ m = Base * top + low
    <2> HIDE DEF m
    <2> QED BY <1>1, DivMod
  <1>4. FrToBytes(x) = <<q, r>> /\ FrToBytes(FieldOrder - 1) = <<top, low>>
    BY DEF FrToBytes
  <1>5. FrFromBytes(FrToBytes(x)) = (q * Base + r) % FieldOrder
    BY <1>4 DEF FrFromBytes
  <1>6. Canonical(FrToBytes(x)) <=> q < top \/ (q = top /\ r <= low)
    BY <1>4 DEF Canonical
  <1> HIDE DEF q, r, top, low, m
  <1>7. q * Base + r = x
    BY <1>1, <1>2
  <1>8. CASE q < top
    BY <1>5, <1>6, <1>7, <1>8, InField
  <1>9. CASE q = top
    <2>1. r <= low
      BY <1>1, <1>2, <1>3, <1>9
    <2> QED BY <1>5, <1>6, <1>7, <1>9, <2>1, InField
  <1>10. CASE q > top
    <2>1. Base * (top + 1) <= Base * q
      BY <1>1, <1>2, <1>3, <1>10
    <2>2. Base * (top + 1) = Base * top + Base
      BY <1>1, <1>3
    <2>3. Base * top \in Nat /\ Base * q \in Nat
      BY <1>1, <1>2, <1>3
    <2> QED BY <1>1, <1>2, <1>3, <2>1, <2>2, <2>3
  <1> QED BY <1>2, <1>3, <1>8, <1>9, <1>10

LEMMA DecodedInField ==
    ASSUME NEW b \in FrBytes
    PROVE  FrFromBytes(b) \in Fr
  <1>1. b[1] \in Nat /\ b[2] \in Nat /\ Base \in Nat
    BY Sizes DEF FrBytes
  <1>2. b[1] * Base + b[2] \in Nat
    BY <1>1
  <1> QED BY <1>2, InField DEF FrFromBytes

\* Reducing a factor first changes nothing.
LEMMA ModTimes ==
    ASSUME NEW y \in Nat, NEW x \in Nat
    PROVE  ((y % FieldOrder) * x) % FieldOrder = (y * x) % FieldOrder
  <1> DEFINE q == y \div FieldOrder
             r == y % FieldOrder
             p == (r * x) \div FieldOrder
             s == (r * x) % FieldOrder
  <1>0. FieldOrder \in Nat \ {0}
    BY Sizes
  <1>1. q \in Nat /\ r \in 0 .. FieldOrder - 1 /\ y = FieldOrder * q + r
    BY <1>0, DivMod
  <1>2. r \in Nat /\ r * x \in Nat
    BY <1>0, <1>1
  <1>3. p \in Nat /\ s \in 0 .. FieldOrder - 1 /\ r * x = FieldOrder * p + s
    <2> HIDE DEF r
    <2> QED BY <1>0, <1>2, DivMod
  <1>4. ((y % FieldOrder) * x) % FieldOrder = s
    OBVIOUS
  <1> HIDE DEF q, r, p, s
  <1>5. y * x = FieldOrder * (q * x + p) + s
    <2>1. y * x = FieldOrder * q * x + r * x
      BY <1>0, <1>1, <1>2
    <2>2. FieldOrder * q * x = FieldOrder * (q * x)
      BY <1>0, <1>1
    <2>3. FieldOrder * (q * x) + FieldOrder * p = FieldOrder * (q * x + p)
      BY <1>0, <1>1, <1>3
    <2> DEFINE u == q * x
    <2>4. u \in Nat
      BY <1>1
    <2> QED BY <1>0, <1>3, <2>1, <2>2, <2>3, <2>4
  <1>6. q * x + p \in Nat
    BY <1>1, <1>3
  <1>7. (FieldOrder * (q * x + p) + s) % FieldOrder = s
    BY <1>0, <1>3, <1>6, DivUnique
  <1> QED BY <1>4, <1>5, <1>7

\* The S-box of the constraints is the S-box.
LEMMA SBoxes == Pow5 \in [Fr -> Fr] /\ GadgetSBox = Pow5
  <1>1. ASSUME NEW x \in Fr
        PROVE  /\ (((x * x) % FieldOrder) * ((x * x) % FieldOrder) * x) % FieldOrder \in Fr
               /\ GadgetSBox[x] = (((x * x) % FieldOrder) * ((x * x) % FieldOrder) * x) % FieldOrder
    <2> DEFINE a == (x * x) % FieldOrder
    <2>1. x \in Nat /\ x * x \in Nat
      BY InField
    <2>2. a \in Nat
      BY <2>1, InField
    <2>3. GadgetSBox[x] = (((a * a) % FieldOrder) * x) % FieldOrder
      BY DEF GadgetSBox
    <2> HIDE DEF a
    <2>4. a * a \in Nat /\ a * a * x \in Nat
      BY <2>1, <2>2
    <2>5. (((a * a) % FieldOrder) * x) % FieldOrder = (a * a * x) % FieldOrder
      BY <2>1, <2>4, ModTimes
    <2>6. (a * a * x) % FieldOrder \in Fr
      BY <2>4, InField
    <2> QED BY <2>3, <2>5, <2>6 DEF a
  <1>2. Pow5 \in [Fr -> Fr]
    BY <1>1 DEF Pow5
  <1>3. \A x \in Fr : GadgetSBox[x] = Pow5[x]
    BY <1>1 DEF Pow5
  <1>4. GadgetSBox = [x \in Fr |-> GadgetSBox[x]] /\ Pow5 = [x \in Fr |-> Pow5[x]]
    BY DEF GadgetSBox, Pow5
  <1> QED BY <1>2, <1>3, <1>4

-----------------------------------------------------------------------------
(* The rounds *)

LEMMA LanesAre == Lanes = 1 .. 3 /\ 1 \in Lanes /\ 2 \in Lanes /\ 3 \in Lanes
  BY DEF Lanes, WIDTH

LEMMA MixInField ==
    ASSUME NEW mds \in [Lanes -> [Lanes -> Fr]], NEW s \in [Lanes -> Fr]
    PROVE  Mix(mds, s) \in [Lanes -> Fr]
  <1>1. ASSUME NEW i \in Lanes
        PROVE  (mds[i][1] * s[1] + mds[i][2] * s[2] + mds[i][3] * s[3]) % FieldOrder \in Fr
    <2>1. mds[i][1] \in Nat /\ mds[i][2] \in Nat /\ mds[i][3] \in Nat
          /\ s[1] \in Nat /\ s[2] \in Nat /\ s[3] \in Nat
      BY LanesAre, InField
    <2>2. mds[i][1] * s[1] \in Nat /\ mds[i][2] * s[2] \in Nat /\ mds[i][3] * s[3] \in Nat
      <3>1. \A x, y \in Nat : x * y \in Nat
        OBVIOUS
      <3> QED BY <2>1, <3>1
    <2>3. mds[i][1] * s[1] + mds[i][2] * s[2] + mds[i][3] * s[3] \in Nat
      BY <2>2
    <2> QED BY <2>3, InField
  <1> QED BY <1>1 DEF Mix

LEMMA AddInField ==
    ASSUME NEW s \in [Lanes -> Fr], NEW row \in [Lanes -> Fr]
    PROVE  Add(s, row) \in [Lanes -> Fr]
  <1>1. ASSUME NEW i \in Lanes
        PROVE  (s[i] + row[i]) % FieldOrder \in Fr
    <2>1. s[i] \in Nat /\ row[i] \in Nat
      BY InField
    <2>2. s[i] + row[i] \in Nat
      BY <2>1
    <2> QED BY <2>2, InField
  <1> QED BY <1>1 DEF Add

LEMMA SubstituteInField ==
    ASSUME NEW s \in [Lanes -> Fr], NEW round
    PROVE  Substitute(Pow5, round, s) \in [Lanes -> Fr]
  BY SBoxes, LanesAre DEF Substitute

LEMMA RoundsInField ==
    ASSUME NEW params, params.ark \in [1 .. Rounds -> [Lanes -> Fr]],
           params.mds \in [Lanes -> [Lanes -> Fr]], NEW state \in [Lanes -> Fr]
    PROVE  \A n \in 0 .. Rounds : NativeRounds(params, state)[n] \in [Lanes -> Fr]
  <1> DEFINE after == NativeRounds(params, state)
             T == {n \in Nat : after[n] \in [Lanes -> Fr]}
  <1>1. after[0] = state /\ \A n \in 0 .. Rounds - 1 :
           after[n + 1] = Mix(params.mds, Substitute(Pow5, n, Add(after[n], params.ark[n + 1])))
    BY NativeDef
  <1> HIDE DEF after
  <1>2. 0 \in T
    BY <1>1
  <1>3. ASSUME NEW n \in 0 .. Rounds - 1, n \in T PROVE n + 1 \in T
    <2>1. n + 1 \in 1 .. Rounds /\ n + 1 \in Nat
      BY Sizes
    <2>2. params.ark[n + 1] \in [Lanes -> Fr]
      BY <2>1
    <2>3. Add(after[n], params.ark[n + 1]) \in [Lanes -> Fr]
      BY <1>3, <2>2, AddInField
    <2>4. Substitute(Pow5, n, Add(after[n], params.ark[n + 1])) \in [Lanes -> Fr]
      BY <2>3, SubstituteInField
    <2>5. after[n + 1] \in [Lanes -> Fr]
      BY <1>1, <2>4, MixInField
    <2> QED BY <2>1, <2>5
  <1>4. 0 .. Rounds \subseteq T
    <2> HIDE DEF T
    <2> QED BY <1>2, <1>3, Induction, Sizes
  <1> QED BY <1>4 DEF after

LEMMA GadgetIsNative ==
    ASSUME NEW params, NEW state
    PROVE  \A n \in 0 .. Rounds : GadgetRounds(params, state)[n] = NativeRounds(params, state)[n]
  <1> DEFINE after == NativeRounds(params, state)
             gadget == GadgetRounds(params, state)
             T == {n \in Nat : gadget[n] = after[n]}
  <1>1. after[0] = state /\ \A n \in 0 .. Rounds - 1 :
           after[n + 1] = Mix(params.mds, Substitute(Pow5, n, Add(after[n], params.ark[n + 1])))
    BY NativeDef
  <1>2. gadget[0] = state /\ \A n \in 0 .. Rounds - 1 :
           gadget[n + 1] = Mix(params.mds, Substitute(GadgetSBox, n, Add(gadget[n], params.ark[n + 1])))
    BY GadgetDef
  <1> HIDE DEF after, gadget
  <1>3. 0 \in T
    BY <1>1, <1>2
  <1>4. ASSUME NEW n \in 0 .. Rounds - 1, n \in T PROVE n + 1 \in T
    <2>1. gadget[n + 1] = after[n + 1]
      BY <1>1, <1>2, <1>4, SBoxes
    <2> QED BY <2>1, Sizes
  <1>5. 0 .. Rounds \subseteq T
    <2> HIDE DEF T
    <2> QED BY <1>3, <1>4, Induction, Sizes
  <1> QED BY <1>5 DEF after, gadget

\* The tables decode to the parameters.
LEMMA TablesDecode ==
    ASSUME NEW params, params.ark \in [1 .. Rounds -> [Lanes -> Fr]],
           params.mds \in [Lanes -> [Lanes -> Fr]]
    PROVE  /\ Len(ARK(params)) = Rounds
           /\ \A n \in 1 .. Rounds : Decoded(ARK(params)[n]) = params.ark[n]
           /\ Matrix(MDS(params)) = params.mds
  <1>1. Listed(ARK(params), Rounds)
    BY DEF ARK, Listed
  <1>2. Len(ARK(params)) = Rounds
    BY <1>1, Sizes, ListLen
  <1>3. ASSUME NEW n \in 1 .. Rounds PROVE Decoded(ARK(params)[n]) = params.ark[n]
    <2>1. \A i \in Lanes : ARK(params)[n][i] = FrToBytes(params.ark[n][i])
      BY DEF ARK
    <2>2. params.ark[n] \in [Lanes -> Fr]
      OBVIOUS
    <2>3. \A i \in Lanes : FrFromBytes(ARK(params)[n][i]) = params.ark[n][i]
      BY <2>1, <2>2, BytesRoundTrip
    <2> QED BY <2>2, <2>3 DEF Decoded
  <1>4. ASSUME NEW i \in Lanes PROVE Decoded(MDS(params)[i]) = params.mds[i]
    <2>1. \A j \in Lanes : MDS(params)[i][j] = FrToBytes(params.mds[i][j])
      BY DEF MDS
    <2>2. params.mds[i] \in [Lanes -> Fr]
      OBVIOUS
    <2>3. \A j \in Lanes : FrFromBytes(MDS(params)[i][j]) = params.mds[i][j]
      BY <2>1, <2>2, BytesRoundTrip
    <2> QED BY <2>2, <2>3 DEF Decoded
  <1>5. Matrix(MDS(params)) = params.mds
    BY <1>4 DEF Matrix
  <1> QED BY <1>2, <1>3, <1>5

LEMMA ContractIsNative ==
    ASSUME NEW params, params.ark \in [1 .. Rounds -> [Lanes -> Fr]],
           params.mds \in [Lanes -> [Lanes -> Fr]], NEW state
    PROVE  \A n \in 0 .. Rounds :
              ContractRounds(ARK(params), MDS(params), state)[n] = NativeRounds(params, state)[n]
  <1> DEFINE after == NativeRounds(params, state)
             ark == ARK(params)
             mds == MDS(params)
             contract == ContractRounds(ark, mds, state)
             T == {n \in Nat : contract[n] = after[n]}
  <1>1. after[0] = state /\ \A n \in 0 .. Rounds - 1 :
           after[n + 1] = Mix(params.mds, Substitute(Pow5, n, Add(after[n], params.ark[n + 1])))
    BY NativeDef
  <1>2. Len(ark) = Rounds /\ Matrix(mds) = params.mds
        /\ \A n \in 1 .. Rounds : Decoded(ark[n]) = params.ark[n]
    BY TablesDecode
  <1>3. contract[0] = state /\ \A n \in 0 .. Rounds - 1 :
           contract[n + 1] = Mix(Matrix(mds), ContractSubstitute(n, Add(contract[n], Decoded(ark[n + 1]))))
    <2> HIDE DEF ark, mds
    <2> QED BY <1>2, Sizes, ContractDef
  <1> HIDE DEF after, contract, ark, mds
  <1>4. \A n, s : ContractSubstitute(n, s) = Substitute(Pow5, n, s)
    BY DEF ContractSubstitute, Substitute, ContractFull, Full
  <1>5. 0 \in T
    BY <1>1, <1>3
  <1>6. ASSUME NEW n \in 0 .. Rounds - 1, n \in T PROVE n + 1 \in T
    <2>1. n + 1 \in 1 .. Rounds
      BY Sizes
    <2>2. Decoded(ark[n + 1]) = params.ark[n + 1]
      BY <1>2, <2>1
    <2>3. contract[n + 1] = Mix(params.mds, Substitute(Pow5, n, Add(after[n], params.ark[n + 1])))
      BY <1>2, <1>3, <1>4, <1>6, <2>2
    <2>4. contract[n + 1] = after[n + 1]
      BY <1>1, <2>3
    <2> QED BY <2>1, <2>4
  <1>7. 0 .. Rounds \subseteq T
    <2> HIDE DEF T
    <2> QED BY <1>5, <1>6, Induction, Sizes
  <1> QED BY <1>7 DEF after, contract, ark, mds

\* The three computations of the hash agree, for any parameters, any number of
\* rounds, and any byte strings, canonical or not.
THEOREM HashesAgree ==
    ASSUME NEW params, params.ark \in [1 .. Rounds -> [Lanes -> Fr]],
           params.mds \in [Lanes -> [Lanes -> Fr]], NEW l \in FrBytes, NEW r \in FrBytes
    PROVE  LET h == ContractHash2(ARK(params), MDS(params), l, r)
           IN  /\ Canonical(h)
               /\ FrFromBytes(h) = NativeHash2(params, FrFromBytes(l), FrFromBytes(r))
               /\ FrFromBytes(h) = GadgetHash2(params, FrFromBytes(l), FrFromBytes(r))
  <1> DEFINE state == <<0, FrFromBytes(l), FrFromBytes(r)>>
             out == NativeRounds(params, state)[Rounds][1]
  <1>1. state \in [Lanes -> Fr]
    BY DecodedInField, InField, LanesAre
  <1> HIDE DEF state
  <1>2. Rounds \in 0 .. Rounds
    BY Sizes
  <1>3. out \in Fr
    BY <1>1, <1>2, RoundsInField, LanesAre
  <1>4. NativeHash2(params, FrFromBytes(l), FrFromBytes(r)) = out
    BY DEF NativeHash2, NativePermute, state
  <1>5. GadgetHash2(params, FrFromBytes(l), FrFromBytes(r)) = out
    BY <1>2, GadgetIsNative DEF GadgetHash2, GadgetPermute, state
  <1>6. ContractHash2(ARK(params), MDS(params), l, r) = FrToBytes(out)
    <2>1. Len(ARK(params)) = Rounds
      BY TablesDecode
    <2>2. ContractRounds(ARK(params), MDS(params), state)[Rounds] = NativeRounds(params, state)[Rounds]
      BY <1>2, ContractIsNative
    <2> QED BY <2>1, <2>2 DEF ContractHash2, ContractPermute, state
  <1> HIDE DEF out
  <1> QED BY <1>3, <1>4, <1>5, <1>6, BytesRoundTrip

LEMMA ZerosInField ==
    ASSUME NEW params, params.ark \in [1 .. Rounds -> [Lanes -> Fr]],
           params.mds \in [Lanes -> [Lanes -> Fr]]
    PROVE  \A k \in 0 .. TreeDepth : NativeZeros(params)[k] \in Fr
  <1> DEFINE zero == NativeZeros(params)
             T == {n \in Nat : zero[n] \in Fr}
  <1>1. zero[0] = 0 /\ \A n \in 0 .. TreeDepth - 1 : zero[n + 1] = NativeHash2(params, zero[n], zero[n])
    BY NativeZerosDef
  <1> HIDE DEF zero
  <1>2. 0 \in T
    BY <1>1, InField
  <1>3. ASSUME NEW n \in 0 .. TreeDepth - 1, n \in T PROVE n + 1 \in T
    <2> DEFINE state == <<0, zero[n], zero[n]>>
    <2>1. state \in [Lanes -> Fr]
      BY <1>3, InField, LanesAre
    <2> HIDE DEF state
    <2>2. NativeRounds(params, state)[Rounds] \in [Lanes -> Fr]
      <3>1. Rounds \in 0 .. Rounds
        BY Sizes
      <3> QED BY <2>1, <3>1, RoundsInField
    <2>3. NativeHash2(params, zero[n], zero[n]) = NativeRounds(params, state)[Rounds][1]
      BY DEF NativeHash2, NativePermute, state
    <2>4. zero[n + 1] \in Fr
      BY <1>1, <2>2, <2>3, LanesAre
    <2> QED BY <2>4, Sizes
  <1>4. 0 .. TreeDepth \subseteq T
    <2> HIDE DEF T
    <2> QED BY <1>2, <1>3, Induction, Sizes
  <1> QED BY <1>4 DEF zero

LEMMA FinishedHash ==
    ASSUME ArtifactInv
    PROVE  ContractHashIsProtocolHash
  <1> SUFFICES ASSUME Finished
               PROVE  ContractHashIsProtocolHash
    BY DEF ContractHashIsProtocolHash
  <1> DEFINE params == Parameters[build]
  <1>1. build \in Builds /\ files[ParamsPath] = ParamsFile[build]
    <2>1. ParamsPath \in Paths /\ ParamsPath[2] # "SHA256SUMS"
      <3>1. ParamsPath = Plan[11] /\ 11 \in 1 .. 11
        BY PlanTable DEF ParamsPath
      <3> QED BY <3>1, PathsAre DEF ParamsPath
    <2>2. files[ParamsPath] = Product(build, ParamsPath)
      BY <2>1, FinishedFiles DEF Final
    <2>3. Product(build, ParamsPath) = ParamsFile[build]
      BY Products, CircuitsAre
    <2> QED BY <2>2, <2>3, FinishedFiles
  <1>2. params.ark \in [1 .. Rounds -> [Lanes -> Fr]] /\ params.mds \in [Lanes -> [Lanes -> Fr]]
    BY <1>1, ArtifactAssumption
  <1>3. /\ files[ParamsPath][1].data = ARK(params)
        /\ files[ParamsPath][2].data = MDS(params)
        /\ files[ParamsPath][3].data = ZEROS(params)
    BY <1>1 DEF ParamsFile
  <1> HIDE DEF params
  <1>4. ASSUME NEW l \in FrBytes, NEW r \in FrBytes
        PROVE  LET h == ContractHash2(ARK(params), MDS(params), l, r)
               IN  /\ Canonical(h)
                   /\ FrFromBytes(h) = NativeHash2(params, FrFromBytes(l), FrFromBytes(r))
                   /\ FrFromBytes(h) = GadgetHash2(params, FrFromBytes(l), FrFromBytes(r))
    BY <1>2, HashesAgree
  <1>5. \A k \in 0 .. TreeDepth : FrFromBytes(ZEROS(params)[k + 1]) = NativeZeros(params)[k]
    <2> TAKE k \in 0 .. TreeDepth
    <2>1. k + 1 \in 1 .. TreeDepth + 1 /\ (k + 1) - 1 = k
      BY Sizes
    <2>2. ZEROS(params)[k + 1] = FrToBytes(NativeZeros(params)[k])
      BY <2>1 DEF ZEROS
    <2>3. NativeZeros(params)[k] \in Fr
      BY <1>2, ZerosInField
    <2> QED BY <2>2, <2>3, BytesRoundTrip
  <1> QED BY <1>3, <1>4, <1>5 DEF ContractHashIsProtocolHash, params

\* After any history that ends in a finished build: one hash, for any parameters,
\* numbers of rounds and depth.
THEOREM ContractHash == Spec => []ContractHashIsProtocolHash
  BY ArtifactInvariant, FinishedHash, PTL

-----------------------------------------------------------------------------
(* Sums *)

\* What SumFunction folds, with the elements taken in the order of CHOOSE.
Picked(s) == CHOOSE x \in s : TRUE
Folding(f, g, D) ==
    g = [s \in D |-> IF s = {} THEN 0 ELSE f[Picked(s)] + g[s \ {Picked(s)}]]

LEMMA FoldExists ==
    ASSUME NEW f, NEW S, IsFiniteSet(S)
    PROVE  \E g : Folding(f, g, SUBSET S)
  <1> DEFINE Small(k) == {s \in SUBSET S : Cardinality(s) <= k}
             T == {k \in Nat : \E g : Folding(f, g, Small(k))}
  <1>1. ASSUME NEW s \in SUBSET S
        PROVE  /\ IsFiniteSet(s) /\ Cardinality(s) \in Nat /\ Cardinality(s) <= Cardinality(S)
               /\ Cardinality(s) = 0 <=> s = {}
               /\ s # {} => /\ Picked(s) \in s
                            /\ s \ {Picked(s)} \in SUBSET S
                            /\ Cardinality(s \ {Picked(s)}) = Cardinality(s) - 1
    <2>1. IsFiniteSet(s) /\ Cardinality(s) \in Nat /\ Cardinality(s) <= Cardinality(S)
      BY FS_Subset, FS_CardinalityType
    <2>2. Cardinality(s) = 0 <=> s = {}
      BY <2>1, FS_EmptySet
    <2>3. s # {} => Picked(s) \in s
      BY DEF Picked
    <2>4. s # {} => Cardinality(s \ {Picked(s)}) = Cardinality(s) - 1
      BY <2>1, <2>3, FS_RemoveElement
    <2> QED BY <2>1, <2>2, <2>3, <2>4
  <1>2. Cardinality(S) \in Nat
    BY FS_CardinalityType
  <1>3. 0 \in T
    <2> DEFINE g == [s \in Small(0) |-> 0]
    <2>1. \A s \in Small(0) : s = {}
      <3> TAKE s \in Small(0)
      <3>1. s \in SUBSET S /\ Cardinality(s) <= 0
        OBVIOUS
      <3>2. Cardinality(s) \in Nat
        BY <1>1, <3>1
      <3>3. Cardinality(s) = 0
        BY <3>1, <3>2
      <3> QED BY <1>1, <3>1, <3>3
    <2>2. Folding(f, g, Small(0))
      BY <2>1 DEF Folding
    <2> QED BY <2>2
  <1>4. ASSUME NEW k \in 0 .. Cardinality(S) - 1, k \in T
        PROVE  k + 1 \in T
    <2>1. PICK g : Folding(f, g, Small(k))
      BY <1>4
    <2> DEFINE h == [s \in Small(k + 1) |-> IF s = {} THEN 0 ELSE f[Picked(s)] + g[s \ {Picked(s)}]]
    <2>2. k \in Nat
      BY <1>2
    <2>3. \A s \in Small(k) : s \in Small(k + 1)
      <3> TAKE s \in Small(k)
      <3>1. s \in SUBSET S /\ Cardinality(s) <= k
        OBVIOUS
      <3>2. Cardinality(s) \in Nat
        BY <1>1, <3>1
      <3>3. Cardinality(s) <= k + 1
        BY <2>2, <3>1, <3>2
      <3> QED BY <3>1, <3>3
    <2>4. \A s \in Small(k) : g[s] = IF s = {} THEN 0 ELSE f[Picked(s)] + g[s \ {Picked(s)}]
      BY <2>1 DEF Folding
    <2>5. \A s \in Small(k) : h[s] = g[s]
      BY <2>3, <2>4
    <2>6. \A s \in Small(k + 1) : s # {} => s \ {Picked(s)} \in Small(k)
      BY <1>1, <2>2
    <2>7. \A s \in Small(k + 1) : s # {} => h[s \ {Picked(s)}] = g[s \ {Picked(s)}]
      BY <2>5, <2>6
    <2> HIDE DEF Small
    <2>8. h = [s \in Small(k + 1) |-> IF s = {} THEN 0 ELSE f[Picked(s)] + h[s \ {Picked(s)}]]
      BY <2>7
    <2> HIDE DEF h
    <2>9. Folding(f, h, Small(k + 1))
      BY <2>8 DEF Folding
    <2> QED BY <2>2, <2>9
  <1>5. Cardinality(S) \in T
    <2> HIDE DEF T
    <2> QED BY <1>2, <1>3, <1>4, Induction
  <1>6. Small(Cardinality(S)) = SUBSET S
    BY <1>1
  <1> QED BY <1>5, <1>6

LEMMA SumIsFold ==
    ASSUME NEW f, IsFiniteSet(DOMAIN f)
    PROVE  \E g : Folding(f, g, SUBSET DOMAIN f) /\ SumFunction(f) = g[DOMAIN f]
  <1> DEFINE S == DOMAIN f
             Fold(h) == h = [s \in SUBSET S |->
                               IF s = {} THEN 0
                               ELSE f[CHOOSE x \in s : TRUE] + h[s \ {CHOOSE x \in s : TRUE}]]
  <1>1. SumFunction(f) = (CHOOSE h : Fold(h))[S]
    BY DEF SumFunction, SumFunctionOnSet, FoldFunctionOnSet, MapThenFoldSet
  <1>2. \A h : Fold(h) <=> Folding(f, h, SUBSET S)
    BY DEF Folding, Picked
  <1>3. \E h : Fold(h)
    <2>1. \E h : Folding(f, h, SUBSET S)
      BY FoldExists
    <2> HIDE DEF Fold
    <2> QED BY <1>2, <2>1
  <1> HIDE DEF Fold
  <1>4. Fold(CHOOSE h : Fold(h))
    BY <1>3
  <1> QED BY <1>1, <1>2, <1>4

\* Any element may be taken first.
Summing(f, g, S) ==
    /\ g[{}] = 0
    /\ \A s \in SUBSET S : g[s] \in Int /\ \A x \in s : g[s] = f[x] + g[s \ {x}]

LEMMA AnyFirst ==
    ASSUME NEW S, IsFiniteSet(S), NEW f \in [S -> Int], NEW g, Folding(f, g, SUBSET S)
    PROVE  Summing(f, g, S)
  <1> DEFINE Good(s) == g[s] \in Int /\ \A x \in s : g[s] = f[x] + g[s \ {x}]
             T == {k \in Nat : \A s \in SUBSET S : Cardinality(s) <= k => Good(s)}
  <1>1. \A s \in SUBSET S : /\ IsFiniteSet(s) /\ Cardinality(s) \in 0 .. Cardinality(S)
                            /\ Cardinality(s) = 0 <=> s = {}
    BY FS_Subset, FS_CardinalityType, FS_EmptySet
  <1>2. \A s \in SUBSET S : \A x \in s : s \ {x} \in SUBSET S /\ Cardinality(s \ {x}) = Cardinality(s) - 1
    BY <1>1, FS_RemoveElement
  <1>3. g[{}] = 0 /\ \A s \in SUBSET S : s # {} => /\ Picked(s) \in s
                                                  /\ g[s] = f[Picked(s)] + g[s \ {Picked(s)}]
    <2>1. \A s \in SUBSET S : g[s] = IF s = {} THEN 0 ELSE f[Picked(s)] + g[s \ {Picked(s)}]
      BY DEF Folding
    <2>2. \A s : s # {} => Picked(s) \in s
      BY DEF Picked
    <2>3. {} \in SUBSET S
      OBVIOUS
    <2> QED BY <2>1, <2>2, <2>3
  <1>4. 0 \in T
    <2> SUFFICES ASSUME NEW s \in SUBSET S, Cardinality(s) <= 0 PROVE Good(s)
      OBVIOUS
    <2>1. s = {}
      BY <1>1
    <2> QED BY <1>3, <2>1
  <1>5. ASSUME NEW k \in 0 .. Cardinality(S) - 1, k \in T
        PROVE  k + 1 \in T
    <2> SUFFICES ASSUME NEW s \in SUBSET S, Cardinality(s) <= k + 1, ~(Cardinality(s) <= k)
                 PROVE  Good(s)
      <3>1. k \in Nat /\ k + 1 \in Nat
        BY <1>1, FS_CardinalityType
      <3>2. \A s \in SUBSET S : Cardinality(s) <= k => Good(s)
        BY <1>5
      <3> HIDE DEF Good
      <3> QED BY <3>1, <3>2
    <2>0. Cardinality(s) = k + 1
      BY <1>1
    <2> DEFINE y == Picked(s)
    <2>1. k \in Nat /\ s # {}
      BY <1>1, <2>0
    <2>2. y \in s /\ g[s] = f[y] + g[s \ {y}]
      BY <1>3, <2>1
    <2> HIDE DEF y
    <2>3. \A x \in s : s \ {x} \in SUBSET S /\ Cardinality(s \ {x}) = k
      <3> TAKE x \in s
      <3>1. s \ {x} \in SUBSET S /\ Cardinality(s \ {x}) = Cardinality(s) - 1
        BY <1>2
      <3> QED BY <2>0, <2>1, <3>1
    <2>4. \A x \in s : g[s \ {x}] \in Int /\ \A z \in s \ {x} : g[s \ {x}] = f[z] + g[(s \ {x}) \ {z}]
      <3>1. \A r \in SUBSET S : Cardinality(r) <= k => Good(r)
        BY <1>5
      <3>2. \A x \in s : Good(s \ {x})
        <4> HIDE DEF Good
        <4> QED BY <2>1, <2>3, <3>1
      <3> QED BY <3>2
    <2>5. \A x \in s : f[x] \in Int
      OBVIOUS
    <2>6. g[s] \in Int
      <3>1. g[s \ {y}] \in Int /\ f[y] \in Int
        BY <2>2, <2>4, <2>5
      <3> QED BY <2>2, <3>1
    <2>7. ASSUME NEW x \in s, x # y PROVE g[s] = f[x] + g[s \ {x}]
      <3>1. g[s \ {y}] = f[x] + g[(s \ {y}) \ {x}] /\ g[s \ {x}] = f[y] + g[(s \ {x}) \ {y}]
        BY <2>2, <2>4, <2>7
      <3>2. (s \ {y}) \ {x} = (s \ {x}) \ {y}
        OBVIOUS
      <3> DEFINE rest == g[(s \ {x}) \ {y}]
      <3>3. g[s] = f[y] + (f[x] + rest) /\ g[s \ {x}] = f[y] + rest
        BY <2>2, <3>1, <3>2
      <3>4. rest \in Int
        <4>1. (s \ {x}) \ {y} \in SUBSET S /\ s \ {x} \in SUBSET S /\ y \in s \ {x}
          BY <2>2, <2>7
        <4>2. Cardinality((s \ {x}) \ {y}) = k - 1
          BY <1>2, <2>3, <4>1
        <4>3. k - 1 <= k
          BY <2>1
        <4> QED BY <1>5, <4>1, <4>2, <4>3
      <3> HIDE DEF rest
      <3> QED BY <2>2, <2>5, <3>3, <3>4
    <2> QED BY <2>2, <2>6, <2>7
  <1>6. Cardinality(S) \in T
    <2> HIDE DEF T
    <2> QED BY <1>1, <1>4, <1>5, FS_CardinalityType, Induction
  <1>7. \A s \in SUBSET S : Good(s)
    BY <1>1, <1>6
  <1> QED BY <1>3, <1>7 DEF Summing

LEMMA SumInAnyOrder ==
    ASSUME NEW S, IsFiniteSet(S), NEW f \in [S -> Int]
    PROVE  \E g : SumFunction(f) = g[S] /\ Summing(f, g, S)
  <1>1. DOMAIN f = S
    OBVIOUS
  <1>2. PICK g : Folding(f, g, SUBSET S) /\ SumFunction(f) = g[S]
    BY <1>1, SumIsFold
  <1> QED BY <1>2, AnyFirst

\* So a sum over 1 .. n can be read off its partial sums.
PartialSums(p, f, n) ==
    /\ p[0] = 0
    /\ \A k \in 0 .. n : p[k] \in Int
    /\ \A k \in 0 .. n - 1 : p[k + 1] = f[k + 1] + p[k]

LEMMA SumIsPartialSum ==
    ASSUME NEW n \in Nat, NEW f \in [1 .. n -> Int]
    PROVE  \E p : PartialSums(p, f, n) /\ SumFunction(f) = p[n]
  <1>1. IsFiniteSet(1 .. n) /\ DOMAIN f = 1 .. n
    BY FS_Interval
  <1>2. PICK g : SumFunction(f) = g[1 .. n] /\ Summing(f, g, 1 .. n)
    BY <1>1, SumInAnyOrder
  <1>3. g[{}] = 0 /\ \A s \in SUBSET (1 .. n) : g[s] \in Int /\ \A x \in s : g[s] = f[x] + g[s \ {x}]
    BY <1>2 DEF Summing
  <1> DEFINE p == [k \in 0 .. n |-> g[1 .. k]]
  <1>4. p[0] = 0
    <2>1. 1 .. 0 = {} /\ 0 \in 0 .. n
      OBVIOUS
    <2> QED BY <1>3, <2>1
  <1>5. \A k \in 0 .. n : 1 .. k \in SUBSET (1 .. n) /\ p[k] = g[1 .. k]
    OBVIOUS
  <1>6. \A k \in 0 .. n - 1 : k + 1 \in 1 .. k + 1 /\ (1 .. k + 1) \ {k + 1} = 1 .. k
                              /\ k \in 0 .. n /\ k + 1 \in 0 .. n
    OBVIOUS
  <1> HIDE DEF p
  <1>7. \A k \in 0 .. n : p[k] \in Int
    BY <1>3, <1>5
  <1>8. ASSUME NEW k \in 0 .. n - 1
        PROVE  p[k + 1] = f[k + 1] + p[k]
    <2>1. g[1 .. k + 1] = f[k + 1] + g[(1 .. k + 1) \ {k + 1}]
      <3>1. 1 .. k + 1 \in SUBSET (1 .. n) /\ k + 1 \in 1 .. k + 1
        BY <1>5, <1>6
      <3> QED BY <1>3, <3>1
    <2> QED BY <1>5, <1>6, <2>1
  <1>9. n \in 0 .. n
    OBVIOUS
  <1> QED BY <1>2, <1>4, <1>5, <1>7, <1>8, <1>9 DEF PartialSums

LEMMA SumOfFour ==
    ASSUME NEW f \in [1 .. 4 -> Int]
    PROVE  SumFunction(f) = f[1] + f[2] + f[3] + f[4]
  <1>1. 4 \in Nat
    OBVIOUS
  <1>2. PICK p : PartialSums(p, f, 4) /\ SumFunction(f) = p[4]
    BY <1>1, SumIsPartialSum
  <1>3. p[0] = 0 /\ \A k \in 0 .. 3 : p[k + 1] = f[k + 1] + p[k]
    <2>1. 4 - 1 = 3
      OBVIOUS
    <2> QED BY <1>2, <2>1 DEF PartialSums
  <1>4. p[1] = f[1] + 0 /\ p[2] = f[2] + p[1] /\ p[3] = f[3] + p[2] /\ p[4] = f[4] + p[3]
    <2>1. 0 \in 0 .. 3 /\ 1 \in 0 .. 3 /\ 2 \in 0 .. 3 /\ 3 \in 0 .. 3
          /\ 0 + 1 = 1 /\ 1 + 1 = 2 /\ 2 + 1 = 3 /\ 3 + 1 = 4
      OBVIOUS
    <2> QED BY <1>3, <2>1
  <1>5. f[1] \in Int /\ f[2] \in Int /\ f[3] \in Int /\ f[4] \in Int
    OBVIOUS
  <1> QED BY <1>2, <1>4, <1>5

\* The first term apart.
LEMMA SumOfRest ==
    ASSUME NEW n \in Nat, NEW f \in [1 .. n + 1 -> Int], NEW h \in [1 .. n -> Int],
           \A k \in 1 .. n : h[k] = f[k + 1]
    PROVE  SumFunction(f) = f[1] + SumFunction(h) /\ SumFunction(h) \in Int
  <1>1. n + 1 \in Nat /\ (n + 1) - 1 = n
    OBVIOUS
  <1>2. PICK p : PartialSums(p, f, n + 1) /\ SumFunction(f) = p[n + 1]
    BY <1>1, SumIsPartialSum
  <1>3. PICK q : PartialSums(q, h, n) /\ SumFunction(h) = q[n]
    BY SumIsPartialSum
  <1>4. p[0] = 0 /\ \A k \in 0 .. n : p[k + 1] = f[k + 1] + p[k]
    BY <1>1, <1>2 DEF PartialSums
  <1>5. q[0] = 0 /\ (\A k \in 0 .. n : q[k] \in Int) /\ \A k \in 0 .. n - 1 : q[k + 1] = h[k + 1] + q[k]
    BY <1>3 DEF PartialSums
  <1>6. f[1] \in Int
    OBVIOUS
  <1> DEFINE T == {k \in 0 .. n : p[k + 1] = f[1] + q[k]}
  <1>7. 0 \in T
    <2>1. 0 \in 0 .. n /\ 0 + 1 = 1
      OBVIOUS
    <2>2. p[1] = f[1] + 0
      BY <1>4, <2>1
    <2> QED BY <1>5, <2>1, <2>2
  <1>8. ASSUME NEW k \in 0 .. n - 1, k \in T PROVE k + 1 \in T
    <2>1. k + 1 \in 0 .. n /\ k \in 0 .. n /\ k + 1 \in 1 .. n
      OBVIOUS
    <2>2. p[(k + 1) + 1] = f[(k + 1) + 1] + p[k + 1]
      BY <1>4, <2>1
    <2>3. h[k + 1] = f[(k + 1) + 1] /\ h[k + 1] \in Int
      BY <2>1
    <2>4. p[k + 1] = f[1] + q[k]
      BY <1>8
    <2>5. p[(k + 1) + 1] = f[1] + q[k + 1]
      BY <1>5, <1>6, <2>1, <2>2, <2>3, <2>4
    <2> QED BY <2>1, <2>5
  <1>9. n \in T
    <2> HIDE DEF T
    <2>1. 0 .. n \subseteq T
      BY <1>7, <1>8, Induction
    <2> QED BY <2>1
  <1>10. q[n] \in Int
    BY <1>5
  <1> QED BY <1>2, <1>3, <1>9, <1>10

-----------------------------------------------------------------------------
(* Remainders *)

LEMMA ModMultiple ==
    ASSUME NEW p \in Nat \ {0}, NEW q \in Nat, NEW w \in Nat
    PROVE  (p * q + w) % p = w % p
  <1> DEFINE e == w \div p
             r == w % p
  <1>1. r \in 0 .. p - 1 /\ e \in Nat /\ w = p * e + r
    BY DivMod
  <1> HIDE DEF e, r
  <1>2. q + e \in Nat /\ p * q + w = p * (q + e) + r
    BY <1>1
  <1>3. (p * (q + e) + r) % p = r
    BY <1>1, <1>2, DivUnique
  <1> QED BY <1>2, <1>3 DEF r

LEMMA ModShift ==
    ASSUME NEW p \in Nat \ {0}, NEW x \in Nat, NEW z \in Nat
    PROVE  ((x % p) + z) % p = (x + z) % p
  <1> DEFINE c == x % p
             qx == x \div p
  <1>1. c \in 0 .. p - 1 /\ qx \in Nat /\ x = p * qx + c
    BY DivMod
  <1> HIDE DEF c, qx
  <1>2. c + z \in Nat /\ p * qx \in Nat
    BY <1>1
  <1>3. x + z = p * qx + (c + z)
    BY <1>1, <1>2
  <1>4. (p * qx + (c + z)) % p = (c + z) % p
    BY <1>1, <1>2, ModMultiple
  <1> QED BY <1>3, <1>4 DEF c

\* A multiple of p that is smaller than p is 0.
LEMMA SmallMultiple ==
    ASSUME NEW p \in Nat \ {0}, NEW z \in Int, -p < p * z, p * z < p
    PROVE  z = 0
  <1>1. CASE z > 0
    <2>1. p * z >= p * 1
      BY <1>1
    <2> QED BY <2>1
  <1>2. CASE z < 0
    <2>1. p * z <= p * (-1)
      BY <1>2
    <2> QED BY <2>1
  <1> QED BY <1>1, <1>2

LEMMA Opposite ==
    ASSUME NEW p \in Nat \ {0}, NEW m \in Nat, NEW r \in Nat
    PROVE  ((p - 1) * m + r) % p = 0 <=> m % p = r % p
  <1> DEFINE a == m % p
             b == r % p
             qm == m \div p
             qr == r \div p
             x == (p - 1) * m + r
             qx == x \div p
  <1>1. /\ a \in 0 .. p - 1 /\ qm \in Nat /\ m = p * qm + a
        /\ b \in 0 .. p - 1 /\ qr \in Nat /\ r = p * qr + b
    BY DivMod
  <1>2. x \in Nat /\ x = p * m - m + r
    <2>1. p - 1 \in Nat
      OBVIOUS
    <2>2. (p - 1) * m \in Nat
      BY <2>1
    <2>3. (p - 1) * m = p * m - m
      OBVIOUS
    <2> QED BY <2>2, <2>3
  <1> HIDE DEF a, b, qm, qr, x
  <1>3. x % p \in 0 .. p - 1 /\ qx \in Nat /\ x = p * qx + (x % p)
    BY <1>2, DivMod
  <1> HIDE DEF qx
  <1>4. x = p * (m - qm + qr) + (b - a)
    <2>1. x = p * m - (p * qm + a) + (p * qr + b)
      BY <1>1, <1>2
    <2>2. p * m \in Int /\ p * qm \in Int /\ p * qr \in Int
          /\ p * (m - qm + qr) = p * m - p * qm + p * qr
      BY <1>1
    <2> QED BY <1>1, <2>1, <2>2
  <1>5. ASSUME x % p = 0 PROVE a = b
    <2> DEFINE z == qx - (m - qm + qr)
    <2>1. z \in Int /\ p * z = p * qx - p * (m - qm + qr)
      BY <1>1, <1>3
    <2>2. x = p * qx
      <3>1. p * qx \in Int
        BY <1>3
      <3> QED BY <1>3, <1>5, <3>1
    <2>3. p * z = b - a
      <3>1. p * qx \in Int /\ p * (m - qm + qr) \in Int /\ b - a \in Int
        BY <1>1, <1>3
      <3> HIDE DEF z
      <3> QED BY <1>4, <2>1, <2>2, <3>1
    <2>4. -p < b - a /\ b - a < p
      BY <1>1
    <2>5. z = 0
      <3> HIDE DEF z
      <3> QED BY <2>1, <2>3, <2>4, SmallMultiple
    <2>6. b - a = 0
      <3>1. p * 0 = 0
        OBVIOUS
      <3> HIDE DEF z
      <3> QED BY <2>3, <2>5, <3>1
    <2> QED BY <1>1, <2>6
  <1>6. ASSUME a = b PROVE x % p = 0
    <2> DEFINE k == m - qm + qr
    <2>1. k \in Int /\ x = p * k
      <3>1. k \in Int /\ p * k \in Int
        BY <1>1
      <3> HIDE DEF k
      <3>2. x = p * k + (b - a)
        BY <1>4 DEF k
      <3> QED BY <1>1, <1>6, <3>1, <3>2
    <2> HIDE DEF k
    <2>2. k \in Nat
      <3>1. CASE k < 0
        <4>1. p * k <= p * (-1)
          BY <2>1, <3>1
        <4> QED BY <1>2, <2>1, <4>1
      <3> QED BY <2>1, <3>1
    <2>3. (p * k + 0) % p = 0
      <3>1. 0 \in 0 .. p - 1
        OBVIOUS
      <3> QED BY <2>2, <3>1, DivUnique
    <2> QED BY <2>1, <2>2, <2>3
  <1> QED BY <1>5, <1>6 DEF a, b, x

-----------------------------------------------------------------------------
(* The two verifiers *)

\* The pairing product of the contract and the equation of the library, on logarithms.
HostProduct(a, b, s, g, u, v) ==
    (((a * (FieldOrder - 1)) % FieldOrder) * b + u + (s % FieldOrder) * g + v) % FieldOrder = 0
KeyEquation(a, b, s, g, u, v) == (a * b) % FieldOrder = (u + s * g + v) % FieldOrder

LEMMA HostEquation ==
    ASSUME NEW a \in Nat, NEW b \in Nat, NEW s \in Nat, NEW g \in Nat, NEW u \in Nat, NEW v \in Nat
    PROVE  HostProduct(a, b, s, g, u, v) <=> KeyEquation(a, b, s, g, u, v)
  <1> DEFINE p == FieldOrder
             n == a * (p - 1)
             neg == n % p
             rem == s % p
             nb == n * b
             sg == s * g
  <1>1. p \in Nat \ {0} /\ p - 1 \in Nat /\ n \in Nat /\ a * b \in Nat
    <2>1. p \in Nat \ {0} /\ p - 1 \in Nat
      BY Sizes
    <2> HIDE DEF p
    <2>2. n \in Nat
      BY <2>1
    <2> QED BY <2>1, <2>2
  <1>2. neg \in Nat /\ rem \in Nat
    <2> HIDE DEF p, n
    <2>1. neg \in 0 .. p - 1 /\ rem \in 0 .. p - 1
      BY <1>1, DivMod
    <2> QED BY <2>1
  <1>3. (neg * b) % p = nb % p /\ (rem * g) % p = sg % p
    <2> HIDE DEF n
    <2> QED BY <1>1, ModTimes
  <1>4. nb = (p - 1) * (a * b)
    <2> HIDE DEF p
    <2> QED BY <1>1
  <1> HIDE DEF p, n
  <1>5. neg * b \in Nat /\ rem * g \in Nat /\ nb \in Nat /\ sg \in Nat
    <2> HIDE DEF neg, rem
    <2> QED BY <1>1, <1>2
  <1> DEFINE negb == neg * b
             remg == rem * g
  <1> HIDE DEF neg, rem, nb, sg, negb, remg
  <1>6. /\ negb \in Nat /\ remg \in Nat /\ nb \in Nat /\ sg \in Nat
        /\ negb % p = nb % p /\ remg % p = sg % p
    BY <1>3, <1>5 DEF negb, remg
  <1>7. (negb + (u + remg + v)) % p = (nb + (u + remg + v)) % p
    <2> DEFINE z == u + remg + v
    <2>1. z \in Nat
      BY <1>6
    <2> HIDE DEF z
    <2>2. p \in Nat \ {0} /\ negb \in Nat /\ nb \in Nat /\ negb % p = nb % p
      BY <1>1, <1>6
    <2>3. ((negb % p) + z) % p = (negb + z) % p /\ ((nb % p) + z) % p = (nb + z) % p
      BY <2>1, <2>2, ModShift
    <2> QED BY <2>2, <2>3 DEF z
  <1>8. (remg + (nb + u + v)) % p = (sg + (nb + u + v)) % p
    <2> DEFINE z == nb + u + v
    <2>1. z \in Nat
      BY <1>6
    <2> HIDE DEF z
    <2>2. p \in Nat \ {0} /\ remg \in Nat /\ sg \in Nat /\ remg % p = sg % p
      BY <1>1, <1>6
    <2>3. ((remg % p) + z) % p = (remg + z) % p /\ ((sg % p) + z) % p = (sg + z) % p
      BY <2>1, <2>2, ModShift
    <2> QED BY <2>2, <2>3 DEF z
  <1>9. negb + u + remg + v = negb + (u + remg + v) /\ nb + (u + remg + v) = remg + (nb + u + v)
        /\ sg + (nb + u + v) = nb + (u + sg + v)
    BY <1>6
  <1>10. (negb + u + remg + v) % p = (nb + (u + sg + v)) % p
    BY <1>7, <1>8, <1>9
  <1>11. (nb + (u + sg + v)) % p = 0 <=> (a * b) % p = (u + sg + v) % p
    <2> DEFINE m == a * b
               r == u + sg + v
    <2>1. m \in Nat /\ r \in Nat /\ nb = (p - 1) * m
      BY <1>1, <1>4, <1>6
    <2> HIDE DEF m, r
    <2>2. ((p - 1) * m + r) % p = 0 <=> m % p = r % p
      BY <1>1, <2>1, Opposite
    <2> QED BY <2>1, <2>2 DEF m, r
  <1>12. (negb + u + remg + v) % p = 0 <=> (a * b) % p = (u + sg + v) % p
    BY <1>10, <1>11
  <1> QED BY <1>12 DEF HostProduct, KeyEquation, negb, remg, neg, rem, sg, n, p

LEMMA Logs ==
    /\ \A e \in Fr : G1[e] \in Range(G1) /\ Log(G1, G1[e]) = e
    /\ \A e \in Fr : G2[e] \in Range(G2) /\ Log(G2, G2[e]) = e
    /\ \A point \in Range(G1) : Log(G1, point) \in Fr /\ point = G1[Log(G1, point)]
    /\ \A point \in Range(G2) : Log(G2, point) \in Fr /\ point = G2[Log(G2, point)]
    /\ Fr \subseteq Nat
  <1>1. DOMAIN G1 = Fr /\ DOMAIN G2 = Fr
    BY DEF G1, G2
  <1>2. \A e \in Fr : G1[e] = IF e = 0 THEN << >> ELSE <<e, CoordOrder - e>>
    BY DEF G1, Identity
  <1>3. \A e \in Fr : G2[e] = IF e = 0 THEN << >> ELSE <<e, 0, CoordOrder - e, 1>>
    BY DEF G2, Identity
  <1>4. \A d, e \in Fr : G1[d] = G1[e] => d = e
    <2> TAKE d, e \in Fr
    <2> HAVE G1[d] = G1[e]
    <2>1. CASE d = 0 /\ e = 0
      BY <2>1
    <2>2. CASE d # 0 /\ e # 0
      <3>1. <<d, CoordOrder - d>> = <<e, CoordOrder - e>>
        BY <1>2, <2>2
      <3> QED BY <3>1
    <2>3. CASE d = 0 /\ e # 0
      <3>1. << >> = <<e, CoordOrder - e>>
        BY <1>2, <2>3
      <3> QED BY <3>1
    <2>4. CASE d # 0 /\ e = 0
      <3>1. <<d, CoordOrder - d>> = << >>
        BY <1>2, <2>4
      <3> QED BY <3>1
    <2> QED BY <2>1, <2>2, <2>3, <2>4
  <1>5. \A d, e \in Fr : G2[d] = G2[e] => d = e
    <2> TAKE d, e \in Fr
    <2> HAVE G2[d] = G2[e]
    <2>1. CASE d = 0 /\ e = 0
      BY <2>1
    <2>2. CASE d # 0 /\ e # 0
      <3>1. <<d, 0, CoordOrder - d, 1>> = <<e, 0, CoordOrder - e, 1>>
        BY <1>3, <2>2
      <3> QED BY <3>1
    <2>3. CASE d = 0 /\ e # 0
      <3>1. << >> = <<e, 0, CoordOrder - e, 1>>
        BY <1>3, <2>3
      <3> QED BY <3>1
    <2>4. CASE d # 0 /\ e = 0
      <3>1. <<d, 0, CoordOrder - d, 1>> = << >>
        BY <1>3, <2>4
      <3> QED BY <3>1
    <2> QED BY <2>1, <2>2, <2>3, <2>4
  <1>6. \A e \in Fr : G1[e] \in Range(G1) /\ Log(G1, G1[e]) = e
    BY <1>1, <1>4 DEF Log, Range
  <1>7. \A e \in Fr : G2[e] \in Range(G2) /\ Log(G2, G2[e]) = e
    BY <1>1, <1>5 DEF Log, Range
  <1>8. \A point \in Range(G1) : \E e \in Fr : point = G1[e]
    BY <1>1 DEF Range
  <1>9. \A point \in Range(G2) : \E e \in Fr : point = G2[e]
    BY <1>1 DEF Range
  <1>10. Fr \subseteq Nat
    BY Sizes DEF Fr
  <1> QED BY <1>6, <1>7, <1>8, <1>9, <1>10

LEMMA SumIsNat ==
    ASSUME NEW n \in Nat, NEW f \in [1 .. n -> Nat]
    PROVE  SumFunction(f) \in Nat
  <1>1. f \in [1 .. n -> Int]
    OBVIOUS
  <1>2. PICK p : PartialSums(p, f, n) /\ SumFunction(f) = p[n]
    BY <1>1, SumIsPartialSum
  <1>3. p[0] = 0 /\ \A k \in 0 .. n - 1 : p[k + 1] = f[k + 1] + p[k]
    BY <1>2 DEF PartialSums
  <1> DEFINE T == {k \in 0 .. n : p[k] \in Nat}
  <1>4. 0 \in T
    BY <1>3
  <1>5. ASSUME NEW k \in 0 .. n - 1, k \in T PROVE k + 1 \in T
    <2>1. k + 1 \in 0 .. n /\ f[k + 1] \in Nat /\ p[k] \in Nat
      BY <1>5
    <2> QED BY <1>3, <2>1
  <1>6. 0 .. n \subseteq T
    <2> HIDE DEF T
    <2> QED BY <1>4, <1>5, Induction
  <1>7. n \in T
    <2> HIDE DEF T
    <2> QED BY <1>6
  <1> QED BY <1>2, <1>7

\* The inputs of the contract's multiplication start with the constant 1.
LEMMA ScalarsAre ==
    ASSUME NEW q \in Nat, NEW x \in [1 .. q -> Fr]
    PROVE  LET s == SubSeq(<<1>> \o x, 1, q + 1)
           IN  s[1] = 1 /\ \A i \in 1 .. q : s[i + 1] = x[i]
  <1> DEFINE t == <<1>> \o x
  <1>1. Listed(<<1>>, 1) /\ Listed(x, q) /\ 1 \in Nat /\ 1 + q \in Nat /\ 1 + q = q + 1 /\ <<1>>[1] = 1
    BY DEF Listed
  <1>2. Concat(t, <<1>>, 1, x, q)
    BY <1>1, ListConcat
  <1>3. Listed(t, 1 + q) /\ t[1] = 1 /\ \A i \in 1 .. q : t[1 + i] = x[i]
    BY <1>1, <1>2 DEF Concat
  <1> HIDE DEF t
  <1>4. q + 1 \in 0 .. 1 + q
    OBVIOUS
  <1>5. \A i \in 1 .. q + 1 : SubSeq(t, 1, q + 1)[i] = t[i]
    BY <1>1, <1>3, <1>4, ListPrefix
  <1>6. \A i \in 1 .. q : i + 1 \in 1 .. q + 1 /\ 1 + i = i + 1
    OBVIOUS
  <1>7. 1 \in 1 .. q + 1
    OBVIOUS
  <1> QED BY <1>3, <1>5, <1>6, <1>7 DEF t

ProofPoints == [a : Range(G1), b : Range(G2), c : Range(G1)]

\* The linear combination of the IC points.
LEMMA MsmIs ==
    ASSUME NEW q \in Nat, NEW ic \in [1 .. q + 1 -> Range(G1)], NEW x \in [1 .. q -> Fr]
    PROVE  LET rest == SumFunction([i \in DOMAIN x |-> x[i] * Log(G1, ic[i + 1])])
           IN  /\ rest \in Nat
               /\ Msm(ic, SubSeq(<<1>> \o x, 1, q + 1)) \in Range(G1)
               /\ Log(G1, Msm(ic, SubSeq(<<1>> \o x, 1, q + 1))) = (Log(G1, ic[1]) + rest) % FieldOrder
  <1> DEFINE s == SubSeq(<<1>> \o x, 1, q + 1)
             f == [i \in DOMAIN ic |-> Log(G1, ic[i]) * s[i]]
             h == [i \in DOMAIN x |-> x[i] * Log(G1, ic[i + 1])]
  <1>1. s[1] = 1 /\ \A i \in 1 .. q : s[i + 1] = x[i]
    BY ScalarsAre
  <1> HIDE DEF s
  <1>2. \A i \in 1 .. q + 1 : Log(G1, ic[i]) \in Nat
    BY Logs
  <1>3. DOMAIN x = 1 .. q /\ DOMAIN ic = 1 .. q + 1 /\ \A i \in 1 .. q : x[i] \in Nat
    BY Logs
  <1>4. 1 \in 1 .. q + 1 /\ \A i \in 1 .. q : i + 1 \in 1 .. q + 1
    OBVIOUS
  <1>5. h \in [1 .. q -> Nat]
    <2>1. \A i \in 1 .. q : x[i] * Log(G1, ic[i + 1]) \in Nat
      BY <1>2, <1>3, <1>4
    <2> QED BY <1>3, <2>1
  <1>6. \A k \in 1 .. q : h[k] = f[k + 1]
    <2> TAKE k \in 1 .. q
    <2>1. h[k] = x[k] * Log(G1, ic[k + 1]) /\ f[k + 1] = Log(G1, ic[k + 1]) * s[k + 1]
      BY <1>3, <1>4
    <2>2. s[k + 1] = x[k] /\ x[k] \in Nat /\ Log(G1, ic[k + 1]) \in Nat
      BY <1>1, <1>2, <1>3, <1>4
    <2> DEFINE l == Log(G1, ic[k + 1])
    <2> HIDE DEF l
    <2>3. x[k] * l = l * x[k] /\ l \in Nat
      BY <2>2 DEF l
    <2> HIDE DEF f, h
    <2> QED BY <2>1, <2>2, <2>3 DEF l
  <1>7. f[1] = Log(G1, ic[1])
    BY <1>1, <1>2, <1>3, <1>4
  <1>8. f \in [1 .. q + 1 -> Int]
    <2>1. \A i \in 1 .. q + 1 : s[i] \in Nat
      <3> TAKE i \in 1 .. q + 1
      <3>1. i = 1 \/ (i - 1 \in 1 .. q /\ (i - 1) + 1 = i)
        OBVIOUS
      <3>2. CASE i = 1
        BY <1>1, <3>2
      <3>3. CASE i - 1 \in 1 .. q /\ (i - 1) + 1 = i
        <4> DEFINE j == i - 1
        <4>1. j \in 1 .. q /\ j + 1 = i
          BY <3>3
        <4> HIDE DEF j
        <4>2. s[j + 1] = x[j] /\ x[j] \in Nat
          BY <1>1, <1>3, <4>1
        <4> QED BY <4>1, <4>2
      <3> QED BY <3>1, <3>2, <3>3
    <2>2. \A i \in 1 .. q + 1 : Log(G1, ic[i]) * s[i] \in Int
      BY <1>2, <2>1
    <2> QED BY <1>3, <2>2
  <1> HIDE DEF f, h
  <1>9. SumFunction(h) \in Nat
    BY <1>5, SumIsNat
  <1>10. SumFunction(f) = Log(G1, ic[1]) + SumFunction(h)
    <2>1. h \in [1 .. q -> Int]
      BY <1>5
    <2> QED BY <1>6, <1>7, <1>8, <2>1, SumOfRest
  <1>11. Msm(ic, s) = G1[(Log(G1, ic[1]) + SumFunction(h)) % FieldOrder]
    BY <1>10 DEF Msm, f
  <1>12. (Log(G1, ic[1]) + SumFunction(h)) % FieldOrder \in Fr
    BY <1>2, <1>4, <1>9, InField
  <1>13. /\ Msm(ic, s) \in Range(G1)
         /\ Log(G1, Msm(ic, s)) = (Log(G1, ic[1]) + SumFunction(h)) % FieldOrder
    BY <1>11, <1>12, Logs
  <1> QED BY <1>9, <1>13 DEF s, h

LEMMA PairingsAre ==
    ASSUME NEW l1 \in Range(G1), NEW l2 \in Range(G1), NEW l3 \in Range(G1), NEW l4 \in Range(G1),
           NEW r1 \in Range(G2), NEW r2 \in Range(G2), NEW r3 \in Range(G2), NEW r4 \in Range(G2)
    PROVE  Pairings(<<l1, l2, l3, l4>>, <<r1, r2, r3, r4>>) <=>
              (Log(G1, l1) * Log(G2, r1) + Log(G1, l2) * Log(G2, r2) + Log(G1, l3) * Log(G2, r3)
                 + Log(G1, l4) * Log(G2, r4)) % FieldOrder = 0
  <1> DEFINE lefts == <<l1, l2, l3, l4>>
             rights == <<r1, r2, r3, r4>>
             f == [i \in DOMAIN lefts |-> Log(G1, lefts[i]) * Log(G2, rights[i])]
  <1>1. DOMAIN lefts = 1 .. 4 /\ \A i \in 1 .. 4 : lefts[i] \in Range(G1) /\ rights[i] \in Range(G2)
    <2>1. \A i \in 1 .. 4 : i = 1 \/ i = 2 \/ i = 3 \/ i = 4
      OBVIOUS
    <2> QED BY <2>1
  <1>2. lefts[1] = l1 /\ lefts[2] = l2 /\ lefts[3] = l3 /\ lefts[4] = l4
        /\ rights[1] = r1 /\ rights[2] = r2 /\ rights[3] = r3 /\ rights[4] = r4
    OBVIOUS
  <1> HIDE DEF lefts, rights
  <1>3. f \in [1 .. 4 -> Int]
    <2>1. \A i \in 1 .. 4 : Log(G1, lefts[i]) \in Nat /\ Log(G2, rights[i]) \in Nat
      BY <1>1, Logs
    <2>2. \A i \in 1 .. 4 : Log(G1, lefts[i]) * Log(G2, rights[i]) \in Int
      BY <2>1
    <2> QED BY <1>1, <2>2
  <1>4. /\ f[1] = Log(G1, l1) * Log(G2, r1) /\ f[2] = Log(G1, l2) * Log(G2, r2)
        /\ f[3] = Log(G1, l3) * Log(G2, r3) /\ f[4] = Log(G1, l4) * Log(G2, r4)
    <2>1. 1 \in 1 .. 4 /\ 2 \in 1 .. 4 /\ 3 \in 1 .. 4 /\ 4 \in 1 .. 4
      OBVIOUS
    <2>2. \A i \in 1 .. 4 : f[i] = Log(G1, lefts[i]) * Log(G2, rights[i])
      BY <1>1
    <2> HIDE DEF f
    <2> QED BY <1>2, <2>1, <2>2
  <1>5. Pairings(lefts, rights) <=> SumFunction(f) % FieldOrder = 0
    BY DEF Pairings
  <1> HIDE DEF f
  <1>6. SumFunction(f) = f[1] + f[2] + f[3] + f[4]
    BY <1>3, SumOfFour
  <1> QED BY <1>4, <1>5, <1>6 DEF lefts, rights

\* The contract's product of pairings holds exactly when the Groth16 equation does.
LEMMA PairingEquation ==
    ASSUME NEW key \in PointsOf, NEW q \in Nat, Len(key.ic) = q + 1, NEW x \in [1 .. q -> Fr],
           NEW proof \in ProofPoints
    PROVE  Pairings(<<Scale(proof.a, FieldOrder - 1), key.alpha,
                      Msm(key.ic, SubSeq(<<1>> \o x, 1, q + 1)), proof.c>>,
                    <<proof.b, key.beta, key.gamma, key.delta>>)
              <=> Groth16Verify(key, x, proof)
  <1> DEFINE rest == SumFunction([i \in DOMAIN x |-> x[i] * Log(G1, key.ic[i + 1])])
             sum == Log(G1, key.ic[1]) + rest
             msm == Msm(key.ic, SubSeq(<<1>> \o x, 1, q + 1))
             neg == Scale(proof.a, FieldOrder - 1)
             a == Log(G1, proof.a)
             b == Log(G2, proof.b)
             g == Log(G2, key.gamma)
             u == Log(G1, key.alpha) * Log(G2, key.beta)
             v == Log(G1, proof.c) * Log(G2, key.delta)
  <1>1. /\ key.alpha \in Range(G1) /\ key.beta \in Range(G2) /\ key.gamma \in Range(G2)
        /\ key.delta \in Range(G2) /\ key.ic \in Seq(Range(G1))
        /\ proof.a \in Range(G1) /\ proof.b \in Range(G2) /\ proof.c \in Range(G1)
    BY DEF PointsOf, ProofPoints
  <1>2. key.ic \in [1 .. q + 1 -> Range(G1)]
    BY <1>1, LenProperties
  <1>3. rest \in Nat /\ msm \in Range(G1) /\ Log(G1, msm) = sum % FieldOrder
    BY <1>2, MsmIs
  <1>4. a \in Nat /\ b \in Nat /\ g \in Nat /\ u \in Nat /\ v \in Nat /\ Log(G1, key.ic[1]) \in Nat
    <2>1. 1 \in 1 .. q + 1
      OBVIOUS
    <2>2. key.ic[1] \in Range(G1)
      BY <1>2, <2>1
    <2>3. /\ a \in Nat /\ b \in Nat /\ g \in Nat /\ Log(G1, key.ic[1]) \in Nat
          /\ Log(G1, key.alpha) \in Nat /\ Log(G2, key.beta) \in Nat
          /\ Log(G1, proof.c) \in Nat /\ Log(G2, key.delta) \in Nat
      BY <1>1, <2>2, Logs
    <2> QED BY <2>3
  <1> HIDE DEF rest, msm
  <1>5. sum \in Nat
    BY <1>3, <1>4
  <1>6. neg \in Range(G1) /\ Log(G1, neg) = (a * (FieldOrder - 1)) % FieldOrder
    <2>1. FieldOrder - 1 \in Nat /\ a * (FieldOrder - 1) \in Nat
      <3>1. FieldOrder - 1 \in Nat
        BY Sizes
      <3> HIDE DEF a
      <3> QED BY <1>4, <3>1
    <2>2. (a * (FieldOrder - 1)) % FieldOrder \in Fr
      <3> HIDE DEF a
      <3> QED BY <2>1, InField
    <2>3. neg = G1[(a * (FieldOrder - 1)) % FieldOrder]
      BY DEF Scale
    <2> HIDE DEF a, neg
    <2> QED BY <2>2, <2>3, Logs
  <1>7. Pairings(<<neg, key.alpha, msm, proof.c>>, <<proof.b, key.beta, key.gamma, key.delta>>)
           <=> (Log(G1, neg) * b + u + Log(G1, msm) * g + v) % FieldOrder = 0
    <2> HIDE DEF neg
    <2> QED BY <1>1, <1>3, <1>6, PairingsAre
  <1>8. a \in Nat /\ b \in Nat /\ sum \in Nat /\ g \in Nat /\ u \in Nat /\ v \in Nat
    BY <1>4, <1>5
  <1>9. HostProduct(a, b, sum, g, u, v) <=> KeyEquation(a, b, sum, g, u, v)
    <2> HIDE DEF a, b, sum, g, u, v
    <2> QED BY <1>8, HostEquation
  <1>10. Groth16Verify(key, x, proof) <=> KeyEquation(a, b, sum, g, u, v)
    BY DEF Groth16Verify, KeyEquation, rest
  <1>11. Pairings(<<neg, key.alpha, msm, proof.c>>, <<proof.b, key.beta, key.gamma, key.delta>>)
            <=> HostProduct(a, b, sum, g, u, v)
    <2> HIDE DEF neg, a, b, sum, g, u, v
    <2> QED BY <1>3, <1>6, <1>7 DEF HostProduct
  <1> QED BY <1>9, <1>10, <1>11 DEF neg, msm

\* The equation looks at no point beyond the arity.
LEMMA SameEquation ==
    ASSUME NEW S, NEW key, NEW q \in Nat, NEW x \in [1 .. q -> Fr], NEW proof,
           key.alpha = S.alpha, key.beta = S.beta, key.gamma = S.gamma, key.delta = S.delta,
           \A i \in 1 .. q + 1 : key.ic[i] = S.ic[i]
    PROVE  Groth16Verify(key, x, proof) <=> Groth16Verify(S, x, proof)
  <1> DEFINE f == [i \in DOMAIN x |-> x[i] * Log(G1, key.ic[i + 1])]
             h == [i \in DOMAIN x |-> x[i] * Log(G1, S.ic[i + 1])]
  <1>1. 1 \in 1 .. q + 1 /\ \A i \in DOMAIN x : i + 1 \in 1 .. q + 1
    OBVIOUS
  <1>2. key.ic[1] = S.ic[1] /\ \A i \in DOMAIN x : key.ic[i + 1] = S.ic[i + 1]
    BY <1>1
  <1>3. f = h
    BY <1>2
  <1>4. Groth16Verify(key, x, proof) <=>
           (Log(G1, proof.a) * Log(G2, proof.b)) % FieldOrder =
           (Log(G1, key.alpha) * Log(G2, key.beta)
              + (Log(G1, key.ic[1]) + SumFunction(f)) * Log(G2, key.gamma)
              + Log(G1, proof.c) * Log(G2, key.delta)) % FieldOrder
    BY DEF Groth16Verify
  <1>5. Groth16Verify(S, x, proof) <=>
           (Log(G1, proof.a) * Log(G2, proof.b)) % FieldOrder =
           (Log(G1, S.alpha) * Log(G2, S.beta)
              + (Log(G1, S.ic[1]) + SumFunction(h)) * Log(G2, S.gamma)
              + Log(G1, proof.c) * Log(G2, S.delta)) % FieldOrder
    BY DEF Groth16Verify
  <1> HIDE DEF f, h
  <1> QED BY <1>2, <1>3, <1>4, <1>5

\* The contract computes the Groth16 equation of the points that its key and the
\* proof encode, on canonical inputs of the right number, and accepts nothing else.
THEOREM HostIsGroth16 ==
    ASSUME NEW vk, NEW n \in Nat, Listed(vk.ic, n), IntactVk(vk), VkFromBytes(vk) \in PointsOf,
           NEW proof \in ProofPoints, NEW q \in Nat, NEW inputs \in [1 .. q -> FrBytes]
    PROVE  HostVerify(vk, ProofToBytes(proof), inputs) <=>
              /\ n = q + 1
              /\ InputsOK(inputs)
              /\ Groth16Verify(VkFromBytes(vk), [i \in 1 .. q |-> FrFromBytes(inputs[i])], proof)
  <1> DEFINE key == VkFromBytes(vk)
             x == [i \in 1 .. q |-> FrFromBytes(inputs[i])]
             bytes == ProofToBytes(proof)
             lefts == <<Scale(proof.a, FieldOrder - 1), key.alpha,
                        Msm(key.ic, SubSeq(<<1>> \o x, 1, Len(key.ic))), proof.c>>
             rights == <<proof.b, key.beta, key.gamma, key.delta>>
  <1>1. G1FromBytes(bytes.a) = proof.a /\ G2FromBytes(bytes.b) = proof.b /\ G1FromBytes(bytes.c) = proof.c
    <2>1. proof.a \in Range(G1) /\ proof.b \in Range(G2) /\ proof.c \in Range(G1)
      BY DEF ProofPoints
    <2>2. bytes.a = G1ToBytes(proof.a) /\ bytes.b = G2ToBytes(proof.b) /\ bytes.c = G1ToBytes(proof.c)
      BY DEF ProofToBytes
    <2> QED BY <2>1, <2>2, G1RoundTrip, G2RoundTrip
  <1>2. DOMAIN inputs = 1 .. q /\ Len(inputs) = q
    <2>1. Listed(inputs, q)
      BY DEF Listed
    <2> QED BY <2>1, ListLen
  <1>3. x \in [1 .. q -> Fr]
    BY DecodedInField
  <1>4. x = [i \in DOMAIN inputs |-> FrFromBytes(inputs[i])]
    BY <1>2
  <1> HIDE DEF bytes, x
  <1>5. HostVerify(vk, bytes, inputs) <=>
           /\ ArityOK(vk, inputs) /\ InputsOK(inputs)
           /\ Pairings(lefts, rights)
    BY <1>1, <1>4 DEF HostVerify
  <1>6. ArityOK(vk, inputs) <=> n = q + 1
    <2>1. Len(inputs) + 1 = q + 1 /\ Len(vk.ic) = n
      BY <1>2, ListLen
    <2> QED BY <2>1 DEF ArityOK
  <1>7. ASSUME n = q + 1
        PROVE  Pairings(lefts, rights) <=> Groth16Verify(key, x, proof)
    <2>0. Listed(key.ic, n)
      BY DEF VkFromBytes, Listed
    <2>1. key \in PointsOf /\ Len(key.ic) = q + 1
      BY <1>7, <2>0, ListLen
    <2> HIDE DEF key
    <2>2. Pairings(<<Scale(proof.a, FieldOrder - 1), key.alpha,
                     Msm(key.ic, SubSeq(<<1>> \o x, 1, q + 1)), proof.c>>,
                   <<proof.b, key.beta, key.gamma, key.delta>>) <=> Groth16Verify(key, x, proof)
      BY <1>3, <2>1, PairingEquation
    <2> QED BY <2>1, <2>2
  <1> QED BY <1>5, <1>6, <1>7 DEF bytes, x

\* The text is the key of the setup of b, up to the arity of the circuit.
HoldsKey(text, b, c) ==
    /\ Inputs[c] + 5 <= Len(HexFile[b][c])
    /\ text = SubSeq(HexFile[b][c], 1, Inputs[c] + 5)

LEMMA HeldLines ==
    ASSUME NEW b \in Builds, NEW c \in Circuits, NEW text
    PROVE  /\ Inputs[c] \in Nat
           /\ HoldsKey(text, b, c) <=>
                 /\ 4 + (Inputs[c] + 1) <= Len(HexFile[b][c])
                 /\ Listed(text, 4 + (Inputs[c] + 1))
                 /\ \A i \in 1 .. 4 + (Inputs[c] + 1) : text[i] = HexFile[b][c][i]
  <1> DEFINE hex == HexFile[b][c]
             n == Len(hex)
             m == Inputs[c] + 5
             part == SubSeq(hex, 1, m)
  <1>1. Inputs[c] \in Nat
    BY ArtifactAssumption
  <1>2. m = 4 + (Inputs[c] + 1) /\ m \in Nat
    BY <1>1
  <1>3. n \in Nat /\ Listed(hex, n)
    BY HexLines
  <1> HIDE DEF hex, n, m
  <1>4. ASSUME m <= n
        PROVE  Listed(part, m) /\ \A i \in 1 .. m : part[i] = hex[i]
    <2>1. m \in 0 .. n
      BY <1>2, <1>3, <1>4
    <2> QED BY <1>3, <2>1, ListPrefix
  <1>5. ASSUME m <= n, Listed(text, m), \A i \in 1 .. m : text[i] = hex[i]
        PROVE  text = part
    <2>1. Listed(part, m) /\ \A i \in 1 .. m : part[i] = text[i]
      BY <1>4, <1>5
    <2> HIDE DEF part
    <2>2. [i \in 1 .. m |-> part[i]] = [i \in 1 .. m |-> text[i]]
      BY <2>1
    <2> QED BY <1>5, <2>1, <2>2 DEF Listed
  <1>6. HoldsKey(text, b, c) <=> m <= n /\ text = part
    BY DEF HoldsKey, hex, n, m
  <1> HIDE DEF part
  <1>7. HoldsKey(text, b, c) <=> m <= n /\ Listed(text, m) /\ \A i \in 1 .. m : text[i] = hex[i]
    BY <1>4, <1>5, <1>6
  <1> QED BY <1>1, <1>2, <1>7 DEF hex, n

\* Both verifiers compute the equation of any setup whose key the file holds.
LEMMA HeldKeyAgrees ==
    ASSUME NEW c \in Circuits, NEW text, ParsesVkHex(text), NEW call \in Calls(c),
           NEW b \in Builds, HoldsKey(text, b, c)
    PROVE  LET x == [i \in DOMAIN call.inputs |-> FrFromBytes(call.inputs[i])]
               accepted == InputsOK(call.inputs) /\ Groth16Verify(Setup[b][c], x, call.proof)
           IN  (HostAccepts(text, call) <=> accepted) /\ (CmdAccepts(text, call) <=> accepted)
  <1> DEFINE q == Inputs[c]
             inputs == call.inputs
             proof == call.proof
             bytes == ProofToBytes(proof)
             x == [i \in DOMAIN inputs |-> FrFromBytes(inputs[i])]
             S == Setup[b][c]
             vk == ParseVkHex(text)
             key == VkFromBytes(vk)
  <1>1. q \in Nat /\ 4 + (q + 1) <= Len(HexFile[b][c]) /\ Listed(text, 4 + (q + 1))
        /\ \A i \in 1 .. 4 + (q + 1) : text[i] = HexFile[b][c][i]
    BY HeldLines
  <1>2. q + 1 \in Nat /\ q + 1 # 0
    BY <1>1
  <1>3. inputs \in [1 .. q -> FrBytes] /\ proof \in ProofPoints
    <2>1. Proofs \subseteq ProofPoints /\ Encodings \subseteq FrBytes
      BY ArtifactAssumption DEF ProofPoints
    <2>2. call.inputs \in [1 .. q -> Encodings] /\ call.proof \in Proofs
      BY DEF Calls
    <2> QED BY <2>1, <2>2
  <1> HIDE DEF q, inputs, proof, S
  <1>4. /\ Listed(vk.ic, q + 1) /\ Len(vk.ic) = q + 1 /\ vk.ic # << >> /\ IntactVk(vk)
        /\ key \in PointsOf
        /\ key.alpha = S.alpha /\ key.beta = S.beta /\ key.gamma = S.gamma /\ key.delta = S.delta
        /\ \A i \in 1 .. q + 1 : key.ic[i] = S.ic[i]
    <2> DEFINE k == q + 1
    <2>1. k \in Nat /\ k # 0
      BY <1>2
    <2>2. 4 + k <= Len(HexFile[b][c]) /\ Listed(text, 4 + k)
          /\ \A i \in 1 .. 4 + k : text[i] = HexFile[b][c][i]
      BY <1>1
    <2> HIDE DEF k
    <2>3. /\ Listed(vk.ic, k) /\ Len(vk.ic) = k /\ (k # 0 => vk.ic # << >>) /\ IntactVk(vk)
          /\ key \in PointsOf
          /\ key.alpha = S.alpha /\ key.beta = S.beta /\ key.gamma = S.gamma /\ key.delta = S.delta
          /\ \A i \in 1 .. k : key.ic[i] = S.ic[i]
      BY <2>1, <2>2, PrefixKey DEF S
    <2> QED BY <2>1, <2>3 DEF k
  <1> HIDE DEF vk
  <1>5. DOMAIN inputs = 1 .. q /\ Len(inputs) = q
    <2>1. Listed(inputs, q)
      BY <1>3 DEF Listed
    <2> QED BY <1>1, <2>1, ListLen
  <1>6. x = [i \in 1 .. q |-> FrFromBytes(inputs[i])] /\ x \in [1 .. q -> Fr]
    <2>1. \A i \in 1 .. q : FrFromBytes(inputs[i]) \in Fr
      BY <1>3, DecodedInField
    <2> QED BY <1>5, <2>1
  <1>7. HostVerify(vk, bytes, inputs) <=> InputsOK(inputs) /\ Groth16Verify(key, x, proof)
    <2>1. HostVerify(vk, bytes, inputs) <=>
             /\ q + 1 = q + 1 /\ InputsOK(inputs)
             /\ Groth16Verify(key, [i \in 1 .. q |-> FrFromBytes(inputs[i])], proof)
      BY <1>1, <1>2, <1>3, <1>4, HostIsGroth16
    <2> QED BY <1>6, <2>1
  <1>8. Groth16Verify(key, x, proof) <=> Groth16Verify(S, x, proof)
    <2> HIDE DEF key, x
    <2> QED BY <1>1, <1>4, <1>6, SameEquation
  <1>9. [a |-> G1FromBytes(bytes.a), b |-> G2FromBytes(bytes.b), c |-> G1FromBytes(bytes.c)] = proof
    <2>1. proof.a \in Range(G1) /\ proof.b \in Range(G2) /\ proof.c \in Range(G1)
          /\ proof = [a |-> proof.a, b |-> proof.b, c |-> proof.c]
      BY <1>3 DEF ProofPoints
    <2>2. bytes.a = G1ToBytes(proof.a) /\ bytes.b = G2ToBytes(proof.b) /\ bytes.c = G1ToBytes(proof.c)
      BY DEF ProofToBytes
    <2>3. G1FromBytes(bytes.a) = proof.a /\ G2FromBytes(bytes.b) = proof.b /\ G1FromBytes(bytes.c) = proof.c
      BY <2>1, <2>2, G1RoundTrip, G2RoundTrip
    <2> QED BY <2>1, <2>3
  <1> HIDE DEF bytes, x, key
  <1>10. CmdVerify(text, bytes, inputs) <=> InputsOK(inputs) /\ Groth16Verify(key, x, proof)
    BY <1>4, <1>5, <1>9 DEF CmdVerify, vk, key, x
  <1>11. HostAccepts(text, call) <=> HostVerify(vk, bytes, inputs)
    BY <1>4 DEF HostAccepts, MalformedKey, vk, bytes, inputs, proof
  <1>12. CmdAccepts(text, call) <=> CmdVerify(text, bytes, inputs)
    BY DEF CmdAccepts, bytes, inputs, proof
  <1> QED BY <1>7, <1>8, <1>10, <1>11, <1>12 DEF x, inputs, proof, S

\* hex up to line n, with the lines in bad overwritten.
TornText(text, hex, n, bad) ==
    text = [i \in 1 .. n |-> IF i \in bad THEN [hex[i] EXCEPT !.data = Garbage] ELSE hex[i]]

\* The key files, one by one.
LEMMA KeyFilesAre ==
    ASSUME NEW c, NEW text
    PROVE  text \in KeyFiles(c) <=>
              /\ ParsesVkHex(text)
              /\ \E b \in Builds : \E n \in 0 .. Len(HexFile[b][c]) : \E bad \in SUBSET (1 .. n) :
                    TornText(text, HexFile[b][c], n, bad)
  <1> DEFINE torn(b) == UNION {Torn(HexFile[b][c], n) : n \in 0 .. Len(HexFile[b][c])}
  <1>1. \A b, n : text \in Torn(HexFile[b][c], n) <=>
                     \E bad \in SUBSET (1 .. n) : TornText(text, HexFile[b][c], n, bad)
    BY DEF Torn, TornText
  <1>2. \A b : text \in torn(b) <=> \E n \in 0 .. Len(HexFile[b][c]) : text \in Torn(HexFile[b][c], n)
    OBVIOUS
  <1>3. text \in KeyFiles(c) <=> (\E b \in Builds : text \in torn(b)) /\ ParsesVkHex(text)
    BY DEF KeyFiles
  <1> HIDE DEF torn
  <1> QED BY <1>1, <1>2, <1>3

\* A torn text that parses has its first four lines, and the rest are IC lines.
TornKey(text, hex, n, bad) ==
    /\ n - 4 \in Nat /\ KeyText(text, n - 4) /\ Listed(text, n)
    /\ \A i \in bad : text[i].data = Garbage
    /\ \A i \in (1 .. n) \ bad : text[i] = hex[i]

LEMMA TornIsKeyText ==
    ASSUME NEW b \in Builds, NEW c \in Circuits, NEW n \in 0 .. Len(HexFile[b][c]),
           NEW bad \in SUBSET (1 .. n), NEW text, TornText(text, HexFile[b][c], n, bad), ParsesVkHex(text)
    PROVE  TornKey(text, HexFile[b][c], n, bad)
  <1> DEFINE hex == HexFile[b][c]
             m == Len(Setup[b][c].ic)
  <1>1. /\ m \in Nat /\ Len(hex) = 4 + m /\ KeyText(hex, m)
        /\ \A i \in 1 .. 4 + m : hex[i] = [key |-> hex[i].key, no |-> hex[i].no, data |-> hex[i].data]
    BY HexLines
  <1> HIDE DEF m, hex
  <1>2. n \in Nat /\ n <= 4 + m /\ \A i \in 1 .. n : i \in 1 .. 4 + m
    BY <1>1 DEF hex
  <1>3. text = [i \in 1 .. n |-> IF i \in bad THEN [hex[i] EXCEPT !.data = Garbage] ELSE hex[i]]
    BY DEF TornText, hex
  <1>4. /\ DOMAIN text = 1 .. n /\ Listed(text, n)
        /\ \A i \in bad : text[i] = [hex[i] EXCEPT !.data = Garbage]
        /\ \A i \in (1 .. n) \ bad : text[i] = hex[i]
    BY <1>3 DEF Listed
  <1>5. \A i \in bad : text[i] = [key |-> hex[i].key, no |-> hex[i].no, data |-> Garbage]
    <2> TAKE i \in bad
    <2> DEFINE line == hex[i]
    <2>1. line = [key |-> line.key, no |-> line.no, data |-> line.data]
      BY <1>1, <1>2
    <2> HIDE DEF line
    <2>2. [line EXCEPT !.data = Garbage] = [key |-> line.key, no |-> line.no, data |-> Garbage]
      BY <2>1
    <2> QED BY <1>4, <2>2 DEF line
  <1>6. \A i \in 1 .. n : text[i].key = hex[i].key /\ text[i].no = hex[i].no
    BY <1>4, <1>5
  <1>7. n >= 4
    <2>1. 4 \in 1 .. 4 /\ LinesOf(text, Header[4]) # {}
      BY DEF ParsesVkHex
    <2>2. PICK i \in 1 .. n : text[i].key = Header[4]
      BY <1>4, <2>1 DEF LinesOf
    <2>3. DOMAIN hex = 1 .. 4 + m
      BY <1>1 DEF KeyText
    <2>4. i \in LinesOf(hex, Header[4])
      BY <1>2, <1>6, <2>2, <2>3 DEF LinesOf
    <2>5. LinesOf(hex, Header[4]) = {4}
      BY <1>1, <2>1, TextHeader
    <2> QED BY <2>2, <2>4, <2>5
  <1>8. KeyText(text, n - 4)
    <2>1. DOMAIN text = 1 .. 4 + (n - 4)
      BY <1>2, <1>4
    <2>2. /\ \A i \in 1 .. 4 : hex[i].key = Header[i]
          /\ \A i \in 1 .. m : hex[4 + i].key = "ic" /\ hex[4 + i].no = i - 1
      BY <1>1 DEF KeyText
    <2>3. /\ \A i \in 1 .. 4 : i \in 1 .. n
          /\ \A i \in 1 .. n - 4 : 4 + i \in 1 .. n /\ i \in 1 .. m
      BY <1>1, <1>2, <1>7
    <2>4. \A i \in 1 .. 4 : text[i].key = Header[i]
      BY <1>6, <2>2, <2>3
    <2>5. \A i \in 1 .. n - 4 : text[4 + i].key = "ic" /\ text[4 + i].no = i - 1
      BY <1>6, <2>2, <2>3
    <2> QED BY <2>1, <2>4, <2>5 DEF KeyText
  <1>9. n - 4 \in Nat
    BY <1>2, <1>7
  <1>10. \A i \in bad : text[i].data = Garbage
    <2> TAKE i \in bad
    <2>1. [key |-> hex[i].key, no |-> hex[i].no, data |-> Garbage].data = Garbage
      OBVIOUS
    <2> QED BY <1>5, <2>1
  <1> QED BY <1>4, <1>8, <1>9, <1>10 DEF TornKey, hex

\* An overwritten line makes the key unreadable, whichever it is.
LEMMA SpoiltKey ==
    ASSUME NEW text, NEW k \in Nat, KeyText(text, k), NEW j \in 1 .. 4 + k, text[j].data = Garbage
    PROVE  ~IntactVk(ParseVkHex(text))
  <1> DEFINE vk == ParseVkHex(text)
  <1>1. vk = [alpha |-> text[1].data, beta |-> text[2].data, gamma |-> text[3].data,
              delta |-> text[4].data, ic |-> [m \in 1 .. k |-> text[4 + m].data]]
    BY ParseText
  <1>2. /\ vk.alpha = text[1].data /\ vk.beta = text[2].data /\ vk.gamma = text[3].data
        /\ vk.delta = text[4].data /\ vk.ic = [m \in 1 .. k |-> text[4 + m].data]
    BY <1>1
  <1> HIDE DEF vk
  <1>3. CASE j \in 1 .. 4
    <2>1. j = 1 \/ j = 2 \/ j = 3 \/ j = 4
      BY <1>3
    <2>2. Garbage \in {vk.alpha, vk.beta, vk.gamma, vk.delta}
      BY <1>2, <2>1
    <2> QED BY <2>2 DEF IntactVk, vk
  <1>4. CASE j \notin 1 .. 4
    <2> DEFINE m == j - 4
    <2>1. m \in 1 .. k /\ 4 + m = j
      BY <1>4
    <2> HIDE DEF m
    <2>2. DOMAIN vk.ic = 1 .. k /\ vk.ic[m] = Garbage
      BY <1>2, <2>1
    <2>3. Garbage \in Range(vk.ic)
      BY <2>1, <2>2 DEF Range
    <2> QED BY <2>3 DEF IntactVk, vk
  <1> QED BY <1>3, <1>4

\* The verifiers refuse a file that holds no setup's key up to the arity.
LEMMA OthersRefuse ==
    ASSUME NEW c \in Circuits, NEW text \in KeyFiles(c), \A b \in Builds : ~HoldsKey(text, b, c),
           NEW call \in Calls(c)
    PROVE  ~HostAccepts(text, call) /\ ~CmdAccepts(text, call)
  <1> DEFINE q == Inputs[c]
             vk == ParseVkHex(text)
  <1>1. PICK b \in Builds : \E n \in 0 .. Len(HexFile[b][c]) : \E bad \in SUBSET (1 .. n) :
           TornText(text, HexFile[b][c], n, bad) /\ ParsesVkHex(text)
    BY KeyFilesAre
  <1>2. PICK n \in 0 .. Len(HexFile[b][c]) : \E bad \in SUBSET (1 .. n) :
           TornText(text, HexFile[b][c], n, bad) /\ ParsesVkHex(text)
    BY <1>1
  <1>3. PICK bad \in SUBSET (1 .. n) : TornText(text, HexFile[b][c], n, bad) /\ ParsesVkHex(text)
    BY <1>2
  <1>4. /\ n - 4 \in Nat /\ KeyText(text, n - 4) /\ Listed(text, n)
        /\ \A i \in bad : text[i].data = Garbage
        /\ \A i \in (1 .. n) \ bad : text[i] = HexFile[b][c][i]
    <2>1. TornKey(text, HexFile[b][c], n, bad)
      BY <1>3, TornIsKeyText
    <2> QED BY <2>1 DEF TornKey
  <1>5. q \in Nat /\ Len(call.inputs) = q
    <2>1. q \in Nat
      BY ArtifactAssumption
    <2>2. call.inputs \in [1 .. q -> Encodings]
      BY DEF Calls
    <2>3. Listed(call.inputs, q)
      BY <2>2 DEF Listed
    <2> QED BY <2>1, <2>3, ListLen
  <1>6. CASE bad # {}
    <2>1. PICK j \in bad : TRUE
      BY <1>6
    <2>2. j \in 1 .. n /\ text[j].data = Garbage
      BY <1>4, <2>1
    <2> DEFINE k == n - 4
    <2>3. k \in Nat /\ KeyText(text, k) /\ j \in 1 .. 4 + k
      BY <1>4, <2>2
    <2> HIDE DEF k
    <2>4. ~IntactVk(vk)
      BY <2>2, <2>3, SpoiltKey
    <2> QED BY <2>4 DEF HostAccepts, HostVerify, CmdAccepts, CmdVerify
  <1>7. CASE bad = {}
    <2> DEFINE k == n - 4
    <2>1. k \in Nat /\ n = 4 + k /\ 4 + k <= Len(HexFile[b][c]) /\ Listed(text, 4 + k)
          /\ \A i \in 1 .. 4 + k : text[i] = HexFile[b][c][i]
      <3>1. k \in Nat /\ n = 4 + k
        BY <1>4
      <3>2. Len(HexFile[b][c]) \in Nat
        BY HexLines
      <3> HIDE DEF k
      <3> QED BY <1>4, <1>7, <3>1, <3>2
    <2> HIDE DEF k
    <2>2. Len(vk.ic) = k
      BY <2>1, PrefixKey
    <2>3. k # q + 1
      BY <2>1, HeldLines
    <2>4. ~ArityOK(vk, call.inputs) /\ Len(vk.ic) # Len(call.inputs) + 1
      BY <1>5, <2>2, <2>3 DEF ArityOK
    <2> QED BY <2>4 DEF HostAccepts, HostVerify, CmdAccepts, CmdVerify
  <1> QED BY <1>6, <1>7

LEMMA SetupAcceptsIs ==
    ASSUME NEW c, NEW text, NEW call
    PROVE  SetupAccepts(c, text, call) <=>
              \E b \in Builds :
                 /\ HoldsKey(text, b, c)
                 /\ InputsOK(call.inputs)
                 /\ Groth16Verify(Setup[b][c], [i \in DOMAIN call.inputs |-> FrFromBytes(call.inputs[i])],
                                  call.proof)
  BY DEF SetupAccepts, HoldsKey, InputsOK

\* On every file the three agree.
LEMMA TextAgrees ==
    ASSUME NEW c \in Circuits, NEW text \in KeyFiles(c)
    PROVE  text \in Agreed[c]
  <1>1. ParsesVkHex(text)
    BY DEF KeyFiles
  <1>2. ASSUME NEW call \in Calls(c)
        PROVE  /\ HostAccepts(text, call) <=> CmdAccepts(text, call)
               /\ HostAccepts(text, call) <=> SetupAccepts(c, text, call)
    <2> DEFINE Accepted(b) ==
                  /\ InputsOK(call.inputs)
                  /\ Groth16Verify(Setup[b][c],
                                   [i \in DOMAIN call.inputs |-> FrFromBytes(call.inputs[i])], call.proof)
    <2>1. SetupAccepts(c, text, call) <=> \E b \in Builds : HoldsKey(text, b, c) /\ Accepted(b)
      BY SetupAcceptsIs
    <2>2. \A b \in Builds : HoldsKey(text, b, c) =>
             (HostAccepts(text, call) <=> Accepted(b)) /\ (CmdAccepts(text, call) <=> Accepted(b))
      BY <1>1, HeldKeyAgrees
    <2> HIDE DEF Accepted
    <2>3. CASE \E b \in Builds : HoldsKey(text, b, c)
      BY <2>1, <2>2, <2>3
    <2>4. CASE \A b \in Builds : ~HoldsKey(text, b, c)
      BY <2>1, <2>4, OthersRefuse
    <2> QED BY <2>3, <2>4
  <1> QED BY <1>2 DEF Agreed

\* What remains of a key file and parses.
LEMMA OnDisk ==
    ASSUME ArtifactInv, NEW c \in Circuits, ParsesVkHex(files[<<c, "verifying_key.hex">>])
    PROVE  files[<<c, "verifying_key.hex">>] \in KeyFiles(c)
  <1> DEFINE path == <<c, "verifying_key.hex">>
             text == files[path]
  <1>1. path \in Paths /\ path[2] # "SHA256SUMS"
    BY PathsAre, PlanTable, CircuitsAre
  <1>2. PICK b \in Builds : RemainsOf(text, Final(b, path))
    BY <1>1 DEF ArtifactInv, FilesInv
  <1> DEFINE hex == HexFile[b][c]
  <1>3. Final(b, path) = hex
    BY <1>1, Products DEF Final
  <1> HIDE DEF hex, path, text
  <1>4. PICK n \in 0 .. Len(hex) :
           /\ DOMAIN text = 1 .. n /\ text = [i \in 1 .. n |-> text[i]]
           /\ \A i \in 1 .. n : text[i] \in Spoilt(hex[i])
    BY <1>2, <1>3 DEF RemainsOf
  <1>5. Len(hex) \in Nat /\ \A i \in 1 .. n : hex[i] = [key |-> hex[i].key, no |-> hex[i].no,
                                                         data |-> hex[i].data]
    <2>1. LET m == Len(Setup[b][c].ic)
          IN  /\ m \in Nat /\ Len(hex) = 4 + m
              /\ \A i \in 1 .. 4 + m : hex[i] = [key |-> hex[i].key, no |-> hex[i].no, data |-> hex[i].data]
      BY HexLines DEF hex
    <2> QED BY <2>1
  <1>6. \A i \in 1 .. n : text[i].data # Short
    BY <1>4 DEF ParsesVkHex, text, path
  <1>7. \A i \in 1 .. n : text[i] = hex[i] \/ text[i] = [hex[i] EXCEPT !.data = Garbage]
    <2> TAKE i \in 1 .. n
    <2> DEFINE line == hex[i]
    <2>1. text[i] \in Spoilt(line) /\ text[i].data # Short
          /\ line = [key |-> line.key, no |-> line.no, data |-> line.data]
      BY <1>4, <1>5, <1>6
    <2> HIDE DEF line
    <2>2. [line EXCEPT !.data = Short].data = Short
      BY <2>1
    <2>3. text[i] = line \/ text[i] = [line EXCEPT !.data = Garbage]
      BY <2>1, <2>2 DEF Spoilt
    <2> QED BY <2>3 DEF line
  <1> DEFINE bad == {i \in 1 .. n : text[i] # hex[i]}
  <1>8. TornText(text, hex, n, bad)
    BY <1>4, <1>7 DEF TornText
  <1>9. bad \in SUBSET (1 .. n)
    OBVIOUS
  <1> HIDE DEF bad
  <1>10. ParsesVkHex(text)
    BY DEF text, path
  <1>11. text \in KeyFiles(c)
    <2>1. \E d \in Builds : \E m \in 0 .. Len(HexFile[d][c]) : \E x \in SUBSET (1 .. m) :
             TornText(text, HexFile[d][c], m, x)
      BY <1>8, <1>9 DEF hex
    <2> QED BY <1>10, <2>1, KeyFilesAre
  <1> QED BY <1>11 DEF text, path

LEMMA VerifiersAgreed == ArtifactInv => VerifiersAgree
  <1> SUFFICES ASSUME ArtifactInv, NEW c \in Circuits, ParsesVkHex(files[<<c, "verifying_key.hex">>])
               PROVE  files[<<c, "verifying_key.hex">>] \in Agreed[c]
    BY DEF VerifiersAgree
  <1> QED BY OnDisk, TextAgrees

\* A verifier deployed from whatever key file is on disk accepts, of the calls of its
\* circuit's arity, what `attesta-prover verify` accepts with that file, and what the
\* Groth16 equation of a setup admits whose key the file holds up to that arity: for
\* any field, keys, proofs, inputs, tears and damages.
THEOREM VerifiersAlwaysAgree == Spec => []VerifiersAgree
  BY ArtifactInvariant, VerifiersAgreed, PTL
=============================================================================
