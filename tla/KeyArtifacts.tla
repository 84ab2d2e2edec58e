---------------------------- MODULE KeyArtifacts ----------------------------
(***************************************************************************)
(* The artifact directory: build-artifacts writes keys, manifests and the  *)
(* contract's hash tables file by file; it may be killed between and       *)
(* inside writes and be run again from other sources, and files may be     *)
(* damaged at rest, while provers load proving keys.  The hash of a file   *)
(* is its content.                                                         *)
(***************************************************************************)
EXTENDS Groth16Keys

CONSTANTS
    Builds,         \* versions of the circuit sources
    Setup,          \* build |-> circuit |-> the verifying key of its setup
    Parameters,     \* build |-> [ark, mds] of poseidon::parameters
    Inputs,         \* circuit |-> n_inputs, the number main expects
    Proofs,         \* points that are submitted as proofs
    Encodings,      \* byte strings that are submitted as public inputs
    Tears,          \* bound: <<whole lines on disk, a part of the next>> when a write is cut short
    MaxBuilds,      \* bound: builds started
    MaxDamage       \* bound: lines overwritten at rest

VARIABLES
    files,          \* path |-> content, a sequence of lines; << >> if absent or empty
    building,       \* a builder runs
    build,          \* the sources of the last builder
    step,           \* position in Plan
    opened,         \* the file at that position is partly written
    damaged,        \* a line was overwritten since the last builder started
    builds, damages,
    held            \* a prover between its two reads: << >> or << what it read >>

builder == <<building, build, step, opened, builds>>
damage  == <<damaged, damages>>
vars    == <<files, builder, damage, held>>

CircuitSeq == <<"transfer", "withdraw">>
Circuits == Range(CircuitSeq)
Vouched == <<"proving_key.bin", "verifying_key.bin", "verifying_key.hex", "layout.txt">>
Names == Vouched \o <<"SHA256SUMS">>
ParamsPath == <<"shielded_pool", "poseidon_params.rs">>

\* The files in the order in which main writes them.
Plan == [i \in 1 .. 5 |-> <<"transfer", Names[i]>>] \o [i \in 1 .. 5 |-> <<"withdraw", Names[i]>>]
        \o <<ParamsPath>>
Paths == Range(Plan)

Part(b, c, n) == [key |-> "bytes", data |-> <<b, c, n>>]
Layout(c) == [key |-> "public_inputs", data |-> Inputs[c]]

HexFile == [b \in Builds |-> [c \in Circuits |-> RenderVkHex(VkToBytes(Setup[b][c]))]]
ParamsFile ==
    [b \in Builds |-> << [key |-> "ARK", data |-> ARK(Parameters[b])],
                         [key |-> "MDS", data |-> MDS(Parameters[b])],
                         [key |-> "ZEROS", data |-> ZEROS(Parameters[b])] >>]

\* What the sources b put into a file that is no manifest.
Product(b, path) ==
    CASE path = ParamsPath             -> ParamsFile[b]
      [] path[2] = "proving_key.bin"   -> << Part(b, path[1], 1), Part(b, path[1], 2) >>
      [] path[2] = "verifying_key.bin" -> << Part(b, path[1], 3) >>
      [] path[2] = "verifying_key.hex" -> HexFile[b][path[1]]
      [] path[2] = "layout.txt"        -> << Layout(path[1]) >>

\* The manifest is computed from the files as they are read back.
Sums(c) == [i \in DOMAIN Vouched |-> [key |-> Vouched[i], data |-> files[<<c, Vouched[i]>>]]]

\* What a builder of sources b writes to a path.
Contents(b, path) == IF path[2] = "SHA256SUMS" THEN Sums(path[1]) ELSE Product(b, path)

\* A line as it is, cut short or overwritten; a mark is no digest of a file made
\* of such lines.
Spoilt(line) == {line} \cup {[line EXCEPT !.data = mark] : mark \in {Garbage, Short}}

ASSUME ArtifactAssumption ==
    /\ \A b \in Builds, c \in Circuits :
          Setup[b][c] \in [alpha : Range(G1), beta : Range(G2), gamma : Range(G2),
                           delta : Range(G2), ic : Seq(Range(G1))]
    /\ \A b \in Builds :
          /\ Parameters[b].ark \in [1 .. Rounds -> [Lanes -> Fr]]
          /\ Parameters[b].mds \in [Lanes -> [Lanes -> Fr]]
    /\ Inputs \in [Circuits -> Nat]
    /\ Proofs \subseteq [a : Range(G1), b : Range(G2), c : Range(G1)]
    /\ Encodings \subseteq FrBytes
    /\ Tears \subseteq Nat \X BOOLEAN
    /\ \A b \in Builds, c \in Circuits, name \in Range(Vouched), mark \in {Garbage, Short} :
          mark \notin Seq(UNION {Spoilt(line) : line \in Range(Product(b, <<c, name>>))})

Init ==
    /\ files = [path \in Paths |-> << >>]
    /\ building = FALSE /\ build \in Builds /\ step = 1 /\ opened = FALSE /\ builds = 0
    /\ damaged = FALSE /\ damages = 0
    /\ held = << >>

-----------------------------------------------------------------------------
(* The builder *)

StartBuild(b) ==
    /\ ~building /\ builds < MaxBuilds
    /\ building' = TRUE /\ build' = b /\ step' = 1 /\ opened' = FALSE /\ builds' = builds + 1
    /\ damaged' = FALSE
    /\ UNCHANGED <<files, damages, held>>

\* Mutation: a file is overwritten from its start and keeps the rest.
M_OverOld(old, new) ==
    [i \in 1 .. (IF Len(old) > Len(new) THEN Len(old) ELSE Len(new)) |->
        IF i <= Len(new) THEN new[i] ELSE old[i]]

\* fs::write truncates before it writes.
Over(old, new) == new

\* The first n lines are on disk, and possibly the beginning of the next.
WriteSome(n, cut) ==
    LET path == Plan[step]
        new  == Contents(build, path)
        some == SubSeq(new, 1, n)
    IN  /\ building /\ ~opened
        /\ n < Len(new)
        /\ files' = [files EXCEPT ![path] =
               Over(@, IF cut THEN Append(some, [new[n + 1] EXCEPT !.data = Short]) ELSE some)]
        /\ opened' = TRUE
        /\ UNCHANGED <<building, build, step, builds, damage, held>>

\* Mutation: no assertion.
M_NotAsserted(b, path) == TRUE

\* emit_circuit asserts the arity only after it has written everything.
LayoutAsserted(b, path) ==
    path[2] = "SHA256SUMS" => Len(Setup[b][path[1]].ic) = Inputs[path[1]] + 1

\* The rest of the file; then the next one, the failed assertion, or the end.
WriteRest ==
    LET path == Plan[step]
    IN  /\ building /\ opened
        /\ files' = [files EXCEPT ![path] = Over(@, Contents(build, path))]
        /\ opened' = FALSE
        /\ IF LayoutAsserted(build, path) THEN step' = step + 1 ELSE step' = step
        /\ building' = (step' = step + 1 /\ step < Len(Plan))
        /\ UNCHANGED <<build, builds, damage, held>>

Crash ==
    /\ building
    /\ building' = FALSE /\ step' = 1 /\ opened' = FALSE
    /\ UNCHANGED <<files, build, builds, damage, held>>

\* A line is overwritten while no builder runs.
Damage(path, n) ==
    /\ ~building /\ damages < MaxDamage
    /\ n \in DOMAIN files[path]
    /\ files' = [files EXCEPT ![path][n].data = Garbage]
    /\ damaged' = TRUE /\ damages' = damages + 1
    /\ UNCHANGED <<builder, held>>

-----------------------------------------------------------------------------
(* The prover: load_proving_key *)

\* Both deserializers need the whole length; only one looks at the points.
Complete(data) == Len(data) = 2 /\ \A i \in DOMAIN data : data[i].data # Short
ValidPoints(data) == \A i \in DOMAIN data : data[i].data # Garbage

ReadKey(c) ==
    /\ held = << >>
    /\ held' = << [circuit |-> c, data |-> files[<<c, "proving_key.bin">>]] >>
    /\ UNCHANGED <<files, builder, damage>>

\* Mutation: any entry for the file name is enough.
M_EntryExists(sums, data) == \E i \in DOMAIN sums : sums[i].key = "proving_key.bin"

\* find_sha256 takes the first line that names the file.
HashMatches(sums, data) ==
    \E i \in LinesOf(sums, "proving_key.bin") :
       /\ sums[i].data = data
       /\ \A j \in LinesOf(sums, "proving_key.bin") : i <= j

\* What the second read, of the manifest, makes of the key read before.
Loads(key) ==
    /\ Complete(key.data)
    /\ HashMatches(files[<<key.circuit, "SHA256SUMS">>], key.data) \/ ValidPoints(key.data)

LoadKey ==
    /\ held # << >>
    /\ held' = << >>
    /\ UNCHANGED <<files, builder, damage>>

-----------------------------------------------------------------------------
Next ==
    \/ \E b \in Builds : StartBuild(b)
    \/ \E tear \in Tears : WriteSome(tear[1], tear[2])
    \/ WriteRest
    \/ Crash
    \/ \E path \in Paths, n \in 1 .. 8 : Damage(path, n)
    \/ \E c \in Circuits : ReadKey(c)
    \/ LoadKey

Spec == Init /\ [][Next]_vars

-----------------------------------------------------------------------------
\* Whatever a damaged, torn or half-replaced directory holds, and however the two
\* reads of a prover fall between the writes of a builder: a proving key that
\* loads is one that a setup produced, although the fast path checks no point.
OnlyValidKeysLoad ==
    held # << >> /\ Loads(held[1]) =>
       \E b \in Builds : held[1].data = Product(b, <<held[1].circuit, "proving_key.bin">>)

\* A manifest that matches the four files of a circuit vouches for one build, never
\* for a mixture that an interrupted build left behind.
ManifestVouchesOneBuild ==
    \A c \in Circuits :
       files[<<c, "SHA256SUMS">>] = Sums(c) =>
          \E b \in Builds : \A i \in DOMAIN Vouched :
             files[<<c, Vouched[i]>>] = Product(b, <<c, Vouched[i]>>)

Finished == ~building /\ step > Len(Plan) /\ ~damaged

\* After a build that ran to its end the directory is current and consistent: key,
\* key file and layout of each circuit are of these sources, vouched for, and of
\* the arity the pool calls with.
FinishedBuildIsConsistent ==
    Finished =>
       \A c \in Circuits :
          /\ HashMatches(files[<<c, "SHA256SUMS">>], Product(build, <<c, "proving_key.bin">>))
          /\ VkFromBytes(ParseVkHex(files[<<c, "verifying_key.hex">>])) = Setup[build][c]
          /\ Len(Setup[build][c].ic) = files[<<c, "layout.txt">>][1].data + 1

\* The key files that can be on disk and parse: the first lines of some build's, with
\* lines overwritten.
Torn(text, n) ==
    {[i \in 1 .. n |-> IF i \in bad THEN [text[i] EXCEPT !.data = Garbage] ELSE text[i]] :
        bad \in SUBSET (1 .. n)}
KeyFiles(c) ==
    LET torn(b) == UNION {Torn(HexFile[b][c], n) : n \in 0 .. Len(HexFile[b][c])}
    IN  {text \in UNION {torn(b) : b \in Builds} : ParsesVkHex(text)}

\* A call is accepted by the contract deployed from a key file, by the offline
\* verifier, and by a setup whose key the file holds up to the circuit's arity.
Calls(c) == [proof : Proofs, inputs : [1 .. Inputs[c] -> Encodings]]
HostAccepts(text, call) ==
    LET vk == ParseVkHex(text)
    IN  ~MalformedKey(vk) /\ HostVerify(vk, ProofToBytes(call.proof), call.inputs)
CmdAccepts(text, call) == CmdVerify(text, ProofToBytes(call.proof), call.inputs)
SetupAccepts(c, text, call) ==
    /\ \A i \in DOMAIN call.inputs : Canonical(call.inputs[i])
    /\ \E b \in Builds :
          /\ Inputs[c] + 5 <= Len(HexFile[b][c])
          /\ text = SubSeq(HexFile[b][c], 1, Inputs[c] + 5)
          /\ Groth16Verify(Setup[b][c], [i \in DOMAIN call.inputs |-> FrFromBytes(call.inputs[i])],
                           call.proof)
Agreed ==
    [c \in Circuits |->
        {text \in KeyFiles(c) :
           \A call \in Calls(c) : /\ HostAccepts(text, call) <=> CmdAccepts(text, call)
                                  /\ HostAccepts(text, call) <=> SetupAccepts(c, text, call)}]

\* A verifier deployed from whatever key file is on disk, torn or damaged, accepts
\* calls of its circuit's arity only if the file holds the key of a setup, up to
\* that arity, and then the calls with canonical inputs that the Groth16 equation
\* of that key admits; `attesta-prover verify` accepts the same.
VerifiersAgree ==
    \A c \in Circuits :
       LET text == files[<<c, "verifying_key.hex">>]
       IN  ParsesVkHex(text) => text \in Agreed[c]

\* The hash the contract computes from the generated tables is, for any two byte
\* strings, the native hash and the in-circuit hash of the field elements they
\* encode, in canonical form; the tabulated empty subtrees are the prover's.
ContractHashIsProtocolHash ==
    Finished =>
       LET ark    == files[ParamsPath][1].data
           mds    == files[ParamsPath][2].data
           zeros  == files[ParamsPath][3].data
           params == Parameters[build]
       IN  /\ \A l \in FrBytes, r \in FrBytes :
                 LET h == ContractHash2(ark, mds, l, r)
                 IN  /\ Canonical(h)
                     /\ FrFromBytes(h) = NativeHash2(params, FrFromBytes(l), FrFromBytes(r))
                     /\ FrFromBytes(h) = GadgetHash2(params, FrFromBytes(l), FrFromBytes(r))
           /\ \A k \in 0 .. TreeDepth : FrFromBytes(zeros[k + 1]) = NativeZeros(params)[k]
=============================================================================
