--------------------------- MODULE ArgumentsProofs ---------------------------
(***************************************************************************)
(* From the binary to the launch, for any binary in the layout of SPIR-V   *)
(* and any sequence of launches: what the parser's table says, and what    *)
(* is in the argument slots of a kernel that is launched.                  *)
(***************************************************************************)
EXTENDS Arguments, SequenceLemmas

(* An entry of the parser's type table does justice to a type: it has its  *)
(* space, unless it is decodeType's nullptr, and all of a type it can do   *)
(* justice to.                                                             *)
EntryRight(entry, means) ==
  /\ entry \in Parser!ArgTypeInfo \cup {Parser!Null}
  /\ DOMAIN means = {"kind", "space", "size", "align", "exact"}
  /\ entry # Parser!Null => entry.space = means.space
  /\ means.exact =>
       entry = [type |-> IF means.kind = "pointer" THEN "Pointer" ELSE "POD",
                size |-> means.size, space |-> means.space]

TypesRight ==
  /\ DOMAIN typeMap = DOMAIN meaning
  /\ \A id \in DOMAIN typeMap : EntryRight(typeMap[id], meaning[id])

(* A function type is kept as the types of its parameters, none of them Null. *)
FunctionsRight ==
  /\ DOMAIN functionTypeMap = DOMAIN signature
  /\ \A ft \in DOMAIN signature :
       LET params == signature[ft].params IN
       /\ params \in Seq(DOMAIN typeMap)
       /\ functionTypeMap[ft] = [j \in DOMAIN params |-> typeMap[params[j]]]
       /\ \A j \in DOMAIN params : typeMap[params[j]] # Parser!Null

(* The function types of the entry points are those they are defined with, *)
(* which is after the last entry point has been read.                      *)
EntriesRight ==
  /\ DOMAIN entryToFunctionTypeIDMap = entryPoints \cap DOMAIN body
  /\ section < 7 => DOMAIN body = {}
  /\ \A f \in DOMAIN body : f \in FunctionIds /\ body[f] \in DOMAIN signature
  /\ \A f \in entryPoints \cap DOMAIN body : entryToFunctionTypeIDMap[f] = body[f]

(* The table is filled when the module is accepted, and only then.         *)
AnswerRight ==
  /\ outcome \in {"reading", "true", "false", "crash", "gone"}
  /\ outcome = "true" =>
       /\ entryPoints \subseteq DOMAIN body
       /\ func_infos = [f \in entryPoints |-> functionTypeMap[body[f]]]
  /\ outcome # "true" => func_infos = <<>>

ParserInv ==
  /\ flags \subseteq Parser!AllFlags
  /\ pointerSize \in {0, 1, 2}
  /\ entryPoints \subseteq FunctionIds
  /\ section \in 0..7
  /\ TypesRight /\ FunctionsRight /\ EntriesRight /\ AnswerRight

-----------------------------------------------------------------------------
(* A type is decoded to its entry: the table stays right if the entry is.  *)
LEMMA NewType ==
  ASSUME ParserInv, NEW kind, NEW entry, NEW means,
         Parser!DecodeType(kind, entry, means), EntryRight(entry, means)
  PROVE  ParserInv'
<1>. DEFINE new == Parser!NewId
<1>1. /\ outcome = "reading" /\ section \in 1..6 /\ section' = 6
      /\ typeMap' = Parser!Emplace(typeMap, new, entry)
      /\ meaning' = Parser!Emplace(meaning, new, means)
      /\ UNCHANGED <<flags, pointerSize, entryPoints, functionTypeMap,
                     entryToFunctionTypeIDMap, func_infos, outcome, signature, body>>
  BY DEF Parser!DecodeType, Parser!In
<1>. HIDE DEF new
<1>2. /\ DOMAIN typeMap' = DOMAIN typeMap \cup {new}
      /\ \A x \in DOMAIN typeMap : typeMap'[x] = typeMap[x]
      /\ new \notin DOMAIN typeMap => typeMap'[new] = entry
  BY <1>1 DEF Parser!Emplace
<1>3. /\ DOMAIN meaning' = DOMAIN meaning \cup {new}
      /\ \A x \in DOMAIN meaning : meaning'[x] = meaning[x]
      /\ new \notin DOMAIN meaning => meaning'[new] = means
  BY <1>1 DEF Parser!Emplace
<1>4. TypesRight'
  <2>1. DOMAIN typeMap = DOMAIN meaning BY DEF ParserInv, TypesRight
  <2>2. ASSUME NEW id \in DOMAIN typeMap'
        PROVE  EntryRight(typeMap'[id], meaning'[id])
    BY <2>1, <2>2, <1>2, <1>3 DEF ParserInv, TypesRight
  <2>. QED BY <2>1, <2>2, <1>2, <1>3
           DEF TypesRight, EntryRight, Parser!Null, Parser!ArgTypeInfo, Parser!Spaces
<1>5. FunctionsRight'
  BY <1>1, <1>2 DEF ParserInv, FunctionsRight, Parser!MayDeclare, Parser!DecodeType
<1>6. EntriesRight'
  BY <1>1 DEF ParserInv, EntriesRight
<1>7. AnswerRight'
  BY <1>1 DEF ParserInv, AnswerRight
<1>. QED BY <1>1, <1>4, <1>5, <1>6, <1>7 DEF ParserInv, Parser!AllFlags

(* The parser goes down over a null entry: nothing else changes. *)
LEMMA Crashed ==
  ASSUME ParserInv, Parser!Crash, outcome = "reading", section' \in 0..7,
         section < 7 \/ section' = 7, NEW id \in DOMAIN typeMap, typeMap[id] = Parser!Null
  PROVE  ParserInv'
<1>1. /\ outcome' = "crash"
      /\ UNCHANGED <<flags, pointerSize, entryPoints, typeMap, functionTypeMap,
                     entryToFunctionTypeIDMap, func_infos, meaning, signature, body>>
  BY DEF Parser!Crash, Parser!parser
<1>2. TypesRight'
  BY <1>1 DEF ParserInv, TypesRight, EntryRight, Parser!Null, Parser!ArgTypeInfo, Parser!Spaces
<1>3. FunctionsRight'
  BY <1>1 DEF ParserInv, FunctionsRight, Parser!Null
<1>4. EntriesRight' /\ AnswerRight'
  BY <1>1 DEF ParserInv, EntriesRight, AnswerRight, Parser!Null
<1>. QED BY <1>1, <1>2, <1>3, <1>4 DEF ParserInv, Parser!AllFlags

(* A type made of others: the parser goes down if one of them has no entry.*)
LEMMA NewTypeWith ==
  ASSUME ParserInv, NEW ids \in SUBSET DOMAIN typeMap,
         NEW kind, NEW entry, NEW means, Parser!DecodeWith(ids, kind, entry, means),
         (\A id \in ids : typeMap[id] # Parser!Null) => EntryRight(entry, means)
  PROVE  ParserInv'
<1>1. CASE (\A id \in ids : typeMap[id] # Parser!Null) /\ Parser!DecodeType(kind, entry, means)
  BY <1>1, NewType
<1>2. CASE \E id \in ids : typeMap[id] = Parser!Null /\ Parser!In(6) /\ Parser!Crash
  <2>1. PICK id \in ids : typeMap[id] = Parser!Null BY <1>2
  <2>2. outcome = "reading" /\ section \in 1..6 /\ section' = 6 /\ Parser!Crash
    BY <1>2 DEF Parser!In
  <2>. QED BY <2>1, <2>2, Crashed
<1>. QED BY <1>1, <1>2 DEF Parser!DecodeWith

(* What is known of a type that has an entry. *)
LEMMA Decoded ==
  ASSUME ParserInv, NEW id \in DOMAIN meaning
  PROVE  /\ id \in DOMAIN typeMap
         /\ DOMAIN meaning[id] = {"kind", "space", "size", "align", "exact"}
         /\ typeMap[id] # Parser!Null =>
              /\ typeMap[id] \in Parser!ArgTypeInfo /\ typeMap[id].size \in Nat
              /\ typeMap[id].space = meaning[id].space
         /\ meaning[id].exact => typeMap[id].size = meaning[id].size
  BY DEF ParserInv, TypesRight, EntryRight, Parser!ArgTypeInfo

(* The parser's instance of the sum is the sum. *)
LEMMA SameSum == ASSUME NEW f PROVE Parser!SumFunction(f) = SumFunction(f)
  BY Zenon DEF Parser!SumFunction, Parser!SumFunctionOnSet, Parser!FoldFunctionOnSet,
               Parser!MapThenFoldSet, SumFunction, SumFunctionOnSet, FoldFunctionOnSet,
               MapThenFoldSet

(* The types made of one other: vectors, arrays, and structs by value.     *)
LEMMA MadeOfOne ==
  ASSUME ParserInv, NEW elem \in DOMAIN meaning, NEW n \in Nat,
         NEW size, NEW align, NEW exact, NEW kind,
         Parser!DecodeWith({elem}, kind, Parser!POD(typeMap[elem].size * n),
                           Parser!Data(size, align, exact)),
         exact => meaning[elem].exact /\ size = meaning[elem].size * n
  PROVE  ParserInv'
<1>. DEFINE entry == Parser!POD(typeMap[elem].size * n)
            means == Parser!Data(size, align, exact)
<1>1. elem \in DOMAIN typeMap BY Decoded
<1>2. ASSUME typeMap[elem] # Parser!Null PROVE EntryRight(entry, means)
  <2>1. typeMap[elem].size * n \in Nat BY <1>2, Decoded
  <2>2. exact => size = typeMap[elem].size * n BY Decoded
  <2>. QED BY <2>1, <2>2
           DEF EntryRight, Parser!ArgTypeInfo, Parser!Spaces, Parser!POD, Parser!Data, Parser!Type
<1>. HIDE DEF entry, means
<1>. QED BY <1>1, <1>2, NewTypeWith DEF entry, means

LEMMA Structs ==
  ASSUME ParserInv, NEW members \in Parser!Lists(Parser!Sized), Parser!DecodeStruct(members)
  PROVE  ParserInv'
<1>. DEFINE sizes == [j \in DOMAIN members |-> typeMap[members[j]].size]
            parts == [j \in DOMAIN members |-> meaning[members[j]]]
            entry == Parser!POD(Parser!SumFunction(sizes))
            means == Parser!StructMeaning(parts)
<1>1. PICK n \in 0..MaxParts : members \in [1..n -> DOMAIN meaning]
  BY DEF Parser!Lists, Parser!Sized, Parser!OfKind
<1>2. n \in Nat /\ DOMAIN members = 1..n /\ \A j \in 1..n : members[j] \in DOMAIN meaning
  BY <1>1, ArgumentsAssumption
<1>3. Parser!Range(members) \in SUBSET DOMAIN typeMap
  BY <1>2, Decoded DEF Parser!Range
<1>4. ASSUME \A id \in Parser!Range(members) : typeMap[id] # Parser!Null
      PROVE  EntryRight(entry, means)
  <2>1. Parser!SumFunction(sizes) \in Nat
    <3>1. sizes \in [1..n -> Nat] BY <1>2, <1>4, Decoded DEF Parser!Range
    <3>2. IsFiniteSet(1..n) BY <1>2, FS_Interval
    <3>. HIDE DEF sizes
    <3>. QED BY <3>1, <3>2, SumIsNat, SameSum
  <2>2. PICK size, align : means = Parser!Data(size, align,
          /\ size = Parser!SumFunction([j \in DOMAIN parts |-> parts[j].size])
          /\ \A j \in DOMAIN parts : parts[j].exact)
    BY DEF Parser!StructMeaning
  <2>3. ASSUME \A j \in DOMAIN parts : parts[j].exact
        PROVE  [j \in DOMAIN parts |-> parts[j].size] = sizes
    BY <2>3, <1>2, Decoded
  <2>4. ASSUME means.exact PROVE means.size = Parser!SumFunction(sizes)
    <3>1. size = Parser!SumFunction([j \in DOMAIN parts |-> parts[j].size])
      BY <2>2, <2>4 DEF Parser!Data, Parser!Type
    <3>2. \A j \in DOMAIN parts : parts[j].exact
      BY <2>2, <2>4 DEF Parser!Data, Parser!Type
    <3>3. means.size = size BY <2>2 DEF Parser!Data, Parser!Type
    <3>. QED BY <3>1, <3>2, <3>3, <2>3
  <2>5. /\ DOMAIN means = {"kind", "space", "size", "align", "exact"}
        /\ means.kind = "data" /\ means.space = "Private"
    BY <2>2 DEF Parser!Data, Parser!Type
  <2>. HIDE DEF means, sizes, parts
  <2>. QED BY <2>1, <2>4, <2>5
           DEF EntryRight, Parser!ArgTypeInfo, Parser!Spaces, Parser!POD
<1>5. Parser!DecodeWith(Parser!Range(members), "struct", entry, means)
  BY Zenon DEF Parser!DecodeStruct
<1>. HIDE DEF entry, means
<1>. QED BY <1>3, <1>4, <1>5, NewTypeWith

(* A struct by value. *)
LEMMA ByValue ==
  ASSUME ParserInv, NEW pointee \in DOMAIN meaning, Parser!DecodeByVal(pointee)
  PROVE  ParserInv'
<1>. DEFINE entry == Parser!POD(typeMap[pointee].size)
            means == [meaning[pointee] EXCEPT !.kind = "byval", !.space = "Private"]
<1>1. pointee \in DOMAIN typeMap BY Decoded
<1>2. ASSUME typeMap[pointee] # Parser!Null PROVE EntryRight(entry, means)
  <2>1. /\ DOMAIN means = {"kind", "space", "size", "align", "exact"}
        /\ means.kind = "byval" /\ means.space = "Private"
        /\ means.size = meaning[pointee].size /\ means.exact = meaning[pointee].exact
    BY Decoded
  <2>. HIDE DEF means
  <2>. QED BY <1>2, <2>1, Decoded
           DEF EntryRight, Parser!ArgTypeInfo, Parser!Spaces, Parser!POD
<1>3. Parser!DecodeWith({pointee}, "pointer", entry, means) BY DEF Parser!DecodeByVal
<1>. HIDE DEF entry, means
<1>. QED BY <1>1, <1>2, <1>3, NewTypeWith

(* A pointer, also one declared forward. *)
LEMMA Pointers ==
  ASSUME ParserInv, NEW storage \in Storages,
         Parser!DecodePointer(storage) \/ Parser!ForwardPointer(storage)
  PROVE  ParserInv'
<1>1. Parser!ASpace(storage) \in Parser!Spaces
  BY ArgumentsAssumption DEF Parser!ASpace, Parser!Spaces
<1>2. EntryRight(Parser!PointerTo(storage), Parser!PointerMeaning(storage, TRUE))
  BY <1>1 DEF ParserInv, EntryRight, Parser!PointerTo, Parser!PointerMeaning, Parser!Type,
              Parser!ArgTypeInfo
<1>3. EntryRight(Parser!Null, Parser!PointerMeaning(storage, FALSE))
  BY DEF EntryRight, Parser!PointerMeaning, Parser!Type
<1>. QED BY <1>2, <1>3, NewType DEF Parser!DecodePointer, Parser!ForwardPointer

(* What decodeFunctionType keeps. *)
LEMMA FunctionTypes ==
  ASSUME ParserInv, NEW ret \in DOMAIN meaning,
         NEW params \in Parser!Lists(DOMAIN meaning), Parser!DecodeFunctionType(ret, params)
  PROVE  ParserInv'
<1>1. PICK n \in 0..MaxParts : params \in [1..n -> DOMAIN meaning]
  BY DEF Parser!Lists
<1>2. /\ params \in Seq(DOMAIN typeMap) /\ Parser!Range(params) \subseteq DOMAIN typeMap
      /\ DOMAIN params = 1..n /\ ret \in DOMAIN typeMap
  BY <1>1, ArgumentsAssumption, Decoded DEF Parser!Range
<1>3. outcome = "reading" /\ section \in 1..6 /\ section' = 6
  BY DEF Parser!DecodeFunctionType, Parser!In
<1>4. CASE \E id \in {ret} \cup Parser!Range(params) : typeMap[id] = Parser!Null /\ Parser!Crash
  <2>1. PICK id \in {ret} \cup Parser!Range(params) : typeMap[id] = Parser!Null BY <1>4
  <2>. QED BY <1>2, <1>3, <1>4, <2>1, Crashed
<1>5. CASE /\ \A id \in {ret} \cup Parser!Range(params) : typeMap[id] # Parser!Null
           /\ functionTypeMap' =
                Parser!Emplace(functionTypeMap, Parser!NewId, Parser!ArgInfos(ret, params))
           /\ signature' =
                Parser!Emplace(signature, Parser!NewId, [ret |-> ret, params |-> params])
           /\ UNCHANGED <<flags, pointerSize, entryPoints, typeMap, entryToFunctionTypeIDMap,
                          func_infos, outcome, meaning, body>>
  <2>. DEFINE new == Parser!NewId
  <2>1. /\ functionTypeMap' = Parser!Emplace(functionTypeMap, new, Parser!ArgInfos(ret, params))
        /\ signature' = Parser!Emplace(signature, new, [ret |-> ret, params |-> params])
    BY <1>5
  <2>. HIDE DEF new
  <2>2. /\ DOMAIN functionTypeMap' = DOMAIN functionTypeMap \cup {new}
        /\ \A x \in DOMAIN functionTypeMap : functionTypeMap'[x] = functionTypeMap[x]
        /\ new \notin DOMAIN functionTypeMap => functionTypeMap'[new] = Parser!ArgInfos(ret, params)
    BY <2>1 DEF Parser!Emplace
  <2>3. /\ DOMAIN signature' = DOMAIN signature \cup {new}
        /\ \A x \in DOMAIN signature : signature'[x] = signature[x]
        /\ new \notin DOMAIN signature => signature'[new] = [ret |-> ret, params |-> params]
    BY <2>1 DEF Parser!Emplace
  <2>4. TypesRight'
    BY <1>5 DEF ParserInv, TypesRight, EntryRight, Parser!Null, Parser!ArgTypeInfo, Parser!Spaces
  <2>5. DOMAIN functionTypeMap = DOMAIN signature BY DEF ParserInv, FunctionsRight
  <2>6. \A j \in DOMAIN params : typeMap[params[j]] # Parser!Null
    BY <1>5 DEF Parser!Range
  <2>7. FunctionsRight'
    <3>1. ASSUME NEW ft \in DOMAIN signature'
          PROVE  LET s == signature'[ft].params IN
                 /\ s \in Seq(DOMAIN typeMap)
                 /\ functionTypeMap'[ft] = [j \in DOMAIN s |-> typeMap[s[j]]]
                 /\ \A j \in DOMAIN s : typeMap[s[j]] # Parser!Null
      <4>1. CASE ft \in DOMAIN signature
        BY <4>1, <2>2, <2>3, <2>5 DEF ParserInv, FunctionsRight
      <4>2. CASE ft \notin DOMAIN signature
        <5>1. signature'[ft] = [ret |-> ret, params |-> params]
              /\ functionTypeMap'[ft] = Parser!ArgInfos(ret, params)
          BY <4>2, <3>1, <2>2, <2>3, <2>5
        <5>2. signature'[ft].params = params BY <5>1
        <5>. QED BY <5>1, <5>2, <1>2, <2>6 DEF Parser!ArgInfos
      <4>. QED BY <4>1, <4>2
    <3>. QED BY <1>5, <2>2, <2>3, <2>5, <3>1 DEF FunctionsRight, Parser!Null
  <2>8. EntriesRight' /\ AnswerRight'
    BY <1>3, <1>5, <2>3 DEF ParserInv, EntriesRight, AnswerRight
  <2>. QED BY <1>3, <1>5, <2>4, <2>7, <2>8 DEF ParserInv, Parser!AllFlags
<1>. QED BY <1>4, <1>5 DEF Parser!DecodeFunctionType

(* What decodeType does for each kind of type. *)
LEMMA TypeStep == ASSUME ParserInv, Parser!Declare PROVE ParserInv'
<1>. USE DEF EntryRight, Parser!ArgTypeInfo, Parser!Spaces, Parser!POD, Parser!Type, Parser!Null
<1>1. CASE Parser!DecodeVoid
  BY <1>1, NewType DEF Parser!DecodeVoid
<1>2. CASE Parser!DecodeOpaque
  BY <1>2, NewType DEF Parser!DecodeOpaque
<1>3. ASSUME NEW size \in {1, 2}, Parser!DecodeScalar(size) PROVE ParserInv'
  BY <1>3, NewType DEF Parser!DecodeScalar
<1>. HIDE DEF EntryRight, Parser!ArgTypeInfo, Parser!Spaces, Parser!POD, Parser!Type, Parser!Null
<1>4. ASSUME NEW elem \in Parser!OfKind({"scalar"}), NEW n \in {2, 3},
             Parser!DecodeVector(elem, n)
      PROVE  ParserInv'
  <2>. DEFINE size == meaning[elem].size * (IF n = 3 THEN 4 ELSE n)
              exact == n # 3 /\ meaning[elem].exact
  <2>1. Parser!DecodeWith({elem}, "vector", Parser!POD(typeMap[elem].size * n),
                          Parser!Data(size, size, exact))
    BY <1>4 DEF Parser!DecodeVector
  <2>2. exact => meaning[elem].exact /\ size = meaning[elem].size * n OBVIOUS
  <2>3. elem \in DOMAIN meaning /\ n \in Nat BY DEF Parser!OfKind
  <2>. HIDE DEF size, exact
  <2>. QED BY <2>1, <2>2, <2>3, MadeOfOne
<1>5. ASSUME NEW elem \in Parser!Sized, NEW len \in {2}, NEW lenId \in {3},
             Parser!DecodeArray(elem, len, lenId)
      PROVE  ParserInv'
  <2>1. elem \in DOMAIN meaning /\ lenId \in Nat BY DEF Parser!Sized, Parser!OfKind
  <2>2. Parser!DecodeWith({elem}, "array", Parser!POD(typeMap[elem].size * lenId),
          Parser!Data(meaning[elem].size * len, meaning[elem].align, FALSE))
    BY <1>5 DEF Parser!DecodeArray
  <2>. QED BY <2>1, <2>2, MadeOfOne
<1>6. ASSUME NEW members \in Parser!Lists(Parser!Sized), Parser!DecodeStruct(members)
      PROVE  ParserInv'
  BY <1>6, Structs
<1>7. ASSUME NEW id \in DOMAIN meaning \ Parser!OfKind({"void"}), Parser!DecodeByVal(id)
      PROVE  ParserInv'
  BY <1>7, ByValue
<1>8. ASSUME NEW storage \in Storages,
             Parser!DecodePointer(storage) \/ Parser!ForwardPointer(storage)
      PROVE  ParserInv'
  BY <1>8, Pointers
<1>9. ASSUME NEW ret \in Parser!OfKind({"void", "opaque"}),
             NEW params \in Parser!Lists(DOMAIN meaning \ Parser!OfKind({"void"})),
             Parser!DecodeFunctionType(ret, params)
      PROVE  ParserInv'
  <2>1. ret \in DOMAIN meaning /\ params \in Parser!Lists(DOMAIN meaning)
    BY DEF Parser!OfKind, Parser!Lists
  <2>. QED BY <1>9, <2>1, FunctionTypes
<1>. QED BY <1>1, <1>2, <1>3, <1>4, <1>5, <1>6, <1>7, <1>8, <1>9 DEF Parser!Declare

-----------------------------------------------------------------------------
(* Every turn of the parser's loop keeps the invariant. *)
LEMMA ParseStep == ASSUME ParserInv, Parser!Parse PROVE ParserInv'
<1>. USE DEF Parser!AllFlags, Parser!Null, Parser!ArgTypeInfo, Parser!Spaces
<1>. DEFINE TablesKept ==
       UNCHANGED <<typeMap, functionTypeMap, func_infos, meaning, signature>>
<1>1. ASSUME TablesKept PROVE TypesRight' /\ FunctionsRight'
  BY <1>1 DEF ParserInv, TypesRight, EntryRight, FunctionsRight
<1>2. ASSUME NEW good \in BOOLEAN, Parser!ParseHeader(good) PROVE ParserInv'
  <2>1. EntriesRight' BY <1>2 DEF ParserInv, EntriesRight, Parser!ParseHeader
  <2>2. AnswerRight'
    BY <1>2 DEF ParserInv, AnswerRight, Parser!ParseHeader
  <2>. QED BY <1>1, <1>2, <2>1, <2>2 DEF ParserInv, Parser!ParseHeader
<1>3. ASSUME NEW s \in 1..6, NEW flag \in Parser!AllFlags, Parser!SetFlag(s, flag)
      PROVE  ParserInv'
  <2>1. EntriesRight' BY <1>3 DEF ParserInv, EntriesRight, Parser!SetFlag, Parser!In
  <2>2. AnswerRight'
    BY <1>3 DEF ParserInv, AnswerRight, Parser!SetFlag, Parser!In
  <2>. QED BY <1>1, <1>3, <2>1, <2>2 DEF ParserInv, Parser!SetFlag, Parser!In
<1>4. ASSUME NEW wide \in BOOLEAN, Parser!MemoryModel(wide) PROVE ParserInv'
  <2>1. EntriesRight' BY <1>4 DEF ParserInv, EntriesRight, Parser!MemoryModel, Parser!In
  <2>2. AnswerRight'
    BY <1>4 DEF ParserInv, AnswerRight, Parser!MemoryModel, Parser!In
  <2>. QED BY <1>1, <1>4, <2>1, <2>2 DEF ParserInv, Parser!MemoryModel, Parser!In
<1>5. ASSUME NEW f \in FunctionIds, Parser!EntryPoint(f) PROVE ParserInv'
  <2>1. DOMAIN body = {} BY <1>5 DEF ParserInv, EntriesRight, Parser!EntryPoint, Parser!In
  <2>2. EntriesRight' BY <1>5, <2>1 DEF ParserInv, EntriesRight, Parser!EntryPoint, Parser!In
  <2>3. AnswerRight'
    BY <1>5 DEF ParserInv, AnswerRight, Parser!EntryPoint, Parser!In
  <2>. QED BY <1>1, <1>5, <2>2, <2>3 DEF ParserInv, Parser!EntryPoint, Parser!In
<1>6. ASSUME NEW f \in FunctionIds, NEW ft \in DOMAIN signature, Parser!Function(f, ft)
      PROVE  ParserInv'
  <2>1. /\ DOMAIN body' = DOMAIN body \cup {f} /\ body'[f] = ft
        /\ \A g \in DOMAIN body : body'[g] = body[g]
    BY <1>6 DEF Parser!Function, Parser!Emplace
  <2>2. f \in entryPoints =>
          /\ DOMAIN entryToFunctionTypeIDMap' = DOMAIN entryToFunctionTypeIDMap \cup {f}
          /\ entryToFunctionTypeIDMap'[f] = ft
          /\ \A g \in DOMAIN entryToFunctionTypeIDMap :
               entryToFunctionTypeIDMap'[g] = entryToFunctionTypeIDMap[g]
    BY <1>6 DEF ParserInv, EntriesRight, Parser!Function, Parser!Emplace
  <2>3. f \notin entryPoints => UNCHANGED entryToFunctionTypeIDMap
    BY <1>6 DEF Parser!Function
  <2>4. section' = 7 /\ UNCHANGED <<entryPoints, signature>>
    BY <1>6 DEF Parser!Function, Parser!In
  <2>5. EntriesRight'
    <3>1. /\ DOMAIN entryToFunctionTypeIDMap = entryPoints \cap DOMAIN body
          /\ \A g \in DOMAIN body : g \in FunctionIds /\ body[g] \in DOMAIN signature
          /\ \A g \in entryPoints \cap DOMAIN body : entryToFunctionTypeIDMap[g] = body[g]
      BY DEF ParserInv, EntriesRight
    <3>2. DOMAIN entryToFunctionTypeIDMap' = (entryPoints \cap DOMAIN body)'
      BY <3>1, <2>1, <2>2, <2>3, <2>4
    <3>3. \A g \in DOMAIN body' : g \in FunctionIds /\ body'[g] \in DOMAIN signature
      BY <3>1, <2>1
    <3>4. \A g \in (entryPoints \cap DOMAIN body)' :
            entryToFunctionTypeIDMap'[g] = body'[g]
      BY <3>1, <2>1, <2>2, <2>3, <2>4
    <3>. QED BY <3>2, <3>3, <3>4, <2>4 DEF EntriesRight
  <2>6. AnswerRight'
    BY <1>6 DEF ParserInv, AnswerRight, Parser!Function, Parser!In
  <2>. QED BY <1>1, <1>6, <2>5, <2>6 DEF ParserInv, Parser!Function, Parser!In
<1>7. CASE Parser!FillModuleInfo
  <2>1. EntriesRight' BY <1>7 DEF ParserInv, EntriesRight, Parser!FillModuleInfo, Parser!In
  <2>2. AnswerRight'
    BY <1>7 DEF ParserInv, EntriesRight, AnswerRight, Parser!FillModuleInfo,
                Parser!In, Parser!Valid, Parser!NoMap
  <2>3. TypesRight' /\ FunctionsRight'
    BY <1>7 DEF Parser!FillModuleInfo, ParserInv, TypesRight, EntryRight, FunctionsRight
  <2>. QED BY <1>7, <2>1, <2>2, <2>3 DEF ParserInv, Parser!FillModuleInfo, Parser!In
<1>8. CASE Parser!Declare BY <1>8, TypeStep
<1>. QED
  BY <1>2, <1>3, <1>4, <1>5, <1>6, <1>7, <1>8
  DEF Parser!Parse, Parser!KernelCapability, Parser!ExtInstImport, Parser!LangOpenCL

LEMMA ParserInit == Init => ParserInv
  BY DEF Init, Parser!Init, ParserInv, TypesRight, FunctionsRight, EntriesRight, AnswerRight,
         Parser!NoMap, Parser!AllFlags

LEMMA ParserNext == ASSUME ParserInv, [Next]_vars PROVE ParserInv'
<1>. USE DEF Parser!AllFlags, Parser!Null, Parser!ArgTypeInfo, Parser!Spaces
<1>1. CASE Parser!Parse BY <1>1, ParseStep
<1>2. CASE UNCHANGED parsing
  BY <1>2 DEF parsing, ParserInv, TypesRight, EntryRight, FunctionsRight, EntriesRight,
              AnswerRight
<1>3. ASSUME NEW f \in FunctionIds, NEW b \in Backends, Compile(f, b) PROVE ParserInv'
  BY <1>3 DEF Compile, ParserInv, TypesRight, FunctionsRight, EntriesRight, AnswerRight
<1>. QED BY <1>1, <1>2, <1>3 DEF Next, vars

THEOREM ParserInvariant == Spec => []ParserInv
  BY ParserInit, ParserNext, PTL DEF Spec

(* The table of an accepted module lists its kernels with their parameters *)
(* as declared.                                                            *)
THEOREM TableCorrect == Spec => []TableIsRight
<1>1. ParserInv => TableIsRight
  <2>. SUFFICES ASSUME ParserInv, outcome = "true" PROVE Parser!TableIsRight
    BY DEF TableIsRight, Parser!TableIsRight
  <2>1. /\ entryPoints \subseteq DOMAIN body
        /\ func_infos = [f \in entryPoints |-> functionTypeMap[body[f]]]
    BY DEF ParserInv, AnswerRight
  <2>2. ASSUME NEW f \in entryPoints
        PROVE  LET params == signature[body[f]].params IN
               /\ Len(func_infos[f]) = Len(params)
               /\ \A j \in DOMAIN params :
                    meaning[params[j]].exact => func_infos[f][j] = Parser!Declared(params[j])
    <3>. DEFINE params == signature[body[f]].params
    <3>1. body[f] \in DOMAIN signature /\ func_infos[f] = functionTypeMap[body[f]]
      BY <2>1 DEF ParserInv, EntriesRight
    <3>2. /\ params \in Seq(DOMAIN typeMap)
          /\ func_infos[f] = [j \in DOMAIN params |-> typeMap[params[j]]]
      BY <3>1 DEF ParserInv, FunctionsRight
    <3>. HIDE DEF params
    <3>3. Len(func_infos[f]) = Len(params) BY <3>2
    <3>4. ASSUME NEW j \in DOMAIN params, meaning[params[j]].exact
          PROVE  func_infos[f][j] = Parser!Declared(params[j])
      BY <3>2, <3>4 DEF ParserInv, TypesRight, EntryRight, Parser!Declared
    <3>. QED BY <3>3, <3>4 DEF params
  <2>. QED BY <2>1, <2>2 DEF Parser!TableIsRight
<1>. QED BY <1>1, ParserInvariant, PTL

-----------------------------------------------------------------------------
(* The kernel object has a slot for each parameter; the table has the      *)
(* space of each right, and only the last is in local memory.              *)
KernelRight ==
  /\ info \in Seq(Parser!ArgTypeInfo)
  /\ DOMAIN truth = DOMAIN info /\ Len(truth) = Len(info)
  /\ DOMAIN slots = DOMAIN info /\ Len(slots) = Len(info)
  /\ \A j \in DOMAIN info : truth[j].space = info[j].space
  /\ FromHip(truth)

(* The buffer holds the arguments that were set up, where it holds         *)
(* anything, and all of it.                                                *)
Span(k) == offset_sizes[k][1]..(offset_sizes[k][1] + offset_sizes[k][2] - 1)
BufferRight ==
  /\ offset_sizes \in Seq(Offsets \X ArgSizes)
  /\ \A k \in DOMAIN offset_sizes : Span(k) \subseteq DOMAIN arg_data
  /\ \A u \in DOMAIN arg_data : \E k \in DOMAIN offset_sizes :
       u \in Span(k) /\ arg_data[u] = <<offset_sizes[k][1], u - offset_sizes[k][1] + 1>>

(* What the checks before the loop leave of the old way's arguments: one   *)
(* for each parameter but the local one, in order and apart.               *)
Ordered ==
  pc \in {"set", "local", "append", "launched"} /\ api = "old" =>
    /\ Len(offset_sizes) + Setup!NumLocals = Len(info)
    /\ \A k, m \in DOMAIN offset_sizes :
         k < m => /\ offset_sizes[k][1] < offset_sizes[m][1]
                  /\ offset_sizes[k][1] + offset_sizes[k][2] <= offset_sizes[m][1]

(* Slot j holds the argument meant for parameter j. *)
SlotRight(j) ==
  \E a \in Offsets \cup 1..Len(truth) :
    Setup!MeantFor(a, j) /\ slots[j] = Setup!Value(Setup!Whole(a, truth[j].size))
IsLocal(j) == truth[j].space = "Local"

SlotsRight ==
  /\ pc = "set" => \A j \in DOMAIN truth : IsLocal(j) \/ j >= i \/ SlotRight(j)
  /\ pc \in {"local", "append", "launched"} =>
       \A j \in DOMAIN truth : IsLocal(j) \/ SlotRight(j)
  /\ pc \in {"append", "launched"} =>
       \A j \in DOMAIN truth :
         IsLocal(j) => slots[j] = Setup!Local(shared) \/ Setup!LocalLeftAsItWas

SetupTyped ==
  /\ Setup!TypeOK
  /\ shared \in Nat
  /\ pc = "set" => i > 0
  /\ pc = "none" => info = <<>>
  /\ pc # "none" => backend \in Backends

SetupInv ==
  /\ SetupTyped /\ KernelRight /\ BufferRight /\ Ordered /\ SlotsRight
  /\ Setup!RightlyRefused

-----------------------------------------------------------------------------
(* The launch's instance of the cardinality is the cardinality. *)
LEMMA SameCardinality == ASSUME NEW S PROVE Setup!Cardinality(S) = Cardinality(S)
  BY Zenon DEF Setup!Cardinality, Cardinality

(* What is known of the pairs of hipSetupArgument. *)
LEMMA Pairs ==
  ASSUME BufferRight
  PROVE  /\ Len(offset_sizes) \in Nat /\ DOMAIN offset_sizes = 1..Len(offset_sizes)
         /\ \A k \in DOMAIN offset_sizes :
              /\ offset_sizes[k] \in Offsets \X ArgSizes
              /\ offset_sizes[k][1] \in Nat /\ offset_sizes[k][2] \in Nat
<1>1. offset_sizes \in Seq(Offsets \X ArgSizes) BY DEF BufferRight
<1>2. Len(offset_sizes) \in Nat /\ DOMAIN offset_sizes = 1..Len(offset_sizes) BY <1>1
<1>3. ASSUME NEW k \in DOMAIN offset_sizes
      PROVE  offset_sizes[k] \in Offsets \X ArgSizes
  BY <1>1, <1>2
<1>4. ASSUME NEW k \in DOMAIN offset_sizes
      PROVE  offset_sizes[k][1] \in Nat /\ offset_sizes[k][2] \in Nat
  BY <1>3, ArgumentsAssumption
<1>. QED BY <1>2, <1>3, <1>4

(* At most the last parameter is local. *)
LEMMA Locals ==
  ASSUME KernelRight
  PROVE  /\ Len(info) \in Nat /\ DOMAIN info = 1..Len(info)
         /\ Setup!NumLocals = IF Setup!HasLocal THEN 1 ELSE 0
         /\ \A j \in DOMAIN truth : IsLocal(j) <=> Setup!HasLocal /\ j = Len(info)
<1>. DEFINE n == Len(info)
            L == { j \in DOMAIN info : info[j].space = "Local" }
<1>1. n \in Nat /\ DOMAIN info = 1..n BY DEF KernelRight
<1>2. Setup!HasLocal <=> n > 0 /\ info[n].space = "Local"
  BY <1>1 DEF Setup!HasLocal, Setup!Last, KernelRight
<1>3. \A j \in DOMAIN info : info[j].space = "Local" => j = n
  BY <1>1 DEF KernelRight, FromHip
<1>4. L = IF Setup!HasLocal THEN {n} ELSE {}
  BY <1>1, <1>2, <1>3
<1>. HIDE DEF n, L
<1>5. Cardinality(L) = IF Setup!HasLocal THEN 1 ELSE 0
  BY <1>4, FS_Singleton, FS_EmptySet
<1>. QED BY <1>1, <1>2, <1>3, <1>5, SameCardinality DEF Setup!NumLocals, L, n, KernelRight, IsLocal

(* Of arguments in order the k-th has rank k. *)
LEMMA Ranks ==
  ASSUME BufferRight,
         \A k, m \in DOMAIN offset_sizes : k < m => offset_sizes[k][1] < offset_sizes[m][1],
         NEW k \in DOMAIN offset_sizes
  PROVE  Setup!Rank(offset_sizes[k][1]) = k
<1>1. /\ DOMAIN offset_sizes = 1..Len(offset_sizes) /\ Len(offset_sizes) \in Nat
      /\ \A m \in DOMAIN offset_sizes : offset_sizes[m][1] \in Nat
  BY Pairs
<1>. DEFINE R == { m \in DOMAIN offset_sizes : offset_sizes[m][1] < offset_sizes[k][1] }
<1>2. R = 1..(k - 1)
  <2>1. ASSUME NEW m \in DOMAIN offset_sizes
        PROVE  offset_sizes[m][1] < offset_sizes[k][1] <=> m < k
    <3>1. m < k \/ m = k \/ k < m BY <1>1
    <3>. QED BY <1>1, <3>1
  <2>. QED BY <1>1, <2>1
<1>3. Cardinality(1..(k - 1)) = k - 1
  BY <1>1, FS_Interval
<1>4. Setup!Rank(offset_sizes[k][1]) = Cardinality(R) + 1
  BY SameCardinality DEF Setup!Rank
<1>. HIDE DEF R
<1>. QED BY <1>1, <1>2, <1>3, <1>4

(* std::sort keeps the pairs and puts them in order. *)
LEMMA SortedIs ==
  ASSUME BufferRight, NEW s \in Setup!Sorted
  PROVE  /\ s \in Seq(Offsets \X ArgSizes)
         /\ DOMAIN s = DOMAIN offset_sizes /\ Len(s) = Len(offset_sizes)
         /\ \A k \in DOMAIN s : \E m \in DOMAIN s : s[k] = offset_sizes[m]
         /\ \A k \in DOMAIN s : \E m \in DOMAIN s : offset_sizes[k] = s[m]
         /\ \A k, m \in DOMAIN s : k < m => s[k][1] <= s[m][1]
<1>. DEFINE K == DOMAIN offset_sizes
<1>1. K = 1..Len(offset_sizes) /\ Len(offset_sizes) \in Nat
      /\ \A k \in K : offset_sizes[k] \in Offsets \X ArgSizes /\ offset_sizes[k][1] \in Nat
  BY Pairs
<1>2. PICK p \in Setup!Bijection(K, K) :
        /\ s = [k \in K |-> offset_sizes[p[k]]]
        /\ \A k, m \in K : k < m => ~Setup!Less(offset_sizes[p[m]], offset_sizes[p[k]])
  BY DEF Setup!Sorted
<1>3. p \in [K -> K] /\ \A k \in K : \E m \in K : p[m] = k
  BY DEF Setup!Bijection, Setup!Surjection
<1>. HIDE DEF K
<1>4. DOMAIN s = K /\ \A k \in K : s[k] = offset_sizes[p[k]] /\ p[k] \in K
  BY <1>2, <1>3
<1>5. s \in Seq(Offsets \X ArgSizes) /\ Len(s) = Len(offset_sizes)
  <2>1. s \in [1..Len(offset_sizes) -> Offsets \X ArgSizes] BY <1>1, <1>2, <1>4
  <2>. QED BY <1>1, <2>1
<1>6. \A k \in K : \E m \in K : offset_sizes[k] = s[m]
  BY <1>3, <1>4
<1>7. \A k, m \in K : k < m => s[k][1] <= s[m][1]
  BY <1>1, <1>2, <1>4 DEF Setup!Less
<1>. QED BY <1>4, <1>5, <1>6, <1>7 DEF K

(* Of some pairs one is not greater than any. *)
LEMMA LeastPair ==
  ASSUME BufferRight, NEW M, M \subseteq DOMAIN offset_sizes, M # {}
  PROVE  \E q \in M : \A r \in M : ~Setup!Less(offset_sizes[r], offset_sizes[q])
<1>. DEFINE X == { offset_sizes[r][1] : r \in M }
<1>1. X \subseteq Nat /\ X # {} BY Pairs
<1>2. PICK x \in X : \A z \in X : x <= z BY <1>1, LeastNat
<1>. DEFINE Y == { offset_sizes[r][2] : r \in { l \in M : offset_sizes[l][1] = x } }
<1>3. Y \subseteq Nat /\ Y # {} BY <1>2, Pairs
<1>. HIDE DEF Y
<1>4. PICK y \in Y : \A z \in Y : y <= z BY <1>3, LeastNat
<1>5. PICK q \in M : offset_sizes[q][1] = x /\ offset_sizes[q][2] = y BY <1>4 DEF Y
<1>6. ASSUME NEW r \in M PROVE ~Setup!Less(offset_sizes[r], offset_sizes[q])
  <2>1. /\ offset_sizes[r][1] \in Nat /\ offset_sizes[r][2] \in Nat /\ x \in Nat /\ y \in Nat
    BY <1>1, <1>3, Pairs
  <2>2. x <= offset_sizes[r][1] BY <1>2
  <2>3. offset_sizes[r][1] = x => y <= offset_sizes[r][2] BY <1>4 DEF Y
  <2>. QED BY <1>5, <2>1, <2>2, <2>3 DEF Setup!Less
<1>. QED BY <1>6

(* Whatever was set up can be sorted: the least of the pairs that are left *)
(* is put in front, until none is left.                                    *)
LEMMA SortExists == ASSUME BufferRight PROVE Setup!Sorted # {}
<1>. DEFINE K == DOMAIN offset_sizes
            InOrder(p, m) == \A k, l \in K :
              k <= m /\ k < l => ~Setup!Less(offset_sizes[p[l]], offset_sizes[p[k]])
            A(m) == \E p \in Setup!Bijection(K, K) : InOrder(p, m)
<1>1. PICK n \in Nat : n = Len(offset_sizes) /\ K = 1..n BY Pairs
<1>2. \A p \in [K -> K] : p \in Setup!Bijection(K, K) <=>
        /\ \A k, l \in K : p[k] = p[l] => k = l
        /\ \A k \in K : \E l \in K : p[l] = k
  BY DEF Setup!Bijection, Setup!Injection, Setup!Surjection, Setup!IsInjective
<1>3. Setup!Bijection(K, K) \subseteq [K -> K]
  BY DEF Setup!Bijection, Setup!Injection
<1>4. \A m \in Nat : A(m)
  <2>. DEFINE T == { m \in Nat : ~A(m) }
  <2>. SUFFICES ASSUME T # {} PROVE FALSE OBVIOUS
  <2>1. PICK m \in T : \A z \in T : m <= z BY LeastNat
  <2>2. m \in Nat /\ ~A(m) BY <2>1
  <2>. HIDE DEF T
  <2>3. PICK p \in Setup!Bijection(K, K) :
          \A k, l \in K :
            k < m /\ k < l => ~Setup!Less(offset_sizes[p[l]], offset_sizes[p[k]])
    <3>1. CASE m = 0
      <4>. DEFINE id == [k \in K |-> k]
      <4>1. id \in Setup!Bijection(K, K) BY <1>2
      <4>2. \A k \in K : ~(k < m) BY <1>1, <3>1
      <4>. QED BY <4>1, <4>2
    <3>2. CASE m # 0
      <4>1. PICK z \in Nat : z + 1 = m BY <2>2, <3>2
      <4>2. z \notin T BY <2>1, <2>2, <4>1
      <4>3. A(z) BY <4>1, <4>2 DEF T
      <4>4. \A k \in K : k < m => k <= z BY <1>1, <4>1
      <4>. QED BY <4>3, <4>4
    <3>. QED BY <3>1, <3>2
  <2>4. p \in [K -> K] /\ (\A k, l \in K : p[k] = p[l] => k = l)
        /\ \A k \in K : \E l \in K : p[l] = k
    BY <1>2, <1>3
  <2>5. CASE m \notin K
    <3>1. \A k \in K : \A l \in K : k <= m /\ k < l => k < m BY <1>1, <2>2, <2>5
    <3>. QED BY <2>2, <2>3, <3>1
  <2>6. CASE m \in K
    <3>. DEFINE M == { p[l] : l \in m..n }
    <3>1. m \in m..n /\ m..n \subseteq K BY <1>1, <2>2, <2>6
    <3>2. M \subseteq K /\ M # {} BY <2>4, <3>1
    <3>. HIDE DEF M
    <3>3. PICK q \in M : \A r \in M : ~Setup!Less(offset_sizes[r], offset_sizes[q])
      BY <3>2, LeastPair
    <3>4. PICK r \in m..n : p[r] = q BY DEF M
    <3>. DEFINE from(l) == IF l = m THEN r ELSE IF l = r THEN m ELSE l
                s == [l \in K |-> p[from(l)]]
    <3>5. \A l \in K : from(l) \in K /\ from(from(l)) = l BY <2>6, <3>1
    <3>6. s \in Setup!Bijection(K, K)
      <4>1. s \in [K -> K] BY <2>4, <3>5
      <4>2. ASSUME NEW k \in K, NEW l \in K, s[k] = s[l] PROVE k = l
        <5>1. from(k) = from(l) BY <2>4, <3>5, <4>2
        <5>. QED BY <3>5, <5>1
      <4>3. ASSUME NEW k \in K PROVE \E l \in K : s[l] = k
        <5>1. PICK l \in K : p[l] = k BY <2>4
        <5>2. from(l) \in K /\ s[from(l)] = k BY <3>5, <5>1
        <5>. QED BY <5>2
      <4>. HIDE DEF s
      <4>. QED BY <1>2, <4>1, <4>2, <4>3
    <3>7. ASSUME NEW k \in K, NEW l \in K, k <= m, k < l
          PROVE  ~Setup!Less(offset_sizes[s[l]], offset_sizes[s[k]])
      <4>1. k \in Nat /\ l \in Nat /\ r \in Nat /\ m <= r BY <1>1, <3>1, <2>2
      <4>2. CASE k < m
        <5>1. s[k] = p[k] BY <4>1, <4>2, <2>2
        <5>2. k < from(l) BY <4>1, <4>2, <2>2, <3>7
        <5>3. s[l] = p[from(l)] OBVIOUS
        <5>. HIDE DEF from, s
        <5>. QED BY <2>3, <3>5, <4>2, <5>1, <5>2, <5>3
      <4>3. CASE k = m
        <5>1. s[k] = q BY <2>6, <3>4, <4>3
        <5>2. from(l) \in m..n BY <1>1, <2>2, <3>1, <3>7, <4>1, <4>3
        <5>3. s[l] \in M BY <5>2 DEF M
        <5>. HIDE DEF s
        <5>. QED BY <3>3, <5>1, <5>3
      <4>. QED BY <2>2, <3>7, <4>1, <4>2, <4>3
    <3>. HIDE DEF s
    <3>8. InOrder(s, m) BY <3>7
    <3>. QED BY <2>2, <3>6, <3>8
  <2>. QED BY <2>5, <2>6
<1>5. PICK p \in Setup!Bijection(K, K) : InOrder(p, n) BY <1>4
<1>6. \A k \in K : k <= n BY <1>1
<1>7. \A k, l \in K : k < l => ~Setup!Less(offset_sizes[p[l]], offset_sizes[p[k]])
  BY <1>5, <1>6
<1>8. [k \in K |-> offset_sizes[p[k]]] \in Setup!Sorted
  BY <1>7 DEF Setup!Sorted
<1>. QED BY <1>8

-----------------------------------------------------------------------------
(* What a step that leaves the parameters, or the pairs and the buffer, or *)
(* a slot alone keeps.                                                     *)
LEMMA KernelKept ==
  ASSUME KernelRight, UNCHANGED <<info, truth>>,
         DOMAIN slots' = DOMAIN slots, Len(slots') = Len(slots)
  PROVE  KernelRight'
  BY DEF KernelRight, FromHip, Parser!ArgTypeInfo, Parser!Spaces

LEMMA BufferKept ==
  ASSUME BufferRight, UNCHANGED <<offset_sizes, arg_data>> PROVE BufferRight'
  BY DEF BufferRight, Span

LEMMA SlotKept ==
  ASSUME UNCHANGED <<truth, api, offset_sizes>>, NEW j, slots'[j] = slots[j], SlotRight(j)
  PROVE  SlotRight(j)'
  BY DEF SlotRight, Setup!MeantFor, Setup!OffsetsSetUp, Setup!Rank, Setup!Value, Setup!Whole

LEMMA SetupInit == Init => SetupInv
<1>. SUFFICES ASSUME Init PROVE SetupInv OBVIOUS
<1>. USE DEF Init, Setup!Init, Setup!NoLaunch
<1>1. SetupTyped BY DEF SetupTyped, Setup!TypeOK
<1>2. KernelRight BY DEF KernelRight, FromHip
<1>3. BufferRight /\ Ordered /\ SlotsRight
  BY DEF BufferRight, Ordered, SlotsRight
<1>4. Setup!RightlyRefused BY DEF Setup!RightlyRefused
<1>. QED BY <1>1, <1>2, <1>3, <1>4 DEF SetupInv

(* A kernel object is made with the parameters of the table. *)
LEMMA CompileStep ==
  ASSUME ParserInv, SetupInv, NEW f \in FunctionIds, NEW b \in Backends, Compile(f, b)
  PROVE  SetupInv'
<1>. DEFINE params == signature[body[f]].params
<1>1. /\ outcome = "true" /\ f \in DOMAIN func_infos /\ FromHip(Parameters(f))
      /\ pc = "none" /\ backend' = b /\ info' = func_infos[f] /\ truth' = Parameters(f)
      /\ slots' = [j \in DOMAIN Parameters(f) |-> Setup!Unset] /\ pc' = "idle"
      /\ UNCHANGED <<api, shared, offset_sizes, arg_data, i, faulted>>
  BY DEF Compile, Setup!CreateKernel, Setup!launch
<1>2. f \in entryPoints /\ body[f] \in DOMAIN signature
      /\ func_infos[f] = functionTypeMap[body[f]]
  BY <1>1 DEF ParserInv, AnswerRight, EntriesRight
<1>3. /\ params \in Seq(DOMAIN typeMap)
      /\ func_infos[f] = [j \in DOMAIN params |-> typeMap[params[j]]]
      /\ \A j \in DOMAIN params : typeMap[params[j]] # Parser!Null
  BY <1>2 DEF ParserInv, FunctionsRight
<1>4. Parameters(f) = [j \in DOMAIN params |-> Parser!Declared(params[j])]
  BY DEF Parameters
<1>. HIDE DEF params
<1>5. ASSUME NEW j \in DOMAIN params
      PROVE  /\ typeMap[params[j]] \in Parser!ArgTypeInfo
             /\ typeMap[params[j]].space = Parser!Declared(params[j]).space
  <2>1. params[j] \in DOMAIN meaning BY <1>3 DEF ParserInv, TypesRight
  <2>. QED BY <1>3, <2>1, Decoded DEF Parser!Declared
<1>6. DOMAIN params = 1..Len(params) /\ Len(params) \in Nat BY <1>3
<1>7. KernelRight'
  <2>1. info' \in Seq(Parser!ArgTypeInfo) BY <1>1, <1>3, <1>5, <1>6
  <2>2. /\ DOMAIN info' = DOMAIN params /\ Len(info') = Len(params)
        /\ DOMAIN truth' = DOMAIN params /\ Len(truth') = Len(params)
        /\ DOMAIN slots' = DOMAIN params /\ Len(slots') = Len(params)
    BY <1>1, <1>3, <1>4, <1>6
  <2>3. \A j \in DOMAIN info' : truth'[j].space = info'[j].space
    BY <1>1, <1>3, <1>4, <1>5, <2>2
  <2>. QED BY <1>1, <2>1, <2>2, <2>3
           DEF KernelRight, FromHip, Parser!ArgTypeInfo, Parser!Spaces
<1>8. SetupTyped'
  <2>1. \A j \in DOMAIN slots' : slots'[j].kind = "unset" BY <1>1 DEF Setup!Unset
  <2>. QED BY <1>1, <1>7, <2>1
           DEF SetupInv, SetupTyped, Setup!TypeOK, KernelRight, Setup!Outcomes
<1>9. BufferRight' BY <1>1, BufferKept DEF SetupInv
<1>10. Ordered' /\ SlotsRight' /\ Setup!RightlyRefused'
  BY <1>1 DEF Ordered, SlotsRight, Setup!RightlyRefused
<1>. QED BY <1>7, <1>8, <1>9, <1>10 DEF SetupInv

(* The next launch: what the slots hold is of no use to it. *)
LEMMA ConfigureStep ==
  ASSUME SetupInv, NEW a \in {"old", "new"}, NEW size \in Shared, Setup!Configure(a, size)
  PROVE  SetupInv'
<1>1. /\ pc \in {"idle", "launched", "refused"}
      /\ pc' = (IF a = "old" THEN "setup" ELSE "check")
      /\ api' = a /\ shared' = size /\ offset_sizes' = <<>> /\ arg_data' = <<>>
      /\ slots' = [j \in DOMAIN slots |-> IF slots[j] = Setup!Unset THEN Setup!Unset ELSE Setup!Stale]
      /\ i' = 0 /\ UNCHANGED <<backend, info, truth>>
  BY DEF Setup!Configure
<1>2. Len(slots') = Len(slots)
  BY <1>1 DEF SetupInv, KernelRight
<1>3. KernelRight' BY <1>1, <1>2, KernelKept DEF SetupInv
<1>4. SetupTyped'
  <2>1. \A j \in DOMAIN slots' : slots'[j].kind \in {"unset", "stale"}
    BY <1>1 DEF Setup!Unset, Setup!Stale
  <2>2. Setup!TypeOK' BY <1>1, <1>3, <2>1 DEF SetupInv, SetupTyped, Setup!TypeOK, KernelRight
  <2>. QED BY <1>1, <2>2, ArgumentsAssumption DEF SetupInv, SetupTyped
<1>5. BufferRight' BY <1>1 DEF BufferRight
<1>6. Ordered' /\ SlotsRight' /\ Setup!RightlyRefused'
  BY <1>1 DEF Ordered, SlotsRight, Setup!RightlyRefused
<1>. QED BY <1>3, <1>4, <1>5, <1>6 DEF SetupInv

(* hipSetupArgument writes its argument over what is there. *)
LEMMA SetArgStep ==
  ASSUME SetupInv, NEW offset \in Offsets, NEW size \in ArgSizes, Setup!SetArg(offset, size)
  PROVE  SetupInv'
<1>. DEFINE covered == offset..(offset + size - 1)
<1>1. /\ pc = "setup"
      /\ offset_sizes' = Append(offset_sizes, <<offset, size>>)
      /\ arg_data' = [u \in DOMAIN arg_data \cup covered |->
           IF u \in covered THEN <<offset, u - offset + 1>> ELSE arg_data[u]]
      /\ UNCHANGED <<backend, info, truth, slots, api, shared, pc, i, faulted>>
  BY DEF Setup!SetArg
<1>. HIDE DEF covered
<1>2. PICK n \in Nat : n = Len(offset_sizes) /\ DOMAIN offset_sizes = 1..n
  BY Pairs DEF SetupInv
<1>3. /\ offset_sizes' \in Seq(Offsets \X ArgSizes)
      /\ DOMAIN offset_sizes' = 1..(n + 1)
      /\ offset_sizes'[n + 1] = <<offset, size>>
      /\ \A k \in 1..n : offset_sizes'[k] = offset_sizes[k]
  BY <1>1, <1>2 DEF SetupInv, BufferRight
<1>4. BufferRight'
  <2>1. Span(n + 1)' = covered BY <1>3 DEF Span, covered
  <2>2. \A k \in 1..n : Span(k)' = Span(k) BY <1>3 DEF Span
  <2>3. \A k \in DOMAIN offset_sizes' : Span(k)' \subseteq DOMAIN arg_data'
    <3>1. ASSUME NEW k \in 1..(n + 1) PROVE Span(k)' \subseteq DOMAIN arg_data'
      <4>1. CASE k = n + 1 BY <4>1, <2>1, <1>1
      <4>2. CASE k # n + 1
        <5>1. k \in 1..n BY <4>2, <1>2
        <5>. QED BY <5>1, <2>2, <1>1, <1>2 DEF SetupInv, BufferRight
      <4>. QED BY <4>1, <4>2
    <3>. QED BY <3>1, <1>3
  <2>4. ASSUME NEW u \in DOMAIN arg_data'
        PROVE  \E k \in DOMAIN offset_sizes' : u \in Span(k)'
                 /\ arg_data'[u] = <<offset_sizes'[k][1], u - offset_sizes'[k][1] + 1>>
    <3>1. CASE u \in covered
      <4>1. n + 1 \in DOMAIN offset_sizes' BY <1>2, <1>3
      <4>2. arg_data'[u] = <<offset_sizes'[n + 1][1], u - offset_sizes'[n + 1][1] + 1>>
        BY <3>1, <1>1, <1>3
      <4>. QED BY <4>1, <4>2, <3>1, <2>1
    <3>2. CASE u \notin covered
      <4>1. PICK k \in 1..n : u \in Span(k)
              /\ arg_data[u] = <<offset_sizes[k][1], u - offset_sizes[k][1] + 1>>
        BY <3>2, <1>1, <1>2 DEF SetupInv, BufferRight
      <4>2. k \in DOMAIN offset_sizes' BY <1>2, <1>3
      <4>. QED BY <4>1, <4>2, <3>2, <2>2, <1>1, <1>3
    <3>. QED BY <3>1, <3>2
  <2>. QED BY <1>3, <2>3, <2>4 DEF BufferRight
<1>5. KernelRight' BY <1>1, KernelKept DEF SetupInv
<1>6. SetupTyped'
  <2>1. \A k \in DOMAIN offset_sizes' : offset_sizes'[k] \in Offsets \X ArgSizes
    BY <1>4, ElementOfSeq DEF BufferRight
  <2>. QED BY <1>1, <2>1 DEF SetupInv, SetupTyped, Setup!TypeOK
<1>7. Ordered' /\ SlotsRight' /\ Setup!RightlyRefused'
  BY <1>1 DEF Ordered, SlotsRight, Setup!RightlyRefused
<1>. QED BY <1>4, <1>5, <1>6, <1>7 DEF SetupInv

(* The checks before the loop, and the sort. *)
LEMMA CheckStep == ASSUME SetupInv, Setup!Check PROVE SetupInv'
<1>1. /\ pc = "check" /\ i' = 1
      /\ UNCHANGED <<backend, info, truth, api, shared, arg_data, slots, faulted>>
  BY DEF Setup!Check, Setup!Setup
<1>2. KernelRight' BY <1>1, KernelKept DEF SetupInv
<1>3. CASE api = "new" /\ pc' = "set" /\ UNCHANGED offset_sizes
  <2>1. SetupTyped' BY <1>1, <1>3 DEF SetupInv, SetupTyped, Setup!TypeOK
  <2>2. BufferRight' BY <1>1, <1>3, BufferKept DEF SetupInv
  <2>3. Ordered' /\ Setup!RightlyRefused' BY <1>1, <1>3 DEF Ordered, Setup!RightlyRefused
  <2>4. SlotsRight'
    BY <1>1, <1>2, <1>3 DEF SlotsRight, KernelRight
  <2>. QED BY <1>2, <2>1, <2>2, <2>3, <2>4 DEF SetupInv
<1>4. CASE api = "old" /\ Setup!Incomplete /\ pc' = "refused" /\ UNCHANGED offset_sizes
  <2>1. SetupTyped'
    BY <1>1, <1>4 DEF SetupInv, SetupTyped, Setup!TypeOK, Setup!Outcomes
  <2>2. BufferRight' BY <1>1, <1>4, BufferKept DEF SetupInv
  <2>3. Ordered' /\ SlotsRight' BY <1>4 DEF Ordered, SlotsRight
  <2>4. ~Setup!Proper'
    BY <1>1, <1>4 DEF SetupInv, KernelRight, Setup!Incomplete, Setup!Proper, Setup!NumLocals
  <2>5. Setup!RightlyRefused' BY <2>4 DEF Setup!RightlyRefused
  <2>. QED BY <1>2, <2>1, <2>2, <2>3, <2>5 DEF SetupInv
<1>5. CASE /\ api = "old" /\ ~Setup!Incomplete /\ offset_sizes = <<>>
           /\ pc' = "append" /\ UNCHANGED offset_sizes
  <2>1. SetupTyped' BY <1>1, <1>5 DEF SetupInv, SetupTyped, Setup!TypeOK
  <2>2. BufferRight' BY <1>1, <1>5, BufferKept DEF SetupInv
  <2>3. Ordered'
    BY <1>1, <1>5 DEF Ordered, Setup!Incomplete, Setup!NumLocals
  <2>4. SlotsRight'
    <3>1. Len(info) = Setup!NumLocals BY <1>5, Locals DEF SetupInv, Setup!Incomplete
    <3>2. \A j \in DOMAIN truth : IsLocal(j)
      BY <3>1, Locals DEF SetupInv, KernelRight
    <3>3. \A j \in DOMAIN truth' : IsLocal(j)' BY <1>1, <3>2 DEF IsLocal
    <3>4. Setup!LocalLeftAsItWas' BY <1>1, <1>5 DEF Setup!LocalLeftAsItWas
    <3>. QED BY <1>5, <3>3, <3>4 DEF SlotsRight
  <2>5. Setup!RightlyRefused' BY <1>5 DEF Setup!RightlyRefused
  <2>. QED BY <1>2, <2>1, <2>2, <2>3, <2>4, <2>5 DEF SetupInv
<1>6. ASSUME api = "old", ~Setup!Incomplete, offset_sizes # <<>>,
             NEW s \in Setup!Sorted, offset_sizes' = s,
             pc' = IF Setup!Invalid(s) THEN "refused" ELSE "set"
      PROVE  SetupInv'
  <2>1. /\ s \in Seq(Offsets \X ArgSizes)
        /\ DOMAIN s = DOMAIN offset_sizes /\ Len(s) = Len(offset_sizes)
        /\ \A k \in DOMAIN s : \E m \in DOMAIN s : s[k] = offset_sizes[m]
        /\ \A k \in DOMAIN s : \E m \in DOMAIN s : offset_sizes[k] = s[m]
        /\ \A k, m \in DOMAIN s : k < m => s[k][1] <= s[m][1]
    BY <1>6, SortedIs DEF SetupInv
  <2>2. /\ Len(s) \in Nat \ {0} /\ DOMAIN s = 1..Len(s)
        /\ \A k \in DOMAIN s : s[k] \in Offsets \X ArgSizes /\ s[k][1] \in Nat /\ s[k][2] \in Nat
    <3>1. Len(s) \in Nat \ {0} BY <1>6, <2>1
    <3>. QED BY <2>1, <3>1, Pairs DEF SetupInv
  <2>. DEFINE K == DOMAIN s
              at(k) == s[k][1]
              size(k) == s[k][2]
  <2>8. \A k \in K : at(k) \in Nat /\ size(k) \in Nat BY <2>2
  <2>9. \A k, m \in K : k < m => at(k) <= at(m) BY <2>1
  <2>3. SetupTyped'
    BY <1>1, <1>6, <2>2 DEF SetupInv, SetupTyped, Setup!TypeOK, Setup!Outcomes
  <2>4. BufferRight'
    <3>1. \A k \in DOMAIN s : Span(k)' = s[k][1]..(s[k][1] + s[k][2] - 1)
      BY <1>6 DEF Span
    <3>2. ASSUME NEW k \in DOMAIN s PROVE Span(k)' \subseteq DOMAIN arg_data'
      <4>1. PICK m \in DOMAIN s : s[k] = offset_sizes[m] BY <2>1
      <4>2. Span(m) \subseteq DOMAIN arg_data BY <2>1 DEF SetupInv, BufferRight
      <4>. QED BY <1>1, <3>1, <4>1, <4>2 DEF Span
    <3>3. ASSUME NEW u \in DOMAIN arg_data'
          PROVE  \E k \in DOMAIN s :
                   u \in Span(k)' /\ arg_data'[u] = <<s[k][1], u - s[k][1] + 1>>
      <4>1. PICK m \in DOMAIN offset_sizes : u \in Span(m)
              /\ arg_data[u] = <<offset_sizes[m][1], u - offset_sizes[m][1] + 1>>
        BY <1>1 DEF SetupInv, BufferRight
      <4>2. PICK k \in DOMAIN s : offset_sizes[m] = s[k] BY <2>1
      <4>. QED BY <1>1, <3>1, <4>1, <4>2 DEF Span
    <3>. QED BY <1>6, <2>1, <3>2, <3>3 DEF BufferRight
  <2>5. SlotsRight' BY <1>1, <1>2, <1>6 DEF SlotsRight, KernelRight
  <2>6. CASE Setup!Invalid(s)
    <3>1. ~Setup!Proper'
      <4>. SUFFICES ASSUME Setup!Proper' PROVE FALSE OBVIOUS
      <4>1. 0 \in Setup!OffsetsSetUp'
        BY <1>1, <1>6, <2>2 DEF Setup!Proper
      <4>2. \E k \in K : at(k) = 0
        BY <1>6, <4>1 DEF Setup!OffsetsSetUp
      <4>3. ASSUME NEW k \in K, NEW m \in K
            PROVE  /\ size(k) > 0
                   /\ k # m => at(k) + size(k) <= at(m) \/ at(m) + size(m) <= at(k)
        BY <1>1, <1>6 DEF Setup!Proper
      <4>5. at(1) = 0 /\ size(1) # 0
        <5>1. 1 \in K BY <2>2
        <5>2. PICK k \in K : at(k) = 0 BY <4>2
        <5>3. k = 1 \/ 1 < k BY <2>2
        <5>4. at(1) <= at(k) BY <2>8, <2>9, <5>1, <5>3
        <5>5. size(1) > 0 BY <4>3, <5>1
        <5>. HIDE DEF K, at, size
        <5>. QED BY <2>8, <5>1, <5>2, <5>4, <5>5
      <4>6. ASSUME NEW k \in 2..Len(s)
            PROVE  at(k) # 0 /\ size(k) # 0 /\ at(k - 1) + size(k - 1) <= at(k)
        <5>. DEFINE l == k - 1
        <5>1. k \in K /\ l \in K /\ l < k /\ l # k BY <2>2
        <5>2. at(l) <= at(k) BY <2>9, <5>1
        <5>3. size(l) > 0 /\ size(k) > 0 BY <4>3, <5>1
        <5>4. at(l) + size(l) <= at(k) \/ at(k) + size(k) <= at(l) BY <4>3, <5>1
        <5>5. at(k) \in Nat /\ size(k) \in Nat /\ at(l) \in Nat /\ size(l) \in Nat
          BY <2>8, <5>1
        <5>6. at(l) + size(l) <= at(k) /\ at(k) # 0 /\ size(k) # 0
          <6>. HIDE DEF at, size, l
          <6>. QED BY <5>2, <5>3, <5>4, <5>5
        <5>. QED BY <5>6
      <4>4. \A k \in 2..Len(s) :
              s[k - 1][1] \in Nat /\ s[k - 1][2] \in Nat /\ s[k][1] \in Nat
        BY <2>2
      <4>. QED BY <2>6, <4>5, <4>6, <4>4 DEF Setup!Invalid
    <3>2. Setup!RightlyRefused' BY <3>1 DEF Setup!RightlyRefused
    <3>3. Ordered' BY <1>6, <2>6 DEF Ordered
    <3>. QED BY <1>2, <2>3, <2>4, <2>5, <3>2, <3>3 DEF SetupInv
  <2>7. CASE ~Setup!Invalid(s)
    <3>1. ASSUME NEW k \in DOMAIN s, NEW m \in DOMAIN s, k < m
          PROVE  s[k][1] < s[m][1] /\ s[k][1] + s[k][2] <= s[m][1]
      <4>. DEFINE l == k + 1
      <4>1. l \in 2..Len(s) /\ l \in DOMAIN s /\ (l = m \/ l < m) BY <2>2, <3>1
      <4>2. s[k][2] # 0
        <5>1. CASE k = 1 BY <2>7, <5>1 DEF Setup!Invalid
        <5>2. CASE k # 1
          <6>1. k \in 2..Len(s) BY <2>2, <5>2
          <6>. QED BY <2>7, <6>1 DEF Setup!Invalid
        <5>. QED BY <5>1, <5>2
      <4>3. s[k][1] + s[k][2] <= s[l][1]
        <5>1. ~(s[l - 1][1] + s[l - 1][2] > s[l][1]) BY <2>7, <4>1 DEF Setup!Invalid
        <5>2. l - 1 = k BY <2>2
        <5>. QED BY <2>2, <4>1, <5>1, <5>2
      <4>4. s[l][1] <= s[m][1] BY <2>8, <2>9, <4>1
      <4>. HIDE DEF l
      <4>. QED BY <2>2, <4>1, <4>2, <4>3, <4>4
    <3>2. Ordered'
      BY <1>1, <1>6, <2>1, <3>1 DEF Ordered, Setup!Incomplete, Setup!NumLocals
    <3>3. Setup!RightlyRefused' BY <1>6, <2>7 DEF Setup!RightlyRefused
    <3>. QED BY <1>2, <2>3, <2>4, <2>5, <3>2, <3>3 DEF SetupInv
  <2>. QED BY <2>6, <2>7
<1>7. api \in {"old", "new"} BY DEF SetupInv, SetupTyped, Setup!TypeOK
<1>. QED BY <1>3, <1>4, <1>5, <1>6, <1>7 DEF Setup!Check

-----------------------------------------------------------------------------
(* The driver takes a value for slot i, which is the right one: the loop   *)
(* goes on.                                                                *)
LEMMA SlotSet ==
  ASSUME SetupInv, pc = "set", i \in DOMAIN truth, NEW units,
         slots' = [slots EXCEPT ![i] = Setup!Value(units)], i' = i + 1,
         UNCHANGED <<backend, info, truth, api, shared, arg_data, offset_sizes, pc, faulted>>,
         NEW a \in Offsets \cup 1..Len(truth), Setup!MeantFor(a, i),
         units = Setup!Whole(a, truth[i].size)
  PROVE  SetupInv'
<1>1. KernelRight'
  <2>1. DOMAIN slots' = DOMAIN slots /\ Len(slots') = Len(slots)
    BY DEF SetupInv, KernelRight
  <2>. QED BY <2>1, KernelKept DEF SetupInv
<1>2. SetupTyped'
  <2>1. \A j \in DOMAIN slots' : slots'[j].kind \in {"unset", "stale", "value", "local"}
    BY DEF SetupInv, SetupTyped, Setup!TypeOK, Setup!Value
  <2>. QED BY <1>1, <2>1 DEF SetupInv, SetupTyped, Setup!TypeOK, KernelRight
<1>3. BufferRight' BY BufferKept DEF SetupInv
<1>4. Ordered' BY DEF SetupInv, Ordered, Setup!NumLocals
<1>5. SlotsRight'
  <2>. SUFFICES ASSUME NEW j \in DOMAIN truth, j < i + 1, ~IsLocal(j) PROVE SlotRight(j)'
    BY DEF SlotsRight, IsLocal, SetupInv, SetupTyped, KernelRight, Setup!TypeOK
  <2>1. CASE j = i
    <3>1. slots'[j] = Setup!Value(Setup!Whole(a, truth[j].size))
      BY <2>1 DEF SetupInv, KernelRight
    <3>2. Setup!MeantFor(a, j)' BY <2>1 DEF Setup!MeantFor, Setup!OffsetsSetUp, Setup!Rank
    <3>. QED BY <3>1, <3>2 DEF SlotRight, Setup!Value, Setup!Whole
  <2>2. CASE j # i
    <3>1. ~(j >= i) /\ slots'[j] = slots[j]
      BY <2>2 DEF SetupInv, SetupTyped, Setup!TypeOK, KernelRight
    <3>2. SlotRight(j) BY <3>1 DEF SetupInv, SlotsRight
    <3>. QED BY <3>1, <3>2, SlotKept
  <2>. QED BY <2>1, <2>2
<1>6. Setup!RightlyRefused' BY DEF Setup!RightlyRefused
<1>. QED BY <1>1, <1>2, <1>3, <1>4, <1>5, <1>6 DEF SetupInv

(* A launch that is refused, or goes down, for a reason. *)
LEMMA Refused ==
  ASSUME SetupInv, pc' \in {"refused", "crash"}, UNCHANGED slots, i' \in Nat,
         UNCHANGED <<backend, info, truth, api, shared, arg_data, offset_sizes>>,
         faulted' \/ ~Setup!Proper \/ ~Setup!Exact \/ Setup!Unserved,
         pc # "none", UNCHANGED faulted \/ faulted'
  PROVE  SetupInv'
<1>1. KernelRight' BY KernelKept DEF SetupInv
<1>2. SetupTyped' BY DEF SetupInv, SetupTyped, Setup!TypeOK, Setup!Outcomes
<1>3. BufferRight' BY BufferKept DEF SetupInv
<1>4. Ordered' /\ SlotsRight' BY DEF Ordered, SlotsRight
<1>5. Setup!RightlyRefused'
  <2>1. ~Setup!Proper => ~Setup!Proper'
    BY DEF Setup!Proper, Setup!NumLocals, Setup!OffsetsSetUp, Setup!Rank
  <2>2. ~Setup!Exact => ~Setup!Exact' BY DEF Setup!Exact
  <2>3. Setup!Unserved => faulted' \/ Setup!Unserved'
    BY DEF Setup!Unserved, Setup!HasLocal, Setup!Last, Setup!LocalLeftAsItWas,
           Setup!OtherPointer
  <2>. QED BY <2>1, <2>2, <2>3 DEF Setup!RightlyRefused
<1>. QED BY <1>1, <1>2, <1>3, <1>4, <1>5 DEF SetupInv

(* The new way, one turn of the loop. *)
LEMMA ArrayStep == ASSUME SetupInv, Setup!SetFromArray PROVE SetupInv'
<1>1. /\ pc = "set" /\ i <= Len(info) /\ api = "new"
      /\ UNCHANGED <<backend, info, truth, api, shared, arg_data, offset_sizes, faulted>>
  BY DEF Setup!SetFromArray, Setup!InLoop, Setup!Setup
<1>2. i \in DOMAIN info /\ i \in Nat /\ DOMAIN truth = DOMAIN info /\ DOMAIN slots = DOMAIN info
      /\ info[i].space = truth[i].space /\ Len(truth) = Len(info)
  BY <1>1 DEF SetupInv, SetupTyped, Setup!TypeOK, KernelRight
<1>5. CASE backend = "opencl" /\ Setup!OtherPointer(i)
  <2>1. pc' = "crash" /\ UNCHANGED <<slots, i>> BY <1>5 DEF Setup!SetFromArray
  <2>2. Setup!Unserved BY <1>2, <1>5 DEF Setup!Unserved
  <2>. QED BY <1>1, <1>2, <2>1, <2>2, Refused
<1>3. CASE ~(backend = "opencl" /\ Setup!OtherPointer(i)) /\ info[i].space # "Local"
  <2>. DEFINE units == Setup!Whole(i, info[i].size)
  <2>1. Setup!SetSlot(units) BY <1>3 DEF Setup!SetFromArray
  <2>2. Len(units) = info[i].size
    <3>1. info[i] \in Parser!ArgTypeInfo
      BY <1>2, ElementOfSeq DEF SetupInv, KernelRight
    <3>2. info[i].size \in Nat BY <3>1 DEF Parser!ArgTypeInfo
    <3>. QED BY <3>2 DEF Setup!Whole
  <2>3. CASE Setup!DriverTakes(i, units)
    <3>1. slots' = [slots EXCEPT ![i] = Setup!Value(units)] /\ i' = i + 1 /\ UNCHANGED pc
      BY <2>1, <2>3 DEF Setup!SetSlot
    <3>2. units = Setup!Whole(i, truth[i].size) BY <2>2, <2>3 DEF Setup!DriverTakes
    <3>3. Setup!MeantFor(i, i) /\ i \in 1..Len(truth)
      BY <1>1, <1>2 DEF Setup!MeantFor, SetupInv, KernelRight
    <3>. HIDE DEF units
    <3>. QED BY <1>1, <1>2, <3>1, <3>2, <3>3, SlotSet
  <2>4. CASE ~Setup!DriverTakes(i, units)
    <3>1. pc' = "refused" /\ UNCHANGED <<slots, i>> BY <2>1, <2>4 DEF Setup!SetSlot
    <3>2. ~Setup!Exact
      BY <1>2, <1>3, <2>2, <2>4 DEF Setup!DriverTakes, Setup!Exact
    <3>. QED BY <1>1, <1>2, <3>1, <3>2, Refused
  <2>. QED BY <2>3, <2>4
<1>4. CASE ~(backend = "opencl" /\ Setup!OtherPointer(i)) /\ info[i].space = "Local"
  <2>1. IsLocal(i) /\ Setup!HasLocal BY <1>2, <1>4, Locals DEF IsLocal, SetupInv
  <2>2. CASE i' = i + 1 /\ slots' = [slots EXCEPT ![i] = Setup!Stale] /\ UNCHANGED pc
    <3>1. DOMAIN slots' = DOMAIN slots /\ Len(slots') = Len(slots)
      BY <2>2 DEF SetupInv, KernelRight
    <3>2. KernelRight' BY <1>1, <3>1, KernelKept DEF SetupInv
    <3>3. SetupTyped'
      <4>1. \A j \in DOMAIN slots' : slots'[j].kind \in {"unset", "stale", "value", "local"}
        BY <2>2 DEF SetupInv, SetupTyped, Setup!TypeOK, Setup!Stale
      <4>. QED BY <1>1, <1>2, <2>2, <3>2, <4>1 DEF SetupInv, SetupTyped, Setup!TypeOK, KernelRight
    <3>4. BufferRight' BY <1>1, BufferKept DEF SetupInv
    <3>5. Ordered' /\ Setup!RightlyRefused'
      BY <1>1, <2>2 DEF Ordered, Setup!RightlyRefused
    <3>6. SlotsRight'
      <4>. SUFFICES ASSUME NEW j \in DOMAIN truth, j < i + 1, ~IsLocal(j) PROVE SlotRight(j)'
        BY <1>1, <1>2, <2>2 DEF SlotsRight, IsLocal, SetupInv, KernelRight
      <4>1. j # i /\ ~(j >= i) /\ slots'[j] = slots[j]
        BY <1>2, <2>1, <2>2 DEF SetupInv, KernelRight
      <4>2. SlotRight(j) BY <1>1, <4>1 DEF SetupInv, SlotsRight
      <4>. QED BY <1>1, <4>1, <4>2, SlotKept
    <3>. QED BY <3>2, <3>3, <3>4, <3>5, <3>6 DEF SetupInv
  <2>3. CASE pc' \in {"refused", "crash"} /\ UNCHANGED <<slots, i>>
    <3>1. Setup!Unserved BY <1>1, <2>1 DEF Setup!Unserved
    <3>. QED BY <1>1, <1>2, <2>3, <3>1, Refused
  <2>. QED BY <1>4, <2>2, <2>3 DEF Setup!SetFromArray
<1>. QED BY <1>3, <1>4, <1>5

(* The old way, one turn of the loop: what lies at the offset is the       *)
(* argument that was set up there, as the arguments lie apart.             *)
LEMMA BufferStep == ASSUME SetupInv, Setup!SetFromBuffer PROVE SetupInv'
<1>. DEFINE offset == offset_sizes[i][1]
            size == offset_sizes[i][2]
            units == [n \in 1..size |-> arg_data[offset + n - 1]]
<1>1. /\ pc = "set" /\ i <= Len(offset_sizes) /\ api = "old" /\ i \in Nat /\ i > 0
      /\ UNCHANGED <<backend, info, truth, api, shared, arg_data, offset_sizes, faulted>>
  BY DEF Setup!SetFromBuffer, Setup!InLoop, Setup!Setup, SetupInv, SetupTyped, Setup!TypeOK
<1>2. /\ Len(offset_sizes) + Setup!NumLocals = Len(info)
      /\ \A k, m \in DOMAIN offset_sizes :
           k < m => /\ offset_sizes[k][1] < offset_sizes[m][1]
                    /\ offset_sizes[k][1] + offset_sizes[k][2] <= offset_sizes[m][1]
  BY <1>1 DEF SetupInv, Ordered
<1>3. /\ i \in DOMAIN offset_sizes /\ offset \in Offsets /\ offset \in Nat /\ size \in Nat
      /\ Len(offset_sizes) \in Nat
  <2>1. i \in DOMAIN offset_sizes BY <1>1, Pairs DEF SetupInv
  <2>. QED BY <2>1, Pairs DEF SetupInv
<1>4. /\ i \in DOMAIN info /\ DOMAIN truth = DOMAIN info /\ ~IsLocal(i)
      /\ Len(truth) = Len(info)
  <2>1. Len(info) \in Nat /\ DOMAIN info = 1..Len(info) /\ DOMAIN truth = DOMAIN info
        /\ Setup!NumLocals = (IF Setup!HasLocal THEN 1 ELSE 0)
    BY Locals DEF SetupInv, KernelRight
  <2>2. PICK n \in Nat, l \in Nat : n = Len(offset_sizes) /\ l = Len(info)
    BY <1>3, <2>1
  <2>3. i <= l /\ (Setup!HasLocal => i # l)
    <3>1. CASE Setup!HasLocal
      <4>1. n + 1 = l BY <1>2, <2>1, <2>2, <3>1
      <4>. QED BY <1>1, <2>2, <4>1
    <3>2. CASE ~Setup!HasLocal
      <4>1. n + 0 = l BY <1>2, <2>1, <2>2, <3>2
      <4>. QED BY <1>1, <2>2, <3>2, <4>1
    <3>. QED BY <3>1, <3>2
  <2>4. i \in DOMAIN info
    <3>1. i \in Nat /\ i > 0 BY <1>1
    <3>2. i \in 1..l BY <2>3, <3>1
    <3>3. DOMAIN info = 1..l BY <2>1, <2>2
    <3>. QED BY <3>2, <3>3
  <2>5. ~(Setup!HasLocal /\ i = Len(info)) BY <2>2, <2>3
  <2>. QED BY <2>1, <2>4, <2>5, Locals DEF SetupInv, KernelRight
<1>5. Setup!Rank(offset) = i BY <1>2, <1>3, Ranks DEF SetupInv
<1>6. ASSUME Setup!Proper PROVE size = truth[i].size
  BY <1>1, <1>3, <1>5, <1>6 DEF Setup!Proper
<1>7. CASE info[i].type = "Pointer" /\ (Setup!OtherPointer(i) \/ size # info[i].size)
  <2>1. pc' = "crash" /\ UNCHANGED <<slots, i>> BY <1>7 DEF Setup!SetFromBuffer
  <2>2. ~Setup!Proper \/ ~Setup!Exact \/ Setup!Unserved
    BY <1>1, <1>4, <1>6, <1>7 DEF Setup!Exact, Setup!Unserved
  <2>. QED BY <1>1, <2>1, <2>2, Refused
<1>8. CASE ~(info[i].type = "Pointer" /\ (Setup!OtherPointer(i) \/ size # info[i].size))
  <2>1. Setup!SetSlot(units) BY <1>8 DEF Setup!SetFromBuffer
  <2>2. Len(units) = size BY <1>3
  <2>3. CASE Setup!DriverTakes(i, units)
    <3>1. slots' = [slots EXCEPT ![i] = Setup!Value(units)] /\ i' = i + 1 /\ UNCHANGED pc
      BY <2>1, <2>3 DEF Setup!SetSlot
    <3>2. units = Setup!Whole(offset, truth[i].size)
      <4>1. truth[i].size = size BY <2>2, <2>3 DEF Setup!DriverTakes
      <4>2. ASSUME NEW n \in 1..size PROVE arg_data[offset + n - 1] = <<offset, n>>
        <5>. DEFINE u == offset + n - 1
        <5>1. u \in Span(i) /\ u \in Nat BY <1>3 DEF Span
        <5>2. u \in DOMAIN arg_data BY <1>3, <5>1 DEF SetupInv, BufferRight
        <5>. HIDE DEF u
        <5>3. PICK k \in DOMAIN offset_sizes : u \in Span(k)
                /\ arg_data[u] = <<offset_sizes[k][1], u - offset_sizes[k][1] + 1>>
          BY <5>2 DEF SetupInv, BufferRight
        <5>4. k = i
          <6>1. offset_sizes[k][1] \in Nat /\ offset_sizes[k][2] \in Nat /\ k \in Nat
            BY Pairs DEF SetupInv
          <6>4. /\ offset_sizes[k][1] <= u /\ u < offset_sizes[k][1] + offset_sizes[k][2]
                /\ offset <= u /\ u < offset + size
            <7>1. /\ u \in offset_sizes[k][1]..(offset_sizes[k][1] + offset_sizes[k][2] - 1)
                  /\ u \in offset..(offset + size - 1)
              BY <5>1, <5>3 DEF Span
            <7>. HIDE DEF offset, size
            <7>. QED BY <5>1, <6>1, <1>3, <7>1
          <6>2. CASE k < i
            <7>1. offset_sizes[k][1] + offset_sizes[k][2] <= offset BY <6>2, <1>2, <1>3
            <7>. QED BY <5>1, <6>1, <6>4, <7>1, <1>3
          <6>3. CASE i < k
            <7>1. offset + size <= offset_sizes[k][1] BY <6>3, <1>2, <1>3
            <7>. QED BY <5>1, <6>1, <6>4, <7>1, <1>3
          <6>. QED BY <1>1, <6>1, <6>2, <6>3
        <5>5. u - offset + 1 = n BY <1>3 DEF u
        <5>. QED BY <5>3, <5>4, <5>5 DEF u
      <4>. QED BY <4>1, <4>2 DEF Setup!Whole
    <3>3. Setup!MeantFor(offset, i)
      BY <1>1, <1>3, <1>5 DEF Setup!MeantFor, Setup!OffsetsSetUp
    <3>. HIDE DEF units, offset
    <3>. QED BY <1>1, <1>3, <1>4, <3>1, <3>2, <3>3, SlotSet
  <2>4. CASE ~Setup!DriverTakes(i, units)
    <3>1. pc' = "refused" /\ UNCHANGED <<slots, i>> BY <2>1, <2>4 DEF Setup!SetSlot
    <3>2. ~Setup!Proper
      BY <1>4, <1>6, <2>2, <2>4 DEF Setup!DriverTakes, IsLocal
    <3>. QED BY <1>1, <3>1, <3>2, Refused
  <2>. QED BY <2>3, <2>4
<1>. QED BY <1>7, <1>8

-----------------------------------------------------------------------------
(* After the loop every slot but the local one is right. *)
LEMMA LoopEndsStep == ASSUME SetupInv, Setup!LoopEnds PROVE SetupInv'
<1>1. /\ pc = "set" /\ ~(i <= IF api = "new" THEN Len(info) ELSE Len(offset_sizes))
      /\ pc' = "local" /\ api \in {"old", "new"} /\ i \in Nat
      /\ UNCHANGED <<backend, info, truth, api, shared, arg_data, slots, offset_sizes, i, faulted>>
  BY DEF Setup!LoopEnds, Setup!InLoop, Setup!Setup, SetupInv, SetupTyped, Setup!TypeOK
<1>2. KernelRight' BY <1>1, KernelKept DEF SetupInv
<1>3. SetupTyped' BY <1>1 DEF SetupInv, SetupTyped, Setup!TypeOK
<1>4. BufferRight' BY <1>1, BufferKept DEF SetupInv
<1>5. Ordered' BY <1>1 DEF SetupInv, Ordered, Setup!NumLocals
<1>6. Setup!RightlyRefused' BY <1>1 DEF Setup!RightlyRefused
<1>7. SlotsRight'
  <2>. SUFFICES ASSUME NEW j \in DOMAIN truth, ~IsLocal(j) PROVE SlotRight(j)'
    BY <1>1 DEF SlotsRight, IsLocal
  <2>1. PICK l \in Nat : l = Len(info) /\ DOMAIN info = 1..l /\ DOMAIN truth = 1..l
    BY Locals DEF SetupInv, KernelRight
  <2>2. ~(j >= i)
    <3>1. CASE api = "new" BY <1>1, <2>1, <3>1
    <3>2. CASE api = "old"
      <4>1. PICK n \in Nat : n = Len(offset_sizes) BY Pairs DEF SetupInv
      <4>2. n + Setup!NumLocals = l BY <1>1, <2>1, <3>2, <4>1 DEF SetupInv, Ordered
      <4>3. i > n BY <1>1, <3>2, <4>1
      <4>4. CASE Setup!HasLocal
        <5>1. n + 1 = l BY <4>2, <4>4, Locals DEF SetupInv
        <5>2. j # l BY <2>1, <4>4, Locals DEF SetupInv
        <5>. QED BY <1>1, <2>1, <4>3, <5>1, <5>2
      <4>5. CASE ~Setup!HasLocal
        <5>1. n + 0 = l BY <4>2, <4>5, Locals DEF SetupInv
        <5>. QED BY <1>1, <2>1, <4>3, <5>1
      <4>. QED BY <4>4, <4>5
    <3>. QED BY <1>1, <3>1, <3>2
  <2>3. SlotRight(j) BY <1>1, <2>2 DEF SetupInv, SlotsRight
  <2>. QED BY <1>1, <2>3, SlotKept
<1>. QED BY <1>2, <1>3, <1>4, <1>5, <1>6, <1>7 DEF SetupInv

(* The size of the shared memory is set, or left as it was.                *)
LEMMA SharedStep ==
  ASSUME SetupInv, pc = "local", pc' = "append", i' \in Nat,
         UNCHANGED <<backend, info, truth, api, shared, arg_data, offset_sizes>>,
         \/ Setup!HasLocal /\ Setup!SetLocal
         \/ UNCHANGED slots /\ (Setup!HasLocal => Setup!LocalLeftAsItWas')
  PROVE  SetupInv'
<1>. DEFINE n == Len(slots)
<1>1. n \in Nat /\ n = Len(info) /\ DOMAIN slots = 1..n /\ DOMAIN info = 1..n /\ DOMAIN truth = 1..n
  BY Locals DEF SetupInv, KernelRight
<1>2. /\ DOMAIN slots' = DOMAIN slots /\ Len(slots') = Len(slots)
      /\ \A j \in DOMAIN slots : j # n => slots'[j] = slots[j]
  BY <1>1 DEF Setup!SetLocal
<1>3. KernelRight' BY <1>2, KernelKept DEF SetupInv
<1>4. SetupTyped'
  <2>1. \A j \in DOMAIN slots' : slots'[j].kind \in {"unset", "stale", "value", "local"}
    BY <1>1 DEF Setup!SetLocal, Setup!Local, SetupInv, SetupTyped, Setup!TypeOK
  <2>. QED BY <1>3, <2>1 DEF SetupInv, SetupTyped, Setup!TypeOK, KernelRight
<1>5. BufferRight' BY BufferKept DEF SetupInv
<1>6. Ordered' BY DEF SetupInv, Ordered, Setup!NumLocals
<1>7. Setup!RightlyRefused' BY DEF Setup!RightlyRefused
<1>8. ASSUME NEW j \in DOMAIN truth, ~IsLocal(j) PROVE SlotRight(j)'
  <2>1. SlotRight(j) BY <1>8 DEF SetupInv, SlotsRight
  <2>2. slots'[j] = slots[j]
    <3>1. CASE Setup!HasLocal
      <4>1. j # n BY <1>1, <1>8, <3>1, Locals DEF SetupInv
      <4>. QED BY <1>1, <1>2, <4>1
    <3>2. CASE ~Setup!HasLocal BY <3>2
    <3>. QED BY <3>1, <3>2
  <2>. QED BY <2>1, <2>2, SlotKept
<1>9. ASSUME NEW j \in DOMAIN truth, IsLocal(j)
      PROVE  slots'[j] = Setup!Local(shared)' \/ Setup!LocalLeftAsItWas'
  <2>1. Setup!HasLocal /\ j = n BY <1>1, <1>9, Locals DEF SetupInv
  <2>. QED BY <1>1, <2>1 DEF Setup!SetLocal, Setup!Local
<1>10. SlotsRight' BY <1>8, <1>9 DEF SlotsRight, IsLocal
<1>. QED BY <1>3, <1>4, <1>5, <1>6, <1>7, <1>10 DEF SetupInv

LEMMA SharedLevel0 == ASSUME SetupInv, Setup!SharedMemLevel0 PROVE SetupInv'
<1>1. /\ pc = "local" /\ backend = "level0" /\ pc' = "append" /\ i' = i /\ i \in Nat
      /\ UNCHANGED <<backend, info, truth, api, shared, arg_data, offset_sizes>>
  BY DEF Setup!SharedMemLevel0, Setup!Setup, SetupInv, SetupTyped, Setup!TypeOK
<1>2. CASE Setup!HasLocal
  <2>1. Setup!NumLocals = 1 BY <1>2, Locals DEF SetupInv
  <2>2. CASE Setup!SetLocal BY <1>1, <1>2, <2>2, SharedStep
  <2>3. CASE UNCHANGED slots
    <3>1. faulted' BY <2>1, <2>3 DEF Setup!SharedMemLevel0
    <3>2. Setup!LocalLeftAsItWas' BY <1>1, <3>1 DEF Setup!LocalLeftAsItWas
    <3>. QED BY <1>1, <2>3, <3>2, SharedStep
  <2>. QED BY <2>1, <2>2, <2>3 DEF Setup!SharedMemLevel0
<1>3. CASE ~Setup!HasLocal
  <2>1. Setup!NumLocals = 0 BY <1>3, Locals DEF SetupInv
  <2>2. UNCHANGED slots BY <2>1 DEF Setup!SharedMemLevel0
  <2>. QED BY <1>1, <1>3, <2>2, SharedStep
<1>. QED BY <1>2, <1>3

LEMMA SharedOpenCL == ASSUME SetupInv, Setup!SharedMemOpenCL PROVE SetupInv'
<1>1. /\ pc = "local" /\ backend = "opencl" /\ i' = i /\ i \in Nat /\ shared \in Nat
      /\ UNCHANGED <<backend, info, truth, api, shared, arg_data, offset_sizes, faulted>>
  BY DEF Setup!SharedMemOpenCL, Setup!Setup, SetupInv, SetupTyped, Setup!TypeOK
<1>2. CASE shared > 0 /\ info = <<>> /\ pc' # "append"
  <2>1. pc' \in {"refused", "crash"} /\ UNCHANGED slots
    BY <1>2 DEF Setup!SharedMemOpenCL, Setup!HasLocal
  <2>2. Setup!Unserved BY <1>1, <1>2 DEF Setup!Unserved
  <2>. QED BY <1>1, <2>1, <2>2, Refused
<1>3. CASE pc' = "append"
  <2>1. CASE shared > 0 /\ Setup!HasLocal
    <3>1. Setup!SetLocal BY <2>1 DEF Setup!SharedMemOpenCL
    <3>. QED BY <1>1, <1>3, <2>1, <3>1, SharedStep
  <2>2. CASE ~(shared > 0 /\ Setup!HasLocal)
    <3>1. UNCHANGED slots BY <2>2 DEF Setup!SharedMemOpenCL
    <3>2. Setup!HasLocal => Setup!LocalLeftAsItWas'
      BY <1>1, <2>2 DEF Setup!LocalLeftAsItWas
    <3>. QED BY <1>1, <1>3, <3>1, <3>2, SharedStep
  <2>. QED BY <2>1, <2>2
<1>. QED BY <1>2, <1>3 DEF Setup!SharedMemOpenCL

(* Handing the kernel to the queue: a slot that was never set is the local *)
(* one, left as it was.                                                    *)
LEMMA AppendStep == ASSUME SetupInv, Setup!AppendKernel PROVE SetupInv'
<1>1. /\ pc = "append" /\ i' = i /\ i \in Nat
      /\ UNCHANGED <<backend, info, truth, api, shared, arg_data, slots, offset_sizes, faulted>>
  BY DEF Setup!AppendKernel, Setup!Setup, SetupInv, SetupTyped, Setup!TypeOK
<1>2. CASE (\E j \in DOMAIN slots : slots[j] = Setup!Unset) /\ pc' = "refused"
  <2>1. PICK j \in DOMAIN slots : slots[j] = Setup!Unset BY <1>2
  <2>2. j \in DOMAIN truth BY DEF SetupInv, KernelRight
  <2>3. ~SlotRight(j)
    <3>1. \A u : Setup!Value(u).kind = "value" /\ Setup!Unset.kind = "unset"
      BY DEF Setup!Value, Setup!Unset
    <3>. QED BY <2>1, <3>1 DEF SlotRight
  <2>4. IsLocal(j) BY <1>1, <2>2, <2>3 DEF SetupInv, SlotsRight
  <2>5. slots[j] # Setup!Local(shared) BY <2>1 DEF Setup!Local, Setup!Unset
  <2>6. Setup!LocalLeftAsItWas BY <1>1, <2>2, <2>4, <2>5 DEF SetupInv, SlotsRight
  <2>7. Setup!Unserved BY <2>2, <2>4, <2>6, Locals DEF SetupInv, Setup!Unserved
  <2>. QED BY <1>1, <1>2, <2>7, Refused
<1>3. CASE pc' = "launched"
  <2>1. KernelRight' BY <1>1, KernelKept DEF SetupInv
  <2>2. SetupTyped' BY <1>1, <1>3 DEF SetupInv, SetupTyped, Setup!TypeOK, Setup!Outcomes
  <2>3. BufferRight' BY <1>1, BufferKept DEF SetupInv
  <2>4. Ordered' BY <1>1, <1>3 DEF SetupInv, Ordered, Setup!NumLocals
  <2>5. Setup!RightlyRefused' BY <1>3 DEF Setup!RightlyRefused
  <2>6. ASSUME NEW j \in DOMAIN truth, ~IsLocal(j) PROVE SlotRight(j)'
    <3>1. SlotRight(j) BY <1>1, <2>6 DEF SetupInv, SlotsRight
    <3>. QED BY <1>1, <3>1, SlotKept
  <2>7. ASSUME NEW j \in DOMAIN truth, IsLocal(j)
        PROVE  slots'[j] = Setup!Local(shared)' \/ Setup!LocalLeftAsItWas'
    BY <1>1, <2>7 DEF SetupInv, SlotsRight, Setup!Local, Setup!LocalLeftAsItWas
  <2>8. SlotsRight' BY <1>1, <1>3, <2>6, <2>7 DEF SlotsRight, IsLocal
  <2>. QED BY <2>1, <2>2, <2>3, <2>4, <2>5, <2>8 DEF SetupInv
<1>. QED BY <1>2, <1>3 DEF Setup!AppendKernel

LEMMA FailsStep == ASSUME SetupInv, Setup!DriverFails PROVE SetupInv'
<1>1. /\ pc \in {"set", "local"} /\ pc' = "refused" /\ faulted' /\ i' = i /\ i \in Nat
      /\ UNCHANGED <<backend, info, truth, api, shared, arg_data, slots, offset_sizes>>
  BY DEF Setup!DriverFails, Setup!InLoop, Setup!Setup, SetupInv, SetupTyped, Setup!TypeOK
<1>. QED BY <1>1, Refused

LEMMA LaunchStep == ASSUME SetupInv, Setup!Launch PROVE SetupInv'
<1>1. /\ pc = "setup" /\ pc' = "check"
      /\ UNCHANGED <<backend, info, truth, slots, api, shared, offset_sizes, arg_data, i, faulted>>
  BY DEF Setup!Launch, Setup!launch
<1>2. KernelRight' BY <1>1, KernelKept DEF SetupInv
<1>3. SetupTyped' BY <1>1 DEF SetupInv, SetupTyped, Setup!TypeOK
<1>4. BufferRight' BY <1>1, BufferKept DEF SetupInv
<1>5. Ordered' /\ SlotsRight' /\ Setup!RightlyRefused'
  BY <1>1 DEF Ordered, SlotsRight, Setup!RightlyRefused
<1>. QED BY <1>2, <1>3, <1>4, <1>5 DEF SetupInv

LEMMA SetupStutter == ASSUME SetupInv, UNCHANGED launching PROVE SetupInv'
<1>1. UNCHANGED <<backend, info, truth, slots, api, shared, offset_sizes, arg_data, pc, i, faulted>>
  BY DEF launching
<1>2. KernelRight' BY <1>1, KernelKept DEF SetupInv
<1>3. SetupTyped' BY <1>1 DEF SetupInv, SetupTyped, Setup!TypeOK
<1>4. BufferRight' BY <1>1, BufferKept DEF SetupInv
<1>5. Ordered' BY <1>1 DEF SetupInv, Ordered, Setup!NumLocals
<1>6. SlotsRight'
  <2>1. \A j : SlotRight(j) => SlotRight(j)'
    <3>1. ASSUME NEW j, SlotRight(j) PROVE SlotRight(j)' BY <1>1, <3>1, SlotKept
    <3>. QED BY <3>1
  <2>2. \A j : IsLocal(j)' <=> IsLocal(j) BY <1>1 DEF IsLocal
  <2>3. Setup!LocalLeftAsItWas => Setup!LocalLeftAsItWas'
    BY <1>1 DEF Setup!LocalLeftAsItWas
  <2>4. Setup!Local(shared)' = Setup!Local(shared) BY <1>1 DEF Setup!Local
  <2>. QED BY <1>1, <2>1, <2>2, <2>3, <2>4 DEF SetupInv, SlotsRight
<1>7. Setup!RightlyRefused'
  <2>1. ~Setup!Proper => ~Setup!Proper'
    BY <1>1 DEF Setup!Proper, Setup!NumLocals, Setup!OffsetsSetUp, Setup!Rank
  <2>2. ~Setup!Exact => ~Setup!Exact' BY <1>1 DEF Setup!Exact
  <2>3. Setup!Unserved => Setup!Unserved'
    BY <1>1 DEF Setup!Unserved, Setup!HasLocal, Setup!Last, Setup!LocalLeftAsItWas,
                Setup!OtherPointer
  <2>. QED BY <1>1, <2>1, <2>2, <2>3 DEF SetupInv, Setup!RightlyRefused
<1>. QED BY <1>2, <1>3, <1>4, <1>5, <1>6, <1>7 DEF SetupInv

LEMMA SetupNext == ASSUME ParserInv, SetupInv, [Next]_vars PROVE SetupInv'
<1>1. CASE UNCHANGED launching BY <1>1, SetupStutter
<1>2. ASSUME NEW f \in FunctionIds, NEW b \in Backends, Compile(f, b) PROVE SetupInv'
  BY <1>2, CompileStep
<1>3. CASE Setup!Next
  BY <1>3, ConfigureStep, SetArgStep, LaunchStep, CheckStep, ArrayStep, BufferStep,
     LoopEndsStep, SharedLevel0, SharedOpenCL, FailsStep, AppendStep
  DEF Setup!Next
<1>. QED BY <1>1, <1>2, <1>3 DEF Next, vars

THEOREM LaunchInvariant == Spec => []SetupInv
  BY ParserInit, ParserNext, SetupInit, SetupNext, PTL DEF Spec

(* A kernel that is launched has in every slot the argument meant for it,  *)
(* whole, of this launch; only the size of the shared memory may be an     *)
(* earlier one, where the code leaves it.                                  *)
THEOREM ArgumentsCorrect == Spec => []ArgumentsInPlace
<1>1. SetupInv => ArgumentsInPlace
  <2>. SUFFICES ASSUME SetupInv, pc = "launched" PROVE Setup!ArgumentsInPlace
    BY DEF ArgumentsInPlace, Setup!ArgumentsInPlace
  <2>1. \A j \in DOMAIN truth : IsLocal(j) \/ SlotRight(j) BY DEF SetupInv, SlotsRight
  <2>2. \A j \in DOMAIN truth :
          IsLocal(j) => slots[j] = Setup!Local(shared) \/ Setup!LocalLeftAsItWas
    BY DEF SetupInv, SlotsRight
  <2>. QED BY <2>1, <2>2 DEF Setup!ArgumentsInPlace, IsLocal, SlotRight
<1>. QED BY <1>1, LaunchInvariant, PTL

(* A launch with proper arguments is not refused, and nothing goes down    *)
(* over it, but for the cases the code does not serve.                     *)
THEOREM RefusalsCorrect == Spec => []RightlyRefused
<1>1. SetupInv => RightlyRefused BY DEF SetupInv, RightlyRefused
<1>. QED BY <1>1, LaunchInvariant, PTL

(* std::sort always has a result: the launch gets past its checks whatever *)
(* hipSetupArgument was called with.                                       *)
THEOREM SortableAlways == Spec => [](Setup!Sorted # {})
<1>1. SetupInv => Setup!Sorted # {} BY SortExists DEF SetupInv
<1>. QED BY <1>1, LaunchInvariant, PTL

(* The types of both parts: the parser's tables are well formed, and the   *)
(* kernel object has a slot for each parameter the table lists.            *)
THEOREM TypesCorrect == Spec => []StateOK
<1>1. ParserInv => Parser!TypeOK
  <2>. SUFFICES ASSUME ParserInv PROVE Parser!TypeOK OBVIOUS
  <2>1. \A id \in DOMAIN typeMap : typeMap[id] \in Parser!ArgTypeInfo \cup {Parser!Null}
    BY DEF ParserInv, TypesRight, EntryRight
  <2>2. ASSUME NEW ft \in DOMAIN functionTypeMap
        PROVE  functionTypeMap[ft] \in Seq(Parser!ArgTypeInfo)
    <3>. DEFINE params == signature[ft].params
    <3>1. /\ params \in Seq(DOMAIN typeMap)
          /\ functionTypeMap[ft] = [j \in DOMAIN params |-> typeMap[params[j]]]
          /\ \A j \in DOMAIN params : typeMap[params[j]] # Parser!Null
      BY DEF ParserInv, FunctionsRight
    <3>. HIDE DEF params
    <3>2. \A j \in DOMAIN params : typeMap[params[j]] \in Parser!ArgTypeInfo
      BY <2>1, <3>1
    <3>. QED BY <3>1, <3>2
  <2>3. DOMAIN func_infos \subseteq FunctionIds
    BY DEF ParserInv, AnswerRight
  <2>. QED BY <2>1, <2>2, <2>3 DEF ParserInv, EntriesRight, AnswerRight, Parser!TypeOK
<1>2. SetupInv => Setup!TypeOK BY DEF SetupInv, SetupTyped
<1>3. ParserInv /\ SetupInv => StateOK BY <1>1, <1>2 DEF StateOK
<1>. QED BY <1>3, ParserInvariant, LaunchInvariant, PTL
=============================================================================
