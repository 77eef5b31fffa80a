----------------------------- MODULE SpirvModule -----------------------------
(***************************************************************************)
(* The parser that finds out which kernels a SPIR-V binary has and what    *)
(* their parameters are (parseSPIR and class SPIRVmodule).                 *)
(*                                                                         *)
(* The binary is read one instruction at a time, and each action is one    *)
(* turn of the loop in parseInstructionStream.  The environment writes the *)
(* binary as it is read: any module in the logical layout of SPIR-V, that  *)
(* is preamble, entry points, source, types, functions, in which an id is  *)
(* declared before it is used.  Instructions the parser has no case for    *)
(* change nothing and are left out.                                        *)
(*                                                                         *)
(* What the ids mean, by the SPIR-V and OpenCL specifications, is kept     *)
(* beside what the parser makes of them.  Sizes are in units of 4 bytes.   *)
(***************************************************************************)
EXTENDS Integers, Sequences, FiniteSets, Functions

CONSTANTS
  FunctionIds,  \* ids of functions
  Kinds,        \* bound: the kinds of types binaries declare
  Storages,     \* bound: the storage classes of their pointers
  MaxTypes,     \* bound: types in a binary
  MaxParts      \* bound: members of a struct, parameters of a function

VARIABLES
  flags,           \* headerOK, kernelCapab, extIntOpenCL, memModelCL, languageCL
  pointerSize,
  entryPoints,     \* ids of kernel entry points; the name goes with the id
  typeMap,         \* type id -> what decodeType made of it
  functionTypeMap, \* function type id -> its OCLFuncInfo
  entryToFunctionTypeIDMap,
  func_infos,      \* the result: kernel -> OCLFuncInfo
  outcome,         \* "reading", "true", "false" (parseSPIR's answer), "crash",
                   \* or "gone" after the call
  section,         \* where in the layout of the binary the reader is
  meaning,         \* type id -> the type it stands for
  signature,       \* function type id -> ids of the parameters' types
  body             \* function id -> its function type id, once defined

parser == <<flags, pointerSize, entryPoints, typeMap, functionTypeMap,
            entryToFunctionTypeIDMap, func_infos>>
binary == <<section, meaning, signature, body>>
vars == <<parser, outcome, binary>>

AllFlags == {"headerOK", "kernelCapab", "extIntOpenCL", "memModelCL", "languageCL"}
Spaces == {"Private", "Global", "Local", "Constant", "Unknown"}
ArgTypeInfo == [type : {"POD", "Pointer"}, size : Nat, space : Spaces]

(* decodeType's nullptr. *)
Null == [type |-> "none", size |-> 0, space |-> "Unknown"]

TypeOK ==
  /\ flags \subseteq AllFlags
  /\ pointerSize \in {0, 1, 2}
  /\ entryPoints \subseteq FunctionIds
  /\ \A id \in DOMAIN typeMap : typeMap[id] \in ArgTypeInfo \cup {Null}
  /\ \A id \in DOMAIN functionTypeMap : functionTypeMap[id] \in Seq(ArgTypeInfo)
  /\ DOMAIN entryToFunctionTypeIDMap \subseteq entryPoints
  /\ DOMAIN func_infos \subseteq FunctionIds
  /\ outcome \in {"reading", "true", "false", "crash", "gone"}
  /\ section \in 0..7
  /\ DOMAIN body \subseteq FunctionIds

NoMap == <<>>

Init ==
  /\ flags = {} /\ pointerSize = 0
  /\ entryPoints = {}
  /\ typeMap = NoMap /\ functionTypeMap = NoMap
  /\ entryToFunctionTypeIDMap = NoMap /\ func_infos = NoMap
  /\ outcome = "reading"
  /\ section = 0
  /\ meaning = NoMap /\ signature = NoMap /\ body = NoMap

-----------------------------------------------------------------------------
(* std::map::emplace: what is there stays. *)
Emplace(map, key, value) ==
  IF key \in DOMAIN map THEN map
  ELSE [k \in DOMAIN map \cup {key} |-> IF k = key THEN value ELSE map[k]]

(* What the OpenCL environment says of a type: its size and alignment, the *)
(* space a parameter of it is in, and whether it is one the parser does    *)
(* justice to.                                                             *)
Type(k, space, size, align, exact) ==
  [kind |-> k, space |-> space, size |-> size, align |-> align, exact |-> exact]

Data(size, align, exact) == Type("data", "Private", size, align, exact)

(* A struct: members at multiples of their alignment, and so the whole. *)
Aligned(n, a) == ((n + a - 1) \div a) * a
StructMeaning(parts) ==
  LET aligns == {1} \cup { parts[i].align : i \in DOMAIN parts }
      align == CHOOSE a \in aligns : \A b \in aligns : b <= a
      end[i \in 0..Len(parts)] ==
        IF i = 0 THEN 0
        ELSE Aligned(end[i - 1], parts[i].align) + parts[i].size
      size == Aligned(end[Len(parts)], align)
      packed == SumFunction([i \in DOMAIN parts |-> parts[i].size])
  IN  Data(size, align, size = packed /\ \A i \in DOMAIN parts : parts[i].exact)

OfKind(kinds) == { id \in DOMAIN meaning : meaning[id].kind \in kinds }
Sized == OfKind({"scalar", "data", "pointer"})
Lists(S) == UNION { [1..n -> S] : n \in 0..MaxParts }

(* Storage class of a pointer -> address space of the parameter. *)
ASpace(storage) ==
  CASE storage = "CrossWorkgroup" -> "Global"
    [] storage = "Workgroup" -> "Local"
    [] storage = "UniformConstant" -> "Constant"
    [] OTHER -> "Unknown"

POD(size) == [type |-> "POD", size |-> size, space |-> "Private"]
PointerTo(storage) ==
  [type |-> "Pointer", size |-> pointerSize, space |-> ASpace(storage)]
PointerMeaning(storage, exact) ==
  Type("pointer", ASpace(storage), pointerSize, IF pointerSize = 2 THEN 2 ELSE 1,
       exact)

-----------------------------------------------------------------------------
(* The reader gets to an instruction of a section of the layout. *)
In(s) == outcome = "reading" /\ section \in 1..s /\ section' = s

(* parseSPIRV looks at the magic number, the version and the reserved word.*)
ParseHeader(good) ==
  /\ outcome = "reading" /\ section = 0
  /\ section' = 1
  /\ flags' = IF good THEN {"headerOK"} ELSE {}
  /\ outcome' = IF good THEN "reading" ELSE "false"
  /\ UNCHANGED <<pointerSize, entryPoints, typeMap, functionTypeMap,
                 entryToFunctionTypeIDMap, func_infos, meaning, signature, body>>

(* OpCapability Kernel, OpExtInstImport "OpenCL.std", OpSource OpenCL.     *)
SetFlag(s, flag) ==
  /\ In(s)
  /\ flags' = flags \cup {flag}
  /\ UNCHANGED <<pointerSize, entryPoints, typeMap, functionTypeMap,
                 entryToFunctionTypeIDMap, func_infos, outcome, meaning,
                 signature, body>>
KernelCapability == SetFlag(1, "kernelCapab")
ExtInstImport == SetFlag(2, "extIntOpenCL")
LangOpenCL == SetFlag(5, "languageCL")

(* OpMemoryModel with model OpenCL: Physical64 or not. *)
MemoryModel(wide) ==
  /\ In(3) /\ section < 3
  /\ flags' = flags \cup {"memModelCL"}
  /\ pointerSize' = IF wide THEN 2 ELSE 1
  /\ UNCHANGED <<entryPoints, typeMap, functionTypeMap, entryToFunctionTypeIDMap,
                 func_infos, outcome, meaning, signature, body>>

(* OpEntryPoint Kernel. *)
EntryPoint(f) ==
  /\ In(4) /\ f \notin entryPoints
  /\ entryPoints' = entryPoints \cup {f}
  /\ UNCHANGED <<flags, pointerSize, typeMap, functionTypeMap,
                 entryToFunctionTypeIDMap, func_infos, outcome, meaning,
                 signature, body>>

-----------------------------------------------------------------------------
(* Types.  Void, scalars and function types are declared once.  Bounds: a  *)
(* binary that will be refused for its preamble declares at most one type; *)
(* void comes first and function types last.                               *)
TypeIds == DOMAIN meaning \cup DOMAIN signature
NewId == Cardinality(TypeIds) + 1
MayDeclare(kind) ==
  /\ kind \in Kinds
  /\ NewId <= IF flags = AllFlags THEN MaxTypes ELSE 1
  /\ kind = "void" <=> TypeIds = {}
  /\ DOMAIN signature = {}

DecodeType(kind, info, means) ==
  /\ In(6) /\ MayDeclare(kind)
  /\ typeMap' = Emplace(typeMap, NewId, info)
  /\ meaning' = Emplace(meaning, NewId, means)
  /\ UNCHANGED <<flags, pointerSize, entryPoints, functionTypeMap,
                 entryToFunctionTypeIDMap, func_infos, outcome, signature, body>>

(* typeMap[id]->size() where nothing was decoded: a null pointer is used. *)
Crash == 
  /\ outcome' = "crash"
  /\ UNCHANGED <<parser, meaning, signature, body>>
DecodeWith(ids, kind, info, means) ==
  \/ (\A id \in ids : typeMap[id] # Null) /\ DecodeType(kind, info, means)
  \/ (\E id \in ids : typeMap[id] = Null) /\ In(6) /\ MayDeclare(kind) /\ Crash

DecodeVoid == DecodeType("void", POD(0), Type("void", "Private", 0, 1, TRUE))
DecodeScalar(size) ==
  LET scalar == Type("scalar", "Private", size, size, TRUE) IN
  scalar \notin Range(meaning) /\ DecodeType("scalar", POD(size), scalar)

(* A vector of three is as large as one of four. *)
DecodeVector(elem, n) ==
  DecodeWith({elem}, "vector", POD(typeMap[elem].size * n),
    LET size == meaning[elem].size * (IF n = 3 THEN 4 ELSE n)
    IN  Data(size, size, n # 3 /\ meaning[elem].exact))

(* The third word of OpTypeArray is the id of a constant, not its value.   *)
DecodeArray(elem, len, lenId) ==
  DecodeWith({elem}, "array", POD(typeMap[elem].size * lenId),
    Data(meaning[elem].size * len, meaning[elem].align, FALSE))

DecodeStruct(members) ==
  DecodeWith(Range(members), "struct",
    POD(SumFunction([i \in DOMAIN members |-> typeMap[members[i]].size])),
    StructMeaning([i \in DOMAIN members |-> meaning[members[i]]]))

(* A pointer to private memory is how a struct is passed by value. *)
DecodeByVal(pointee) ==
  /\ "Function" \in Storages
  /\ DecodeWith({pointee}, "pointer", POD(typeMap[pointee].size),
       [meaning[pointee] EXCEPT !.kind = "byval", !.space = "Private"])

DecodePointer(storage) ==
  /\ storage \in Storages \ {"Function"}
  /\ DecodeType("pointer", PointerTo(storage), PointerMeaning(storage, TRUE))

(* OpTypeImage and the like.                                               *)
DecodeOpaque ==
  DecodeType("opaque", Null, Type("opaque", "Unknown", pointerSize, 1, FALSE))

(* OpTypeForwardPointer counts as a type, and the OpTypePointer that comes *)
(* later finds its id taken and changes nothing.                           *)
ForwardPointer(storage) ==
  /\ storage \in Storages \ {"Function"}
  /\ DecodeType("forward", Null, PointerMeaning(storage, FALSE))

(* Slip: the words of the parameters are counted from the return type.     *)
ArgInfosOffByOne(ret, params) ==
  [i \in DOMAIN params |-> typeMap[IF i = 1 THEN ret ELSE params[i - 1]]]

(* What decodeFunctionType keeps of the parameters. *)
ArgInfos(ret, params) == [i \in DOMAIN params |-> typeMap[params[i]]]

DecodeFunctionType(ret, params) ==
  /\ In(6) /\ NewId <= MaxTypes
  /\ [ret |-> ret, params |-> params] \notin Range(signature)
  /\ LET used == {ret} \cup Range(params) IN
     \/ /\ \A id \in used : typeMap[id] # Null
        /\ functionTypeMap' = Emplace(functionTypeMap, NewId, ArgInfos(ret, params))
        /\ signature' = Emplace(signature, NewId, [ret |-> ret, params |-> params])
        /\ UNCHANGED <<flags, pointerSize, entryPoints, typeMap,
                       entryToFunctionTypeIDMap, func_infos, outcome, meaning, body>>
     \/ /\ \E id \in used : typeMap[id] = Null
        /\ Crash

-----------------------------------------------------------------------------
(* Slip: the type of every function is remembered.                         *)
FunctionAll(f, ft) ==
  /\ In(7)
  /\ f \notin DOMAIN body
  /\ f \in entryPoints => meaning[signature[ft].ret].kind = "void"
  /\ entryToFunctionTypeIDMap' = Emplace(entryToFunctionTypeIDMap, f, ft)
  /\ body' = Emplace(body, f, ft)
  /\ UNCHANGED <<flags, pointerSize, entryPoints, typeMap, functionTypeMap,
                 func_infos, outcome, meaning, signature>>

(* OpFunction.  Kernels return nothing, by the OpenCL environment.         *)
Function(f, ft) ==
  /\ In(7)
  /\ f \notin DOMAIN body
  /\ f \in entryPoints => meaning[signature[ft].ret].kind = "void"
  /\ entryToFunctionTypeIDMap' =
       IF f \in entryPoints THEN Emplace(entryToFunctionTypeIDMap, f, ft)
       ELSE entryToFunctionTypeIDMap
  /\ body' = Emplace(body, f, ft)
  /\ UNCHANGED <<flags, pointerSize, entryPoints, typeMap, functionTypeMap,
                 func_infos, outcome, meaning, signature>>

(* valid() *)
Valid == flags = AllFlags

(* The end of the stream and fillModuleInfo.  Every entry point has a body.*)
FillModuleInfo ==
  /\ In(7) /\ entryPoints \subseteq DOMAIN body
  /\ outcome' = IF Valid THEN "true" ELSE "false"
  /\ func_infos' =
       IF Valid
       THEN [f \in entryPoints |-> functionTypeMap[entryToFunctionTypeIDMap[f]]]
       ELSE NoMap
  /\ UNCHANGED <<flags, pointerSize, entryPoints, typeMap, functionTypeMap,
                 entryToFunctionTypeIDMap, meaning, signature, body>>

Declare ==
  \/ DecodeVoid \/ DecodeOpaque
  \/ \E size \in {1, 2} : DecodeScalar(size)
  \/ \E elem \in OfKind({"scalar"}), n \in {2, 3} : DecodeVector(elem, n)
  \/ \E elem \in Sized, len \in {2}, lenId \in {3} : DecodeArray(elem, len, lenId)
  \/ \E members \in Lists(Sized) : DecodeStruct(members)
  \/ \E id \in DOMAIN meaning \ OfKind({"void"}) : DecodeByVal(id)
  \/ \E storage \in Storages : DecodePointer(storage) \/ ForwardPointer(storage)
  \/ \E ret \in OfKind({"void", "opaque"}), params \in Lists(DOMAIN meaning \ OfKind({"void"})) :
       DecodeFunctionType(ret, params)

Parse ==
  \/ \E good \in BOOLEAN : ParseHeader(good)
  \/ KernelCapability \/ ExtInstImport \/ LangOpenCL
  \/ \E wide \in BOOLEAN : MemoryModel(wide)
  \/ \E f \in FunctionIds : EntryPoint(f)
  \/ Declare
  \/ \E f \in FunctionIds, ft \in DOMAIN signature : Function(f, ft)
  \/ FillModuleInfo

-----------------------------------------------------------------------------
(* What the launch has to know of a parameter.                             *)
Declared(id) ==
  [type |-> IF meaning[id].kind = "pointer" THEN "Pointer" ELSE "POD",
   size |-> meaning[id].size, space |-> meaning[id].space]

(* A module that is accepted lists exactly its kernels, each with as many  *)
(* parameters as it has, and each parameter as declared, unless its type   *)
(* contains an array, a vector of three, padding or a forward reference.   *)
TableIsRight ==
  outcome = "true" =>
    /\ DOMAIN func_infos = entryPoints
    /\ \A f \in entryPoints :
         LET params == signature[body[f]].params IN
         /\ Len(func_infos[f]) = Len(params)
         /\ \A i \in DOMAIN params :
              meaning[params[i]].exact => func_infos[f][i] = Declared(params[i])
=============================================================================
