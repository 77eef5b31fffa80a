------------------------------ MODULE Arguments ------------------------------
(***************************************************************************)
(* From the binary to the launch: the SPIR-V parser (SpirvModule) finds    *)
(* out what parameters a kernel has, the module makes a kernel object with *)
(* it, and launches set their arguments by it (KernelArgs).                *)
(***************************************************************************)
EXTENDS Integers, Sequences

CONSTANTS FunctionIds, Kinds, Storages, MaxTypes, MaxParts
VARIABLES flags, pointerSize, entryPoints, typeMap, functionTypeMap,
  entryToFunctionTypeIDMap, func_infos, outcome, section, meaning, signature, body

Parser == INSTANCE SpirvModule

CONSTANTS Backends, ArgSizes, Offsets, MaxArgs, Shared
VARIABLES backend, info, truth, slots, api, shared, offset_sizes, arg_data, pc,
  i, faulted

Setup == INSTANCE KernelArgs

ASSUME ArgumentsAssumption ==
  /\ Kinds \subseteq {"void", "scalar", "vector", "array", "struct", "pointer",
                      "opaque", "forward"}
  /\ Storages \subseteq {"Function", "CrossWorkgroup", "Workgroup",
                         "UniformConstant", "Generic"}
  /\ MaxTypes \in Nat /\ MaxParts \in Nat
  /\ Backends \subseteq {"level0", "opencl"}
  /\ ArgSizes \subseteq Nat /\ Offsets \subseteq Nat /\ Shared \subseteq Nat
  /\ MaxArgs \in Nat

parsing == <<flags, pointerSize, entryPoints, typeMap, functionTypeMap,
             entryToFunctionTypeIDMap, func_infos, outcome, section, meaning,
             signature, body>>
launching == <<backend, info, truth, slots, api, shared, offset_sizes, arg_data,
               pc, i, faulted>>
vars == <<parsing, launching>>

Init == Parser!Init /\ Setup!Init

(* The parameters of kernel f, as the driver knows them. *)
Parameters(f) ==
  LET params == signature[body[f]].params
  IN  [j \in DOMAIN params |-> Parser!Declared(params[j])]

(* The compiler appends the dynamic shared memory as the last parameter and*)
(* makes no other in local memory.                                         *)
FromHip(parameters) ==
  \A j \in DOMAIN parameters : parameters[j].space = "Local" => j = Len(parameters)

(* compile: a kernel of the module gets its entry of the table.  The       *)
(* parser was a local variable of parseSPIR and is gone.                   *)
Compile(f, b) ==
  /\ outcome = "true" /\ f \in DOMAIN func_infos
  /\ FromHip(Parameters(f))
  /\ Setup!CreateKernel(b, func_infos[f], Parameters(f))
  /\ outcome' = "gone" /\ section' = 7
  /\ flags' = {} /\ pointerSize' = 0 /\ entryPoints' = {}
  /\ typeMap' = <<>> /\ functionTypeMap' = <<>>
  /\ entryToFunctionTypeIDMap' = <<>> /\ func_infos' = <<>>
  /\ meaning' = <<>> /\ signature' = <<>> /\ body' = <<>>

Next ==
  \/ Parser!Parse /\ UNCHANGED launching
  \/ \E f \in FunctionIds, b \in Backends : Compile(f, b)
  \/ Setup!Next /\ UNCHANGED parsing

Spec == Init /\ [][Next]_vars

-----------------------------------------------------------------------------
(* The properties of the two parts, of the composition.                    *)

(* The parser keeps its tables well formed, of entry points only, and the  *)
(* kernel object has a slot for each parameter.                            *)
StateOK == Parser!TypeOK /\ Setup!TypeOK

(* An accepted module lists its kernels with their parameters as declared. *)
TableIsRight == Parser!TableIsRight

(* A launched kernel has its own launch's arguments in their slots.        *)
ArgumentsInPlace == Setup!ArgumentsInPlace

(* No proper launch is refused, but for the cases the code does not serve. *)
RightlyRefused == Setup!RightlyRefused
=============================================================================
