--------------------------- MODULE ProtoMessages ---------------------------
(***************************************************************************)
(* The messages of the reply and of the tool's graphs, as the generated    *)
(* code has them.  Each has five functions that name its fields; here are  *)
(* the tables those functions walk:                                        *)
(*   _InternalParse      tag, how the value is read, field                 *)
(*   _InternalSerialize  number, how the value is written, field, in order *)
(*   _ByteSizeLong       how the size is counted, field                    *)
(*   _MergeFrom          whether the field is set, or added to             *)
(*   _Clear              the message as it is after construction           *)
(* and, for a field of messages, their type.                               *)
(***************************************************************************)
EXTENDS Integers, Sequences, TLC

EmptyMap == [k \in {} |-> 0]

CPUCallingContextTree_InternalParse ==
  {<<10, "message", "root", "CPUCallingContextNode">>,
   <<16, "varint64", "rootpc">>, <<24, "varint64", "rootid">>,
   <<34, "map", "nodemap", "CPUCallingContextNode">>}

CPUCallingContextTree_InternalSerialize ==
  << <<1, "message", "root", "CPUCallingContextNode">>,
     <<2, "UInt64", "rootpc">>, <<3, "UInt64", "rootid">>,
     <<4, "map", "nodemap", "CPUCallingContextNode">> >>

CPUCallingContextTree_ByteSizeLong ==
  {<<"map", "nodemap", "CPUCallingContextNode">>,
   <<"message", "root", "CPUCallingContextNode">>, <<"UInt64", "rootpc">>,
   <<"UInt64", "rootid">>}

CPUCallingContextTree_MergeFrom ==
  {<<"merge map", "nodemap", "CPUCallingContextNode">>, <<"set", "rootpc">>,
   <<"set", "rootid">>, <<"message", "root", "CPUCallingContextNode">>}

CPUCallingContextTree_Clear ==
  [root |-> <<>>, rootpc |-> 0, rootid |-> 0, nodemap |-> EmptyMap]

CPUCallingContextNode_InternalParse ==
  {<<8, "varint64", "id">>, <<16, "varint64", "pc">>,
   <<24, "varint64", "offset">>, <<34, "string", "funcname">>,
   <<40, "varint64", "parentid">>, <<48, "varint64", "parentpc">>,
   <<56, "varint64", "samples">>,
   <<66, "messages", "childs", "CPUCallingContextNode">>,
   <<74, "packed", "childids">>, <<72, "append", "childids">>,
   <<82, "packed", "childpcs">>, <<80, "append", "childpcs">>}

CPUCallingContextNode_InternalSerialize ==
  << <<1, "UInt64", "id">>, <<2, "UInt64", "pc">>, <<3, "UInt64", "offset">>,
     <<4, "string", "funcname">>, <<5, "UInt64", "parentid">>,
     <<6, "UInt64", "parentpc">>, <<7, "UInt64", "samples">>,
     <<8, "messages", "childs", "CPUCallingContextNode">>,
     <<9, "packed", "childids">>, <<10, "packed", "childpcs">> >>

CPUCallingContextNode_ByteSizeLong ==
  {<<"messages", "childs", "CPUCallingContextNode">>, <<"packed", "childids">>,
   <<"packed", "childpcs">>, <<"string", "funcname">>, <<"UInt64", "id">>,
   <<"UInt64", "pc">>, <<"UInt64", "offset">>, <<"UInt64", "parentid">>,
   <<"UInt64", "parentpc">>, <<"UInt64", "samples">>}

CPUCallingContextNode_MergeFrom ==
  {<<"merge", "childs", "CPUCallingContextNode">>, <<"merge", "childids">>,
   <<"merge", "childpcs">>, <<"set", "funcname">>, <<"set", "id">>,
   <<"set", "pc">>, <<"set", "offset">>, <<"set", "parentid">>,
   <<"set", "parentpc">>, <<"set", "samples">>}

CPUCallingContextNode_Clear ==
  [id |-> 0, pc |-> 0, offset |-> 0, funcname |-> "", parentid |-> 0,
   parentpc |-> 0, samples |-> 0, childs |-> <<>>, childids |-> <<>>,
   childpcs |-> <<>>]

GPUCallingGraphNode_InternalParse ==
  {<<8, "varint64", "cubincrc">>, <<18, "string", "funcname">>,
   <<24, "varint64", "addrbegin">>, <<32, "varint64", "addrend">>,
   <<40, "varint64", "weight">>}

GPUCallingGraphNode_InternalSerialize ==
  << <<1, "UInt64", "cubincrc">>, <<2, "string", "funcname">>,
     <<3, "UInt64", "addrbegin">>, <<4, "UInt64", "addrend">>,
     <<5, "UInt64", "weight">> >>

GPUCallingGraphNode_ByteSizeLong ==
  {<<"string", "funcname">>, <<"UInt64", "cubincrc">>,
   <<"UInt64", "addrbegin">>, <<"UInt64", "addrend">>, <<"UInt64", "weight">>}

GPUCallingGraphNode_MergeFrom ==
  {<<"set", "funcname">>, <<"set", "cubincrc">>, <<"set", "addrbegin">>,
   <<"set", "addrend">>, <<"set", "weight">>}

GPUCallingGraphNode_Clear ==
  [cubincrc |-> 0, funcname |-> "", addrbegin |-> 0, addrend |-> 0,
   weight |-> 0]

GPUCallingGraphEdge_InternalParse ==
  {<<10, "string", "srcfuncname">>, <<16, "varint64", "srcpcoffset">>,
   <<26, "string", "dstfuncname">>, <<32, "varint64", "dstpcoffset">>,
   <<40, "varint64", "weight">>}

GPUCallingGraphEdge_InternalSerialize ==
  << <<1, "string", "srcfuncname">>, <<2, "UInt64", "srcpcoffset">>,
     <<3, "string", "dstfuncname">>, <<4, "UInt64", "dstpcoffset">>,
     <<5, "UInt64", "weight">> >>

GPUCallingGraphEdge_ByteSizeLong ==
  {<<"string", "srcfuncname">>, <<"string", "dstfuncname">>,
   <<"UInt64", "srcpcoffset">>, <<"UInt64", "dstpcoffset">>,
   <<"UInt64", "weight">>}

GPUCallingGraphEdge_MergeFrom ==
  {<<"set", "srcfuncname">>, <<"set", "dstfuncname">>,
   <<"set", "srcpcoffset">>, <<"set", "dstpcoffset">>, <<"set", "weight">>}

GPUCallingGraphEdge_Clear ==
  [srcfuncname |-> "", srcpcoffset |-> 0, dstfuncname |-> "",
   dstpcoffset |-> 0, weight |-> 0]

GPUCallingGraph_InternalParse ==
  {<<10, "messages", "nodes", "GPUCallingGraphNode">>,
   <<18, "messages", "edges", "GPUCallingGraphEdge">>}

GPUCallingGraph_InternalSerialize ==
  << <<1, "messages", "nodes", "GPUCallingGraphNode">>,
     <<2, "messages", "edges", "GPUCallingGraphEdge">> >>

GPUCallingGraph_ByteSizeLong ==
  {<<"messages", "nodes", "GPUCallingGraphNode">>,
   <<"messages", "edges", "GPUCallingGraphEdge">>}

GPUCallingGraph_MergeFrom ==
  {<<"merge", "nodes", "GPUCallingGraphNode">>,
   <<"merge", "edges", "GPUCallingGraphEdge">>}

GPUCallingGraph_Clear ==
  [nodes |-> <<>>, edges |-> <<>>]

PCSamplingStallReason_InternalParse ==
  {<<8, "varint32", "pcsamplingstallreasonindex">>,
   <<16, "varint32", "samples">>}

PCSamplingStallReason_InternalSerialize ==
  << <<1, "UInt32", "pcsamplingstallreasonindex">>,
     <<2, "UInt32", "samples">> >>

PCSamplingStallReason_ByteSizeLong ==
  {<<"UInt32", "pcsamplingstallreasonindex">>, <<"UInt32", "samples">>}

PCSamplingStallReason_MergeFrom ==
  {<<"set", "pcsamplingstallreasonindex">>, <<"set", "samples">>}

PCSamplingStallReason_Clear ==
  [pcsamplingstallreasonindex |-> 0, samples |-> 0]

\* Fault: the id of the parent is not looked for.
ReadNoParent ==
  {<<8, "varint32", "size">>, <<16, "varint64", "cubincrc">>,
   <<24, "varint64", "pcoffset">>, <<32, "varint32", "functionindex">>,
   <<40, "varint32", "pad">>, <<50, "string", "functionname">>,
   <<56, "varint32", "stallreasoncount">>,
   <<66, "messages", "stallreason", "PCSamplingStallReason">>,
   <<80, "varint32", "correlationid">>}

CUptiPCSamplingPCData_InternalParse ==
  {<<8, "varint32", "size">>, <<16, "varint64", "cubincrc">>,
   <<24, "varint64", "pcoffset">>, <<32, "varint32", "functionindex">>,
   <<40, "varint32", "pad">>, <<50, "string", "functionname">>,
   <<56, "varint32", "stallreasoncount">>,
   <<66, "messages", "stallreason", "PCSamplingStallReason">>,
   <<72, "varint64", "parentcpupcid">>, <<80, "varint32", "correlationid">>}

CUptiPCSamplingPCData_InternalSerialize ==
  << <<1, "UInt32", "size">>, <<2, "UInt64", "cubincrc">>,
     <<3, "UInt64", "pcoffset">>, <<4, "UInt32", "functionindex">>,
     <<5, "UInt32", "pad">>, <<6, "string", "functionname">>,
     <<7, "UInt32", "stallreasoncount">>,
     <<8, "messages", "stallreason", "PCSamplingStallReason">>,
     <<9, "Int64", "parentcpupcid">>, <<10, "UInt32", "correlationid">> >>

CUptiPCSamplingPCData_ByteSizeLong ==
  {<<"messages", "stallreason", "PCSamplingStallReason">>,
   <<"string", "functionname">>, <<"UInt64", "cubincrc">>,
   <<"UInt32", "size">>, <<"UInt32", "functionindex">>,
   <<"UInt64", "pcoffset">>, <<"UInt32", "pad">>,
   <<"UInt32", "stallreasoncount">>, <<"Int64", "parentcpupcid">>,
   <<"UInt32", "correlationid">>}

CUptiPCSamplingPCData_MergeFrom ==
  {<<"merge", "stallreason", "PCSamplingStallReason">>,
   <<"set", "functionname">>, <<"set", "cubincrc">>, <<"set", "size">>,
   <<"set", "functionindex">>, <<"set", "pcoffset">>, <<"set", "pad">>,
   <<"set", "stallreasoncount">>, <<"set", "parentcpupcid">>,
   <<"set", "correlationid">>}

CUptiPCSamplingPCData_Clear ==
  [size |-> 0, cubincrc |-> 0, pcoffset |-> 0, functionindex |-> 0, pad |-> 0,
   functionname |-> "", stallreasoncount |-> 0, stallreason |-> <<>>,
   parentcpupcid |-> 0, correlationid |-> 0]

CUptiPCSamplingData_InternalParse ==
  {<<8, "varint32", "size">>, <<16, "varint32", "collectnumpcs">>,
   <<24, "varint64", "totalsamples">>, <<32, "varint64", "droppedsamples">>,
   <<40, "varint32", "totalnumpcs">>, <<48, "varint32", "remainingnumpcs">>,
   <<56, "varint64", "rangeid">>,
   <<66, "messages", "ppcdata", "CUptiPCSamplingPCData">>,
   <<72, "varint64", "nonusrkernelstotalsamples">>}

CUptiPCSamplingData_InternalSerialize ==
  << <<1, "UInt32", "size">>, <<2, "UInt32", "collectnumpcs">>,
     <<3, "UInt64", "totalsamples">>, <<4, "UInt64", "droppedsamples">>,
     <<5, "UInt32", "totalnumpcs">>, <<6, "UInt32", "remainingnumpcs">>,
     <<7, "UInt64", "rangeid">>,
     <<8, "messages", "ppcdata", "CUptiPCSamplingPCData">>,
     <<9, "UInt64", "nonusrkernelstotalsamples">> >>

CUptiPCSamplingData_ByteSizeLong ==
  {<<"messages", "ppcdata", "CUptiPCSamplingPCData">>, <<"UInt32", "size">>,
   <<"UInt32", "collectnumpcs">>, <<"UInt64", "totalsamples">>,
   <<"UInt64", "droppedsamples">>, <<"UInt32", "totalnumpcs">>,
   <<"UInt32", "remainingnumpcs">>, <<"UInt64", "rangeid">>,
   <<"UInt64", "nonusrkernelstotalsamples">>}

CUptiPCSamplingData_MergeFrom ==
  {<<"merge", "ppcdata", "CUptiPCSamplingPCData">>, <<"set", "size">>,
   <<"set", "collectnumpcs">>, <<"set", "totalsamples">>,
   <<"set", "droppedsamples">>, <<"set", "totalnumpcs">>,
   <<"set", "remainingnumpcs">>, <<"set", "rangeid">>,
   <<"set", "nonusrkernelstotalsamples">>}

CUptiPCSamplingData_Clear ==
  [size |-> 0, collectnumpcs |-> 0, totalsamples |-> 0, droppedsamples |-> 0,
   totalnumpcs |-> 0, remainingnumpcs |-> 0, rangeid |-> 0, ppcdata |-> <<>>,
   nonusrkernelstotalsamples |-> 0]

GPUProfilingRequest_InternalParse ==
  {<<8, "varint32", "duration">>}

GPUProfilingRequest_InternalSerialize ==
  << <<1, "UInt32", "duration">> >>

GPUProfilingRequest_ByteSizeLong ==
  {<<"UInt32", "duration">>}

GPUProfilingRequest_MergeFrom ==
  {<<"set", "duration">>}

GPUProfilingRequest_Clear ==
  [duration |-> 0]

GPUProfilingResponse_InternalParse ==
  {<<10, "string", "message">>, <<16, "bool", "version">>,
   <<26, "messages", "pcsamplingdata", "CUptiPCSamplingData">>,
   <<34, "messages", "cpucallingctxtree", "CPUCallingContextTree">>}

GPUProfilingResponse_InternalSerialize ==
  << <<1, "string", "message">>, <<2, "Bool", "version">>,
     <<3, "messages", "pcsamplingdata", "CUptiPCSamplingData">>,
     <<4, "messages", "cpucallingctxtree", "CPUCallingContextTree">> >>

GPUProfilingResponse_ByteSizeLong ==
  {<<"messages", "pcsamplingdata", "CUptiPCSamplingData">>,
   <<"messages", "cpucallingctxtree", "CPUCallingContextTree">>,
   <<"string", "message">>, <<"Bool", "version">>}

GPUProfilingResponse_MergeFrom ==
  {<<"merge", "pcsamplingdata", "CUptiPCSamplingData">>,
   <<"merge", "cpucallingctxtree", "CPUCallingContextTree">>,
   <<"set", "message">>, <<"set", "version">>}

GPUProfilingResponse_Clear ==
  [message |-> "", version |-> FALSE, pcsamplingdata |-> <<>>,
   cpucallingctxtree |-> <<>>]

Schema ==
  [CPUCallingContextTree |->
     [parse |-> CPUCallingContextTree_InternalParse,
      write |-> CPUCallingContextTree_InternalSerialize,
      size |-> CPUCallingContextTree_ByteSizeLong, merge |-> CPUCallingContextTree_MergeFrom,
      clear |-> CPUCallingContextTree_Clear],
   CPUCallingContextNode |->
     [parse |-> CPUCallingContextNode_InternalParse,
      write |-> CPUCallingContextNode_InternalSerialize,
      size |-> CPUCallingContextNode_ByteSizeLong, merge |-> CPUCallingContextNode_MergeFrom,
      clear |-> CPUCallingContextNode_Clear],
   GPUCallingGraphNode |->
     [parse |-> GPUCallingGraphNode_InternalParse,
      write |-> GPUCallingGraphNode_InternalSerialize,
      size |-> GPUCallingGraphNode_ByteSizeLong, merge |-> GPUCallingGraphNode_MergeFrom,
      clear |-> GPUCallingGraphNode_Clear],
   GPUCallingGraphEdge |->
     [parse |-> GPUCallingGraphEdge_InternalParse,
      write |-> GPUCallingGraphEdge_InternalSerialize,
      size |-> GPUCallingGraphEdge_ByteSizeLong, merge |-> GPUCallingGraphEdge_MergeFrom,
      clear |-> GPUCallingGraphEdge_Clear],
   GPUCallingGraph |->
     [parse |-> GPUCallingGraph_InternalParse,
      write |-> GPUCallingGraph_InternalSerialize,
      size |-> GPUCallingGraph_ByteSizeLong, merge |-> GPUCallingGraph_MergeFrom,
      clear |-> GPUCallingGraph_Clear],
   PCSamplingStallReason |->
     [parse |-> PCSamplingStallReason_InternalParse,
      write |-> PCSamplingStallReason_InternalSerialize,
      size |-> PCSamplingStallReason_ByteSizeLong, merge |-> PCSamplingStallReason_MergeFrom,
      clear |-> PCSamplingStallReason_Clear],
   CUptiPCSamplingPCData |->
     [parse |-> CUptiPCSamplingPCData_InternalParse,
      write |-> CUptiPCSamplingPCData_InternalSerialize,
      size |-> CUptiPCSamplingPCData_ByteSizeLong, merge |-> CUptiPCSamplingPCData_MergeFrom,
      clear |-> CUptiPCSamplingPCData_Clear],
   CUptiPCSamplingData |->
     [parse |-> CUptiPCSamplingData_InternalParse,
      write |-> CUptiPCSamplingData_InternalSerialize,
      size |-> CUptiPCSamplingData_ByteSizeLong, merge |-> CUptiPCSamplingData_MergeFrom,
      clear |-> CUptiPCSamplingData_Clear],
   GPUProfilingRequest |->
     [parse |-> GPUProfilingRequest_InternalParse,
      write |-> GPUProfilingRequest_InternalSerialize,
      size |-> GPUProfilingRequest_ByteSizeLong, merge |-> GPUProfilingRequest_MergeFrom,
      clear |-> GPUProfilingRequest_Clear],
   GPUProfilingResponse |->
     [parse |-> GPUProfilingResponse_InternalParse,
      write |-> GPUProfilingResponse_InternalSerialize,
      size |-> GPUProfilingResponse_ByteSizeLong, merge |-> GPUProfilingResponse_MergeFrom,
      clear |-> GPUProfilingResponse_Clear]]
=============================================================================
