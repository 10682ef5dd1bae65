---------------------------- MODULE MCWasmModule ----------------------------
(* WasmModule for the model checker: two hosts, two libraries of which one *)
(* needs a function of the main module and one that it defines itself.     *)
EXTENDS WasmModule

Plain == [path |-> "plain", data |-> 1, elems |-> <<"p1", "p2">>, exports |-> {"p1", "p2"},
          globals |-> [pdata |-> 0], gotFuncs |-> <<"m2">>, gotMem |-> {"pdata"}]
Looped == [path |-> "looped", data |-> 1, elems |-> <<"l1">>, exports |-> {"l1", "l2"},
           globals |-> [ldata |-> 0], gotFuncs |-> <<"l2", "m3">>, gotMem |-> {"mdata"}]
Broken == [path |-> "broken", data |-> 1, elems |-> <<"b1">>, exports |-> {"b1"},
           globals |-> [bdata |-> 0], gotFuncs |-> <<"nowhere">>, gotMem |-> {"bdata"}]
AllLibs == {Plain, Looped, Broken}

Table == <<"m1", "m2">>
Exported == {"m1", "m2", "m3"}
MainData == [mdata |-> 0]
State == {[key |-> "kv", rem |-> 0, len |-> 1], [key |-> "kv", rem |-> 1, len |-> 2]}

AllPrograms == {{"sbrk", "mmap", "state"}, {"dlopen", "dlsym", "sbrk"},
                {"pthread", "sbrk", "store", "stdout"}}
=============================================================================
