--------------------------- MODULE MCFileLoading ---------------------------
(* FileLoading for the model checker: one kind of thing at a time.         *)
EXTENDS FileLoading

FiveStyles ==
  {{"fresh", "upload", "codegen_func", "codegen_shared_obj", "crash"}, {"fresh", "upload", "crash", "bind"},
   {"upload", "bind", "flush"}, {"files", "bind", "flush"}, {"codegen_shared_obj", "dlopen", "bind", "flush"}}
=============================================================================
