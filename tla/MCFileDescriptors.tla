------------------------- MODULE MCFileDescriptors -------------------------
(* FileDescriptors for the model checker: a directory with a file in it, a *)
(* shared directory with another, and one kind of operation at a time.     *)
EXTENDS FileDescriptors

HostTree ==
  [p \in {<<"root">>, <<"root", "d">>, <<"root", "d", "f">>, <<"shared">>, <<"shared", "s">>, <<"shared", "s", "f">>} |->
     CASE p = <<"root">> -> "r" [] p = <<"root", "d">> -> "d1" [] p = <<"shared">> -> "sr"
       [] p = <<"shared", "s">> -> "d2" [] p = <<"root", "d", "f">> -> "f1" [] OTHER -> "f2"]

Opening(rels, rights, flags) ==
  {[rel |-> r, base |-> x[1], inh |-> x[2], flags |-> f[1], fdFlags |-> f[2]] : r \in rels, x \in rights, f \in flags}
All == <<Rights, Rights>>
Lists == [kinds |-> {"open", "list"}, names |-> {}, ops |-> 4,
  opens |-> Opening({<<"d">>, <<"faasm", "s">>}, {All}, {<<{"directory"}, {}>>})]
Narrows == [kinds |-> {"open"}, names |-> {}, ops |-> 3,
  opens |-> Opening({<<"d">>, <<"f">>}, {All, <<{Read, Write}, {Read}>>, <<{Other}, {}>>, <<{Read}, Rights>>},
                    {<<{"directory"}, {}>>, <<{"creat", "excl"}, {}>>})]
Writes == [kinds |-> {"open", "data"}, names |-> {}, ops |-> 3,
  opens |-> Opening({<<"d", "f">>}, {All, <<{Read}, {}>>}, {<<{"trunc"}, {}>>, <<{"creat", "directory"}, {"append"}>>})]
Moving == [kinds |-> {"open", "path"}, names |-> {<<"d">>, <<"f">>, <<"d", "f">>}, ops |-> 3,
  opens |-> Opening({<<"d">>, <<"f">>}, {All}, {<<{"directory"}, {}>>, <<{"creat", "excl"}, {}>>})]
Prints == [kinds |-> {"open", "print"}, names |-> {}, ops |-> 4, opens |-> Opening({<<"d">>}, {All}, {<<{"directory"}, {}>>})]
Musl == [kinds |-> {"legacy"}, names |-> {<<"d">>, <<"f">>, <<"d", "f">>}, ops |-> 3, opens |-> {}]
SixPrograms == {Lists, Narrows, Writes, Moving, Prints, Musl}
=============================================================================
