----------------------------- MODULE MC_Files -----------------------------
(* Instances of Files for TLC.                                             *)
EXTENDS Files

T == <<"/", "tmp", "/", "t">>
U == <<"/", "tmp", "/", "u">>
D == <<"/", "d">>

Message(types, paths, datas) == [type : types, path : paths, data : datas]

MCNames == {".", "..", "hello.txt", "d", "u", "tmp", "no name"}

MCContents == { <<1, 2>> }

MCRequests ==
  Message({"MSG_OPEN"}, {T}, {<<>>})
    \cup Message({"MSG_CREATE"}, {<<"u">>}, {<<>>})
    \cup Message({"MSG_MKDIR"}, {D}, {<<>>})
    \cup Message({"MSG_REMOVE"}, {U}, {<<>>})
    \cup Message({"remove_recursive"}, {<<"u">>}, {<<>>})
    \cup Message({"MSG_CHDIR"}, {D, <<"..">>, <<"..", "/", "/", "d", "/", ".">>,
                                D \o <<".">>, D \o <<"/", "u", "..">>}, {<<>>})
    \cup Message({"MSG_MOVE"}, {T}, {<<"u">>, U})
    \cup Message({"MSG_COPY"}, {T}, {U})
    \cup Message({"MSG_MOVE"}, {<<"u">>}, {T})
    \cup Message({"MSG_BIND"}, {D}, {TMP, Slash})
    \cup Message({"MSG_UNBIND"}, {D}, {<<>>})

\* rm hello.txt in a directory.
RemoveRequests ==
  Message({"MSG_MKDIR", "MSG_CHDIR"}, {D}, {<<>>})
    \cup Message({"MSG_REMOVE"}, {<<"hello.txt">>}, {<<>>})

\* A file below a path that shows /tmp.
BindRequests ==
  Message({"MSG_MKDIR"}, {D}, {<<>>})
    \cup Message({"MSG_BIND"}, {D}, {TMP})
    \cup Message({"MSG_OPEN"}, {D \o <<"/", "t">>}, {<<>>})
=============================================================================
