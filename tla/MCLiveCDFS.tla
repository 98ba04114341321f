----------------------------- MODULE MCLiveCDFS -----------------------------
\* Small instances of LiveCDFS: names, CD images and link texts.
EXTENDS LiveCDFSProperties, TLC

MCNames == {"d", "f", "n"}

\* "/", a directory /d with a file /d/f, and /n, at first unused.
MCPaths == {<<>>, <<"d">>, <<"d", "f">>, <<"n">>}

CdFile == File(NoIno, "cd")
CdLink(form, p) == Link([form |-> form, path |-> p])

FileImage == [p \in MCPaths |->
    CASE p \in {<<>>, <<"d">>} -> DirNode
      [] p \in {<<"d", "f">>} -> CdFile
      [] OTHER -> Absent]

\* A file /f in "/", and /n, at first unused.
FlatPaths == {<<>>, <<"f">>, <<"n">>}
FlatImage == [p \in FlatPaths |->
    CASE p = <<>> -> DirNode
      [] p = <<"f">> -> CdFile
      [] OTHER -> Absent]

NoTexts == {}

\* The absolute text /d/f, of a link a user makes: doSymlink rewrites it.
UserTexts == {[form |-> "abs", path |-> <<"d", "f">>]}

\* A directory /d with a directory /d/e and a link /d/l to it, whose text "e"
\* isDir looks up as /e, a character device that always has more, and a block
\* device /b.
LinkNames == {"b", "d", "e", "l"}
LinkPaths == {<<>>, <<"b">>, <<"d">>, <<"d", "e">>, <<"d", "l">>, <<"e">>}
AlwaysMore == {<<"e">>}
CdDevice(kind) == [kind |-> kind, ino |-> NoIno, data |-> "cd", to |-> NoText]
LinkImage == [p \in LinkPaths |->
    CASE p \in {<<>>, <<"d">>, <<"d", "e">>} -> DirNode
      [] p = <<"d", "l">> -> CdLink("rel", <<"e">>)
      [] p = <<"b">> -> CdDevice("blk")
      [] p = <<"e">> -> CdDevice("chr")
      [] OTHER -> Absent]
LinkTexts == {[form |-> "rel", path |-> <<"d">>], [form |-> "abs", path |-> <<"d", "l">>]}
=============================================================================
