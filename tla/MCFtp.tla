------------------------------- MODULE MCFtp -------------------------------
(***************************************************************************)
(* Small instances of Ftp: a file of two packets at the client, one of one *)
(* packet at the server, and a name that is anything else.                 *)
(***************************************************************************)
EXTENDS Ftp

CONSTANTS a, b, s, top, x, y, z

Pairs == {<<a, a>>, <<b, b>>, <<b, a>>, <<a, s>>, <<s, a>>}

Has(kind, data) == [kind |-> kind, data |-> data]
Text(ws) == [i \in DOMAIN ws |-> Word(ws[i])]
None == Has("none", << >>)

\* In the directory s nothing can be read or written.
Sub == [n \in Names |-> Has("locked", << >>)]
TopOf(fileA, fileB, kindS) ==
  [n \in Names |-> CASE n = a -> fileA [] n = b -> fileB [] n = s -> Has(kindS, << >>)]
Host(t) == [d \in Dirs |-> IF d = top THEN t ELSE Sub]

Start(kindC, kindS) ==
  [h \in Hosts |->
     IF h = "client"
     THEN Host(TopOf(Has("file", Text(<<x, y, z>>)), None, kindC))
     ELSE Host(TopOf(None, Has("file", Text(<<z>>)), kindS))]
Starts == {Start("dir", k) : k \in {"dir", "closed", "locked", "dangling"}}
            \cup {Start("locked", "dir")}
=============================================================================
