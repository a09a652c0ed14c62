----------------------------- MODULE MCServices -----------------------------
(* Small instances of Services. *)
EXTENDS Services, TLC

(* Folders: a folder with a PDF; a folder below another, with a PDF. *)
MCFolderStart ==
  {[tree |-> (2 :> 0), filed |-> {<<1, 2>>}], [tree |-> (2 :> 0 @@ 3 :> 2), filed |-> {<<1, 3>>}]}

(* The tree grows and is rearranged; folders are trashed and purged; PDFs are filed; with  *)
(* passes in between, pulls within a push, and passes that stop.                           *)
MCThreeChanges ==
  {{"create", "rename"}, {"create", "move"}, {"move", "trash", "cross", "midpass"},
   {"trash", "purge", "midpass"}, {"file", "interrupt"}}
MCTwoChanges ==
  {{"create", "file", "split"}, {"file", "rename", "trash", "midpass", "cross", "split"},
   {"file", "trash", "interrupt", "cross"}}
MCFolderScenarios == MCThreeChanges \cup MCTwoChanges \cup {{}}
MCMaxChanges == [s \in MCFolderScenarios |-> IF s \in MCThreeChanges THEN 3 ELSE 2]
-----------------------------------------------------------------------------
(* The Raindrop account. *)
N(letters, n) == [stem |-> letters, pdfs |-> n]
Base == [file |-> "pdf", link |-> "page", document |-> TRUE, name |-> N(<<"a">>, 1), size |-> 10,
         collection |-> 1, content |-> 1, cached |-> TRUE, reached |-> TRUE, hops |-> 0, gives |-> "pdf"]
MCSafe == [c \in {"a", "A", "b", "?"} |-> CASE c = "A" -> "a" [] c = "?" -> "b" [] OTHER -> c]
Packed(i, n, s) == [of |-> i, name |-> n, size |-> s]

(* Bookmarks of every kind in a tree of collections whose innermost is listed before the one it is in. *)
Mixed ==
  [here |-> <<1, 2, 3>>,
   item |-> [i \in Item |->
     CASE i = 1 -> Base
       [] i = 2 -> [Base EXCEPT !.file = "none", !.link = "ends", !.collection = 2, !.content = 2,
                                !.cached = FALSE, !.hops = 1, !.name = N(<<"b">>, 0)]
       [] i = 3 -> [Base EXCEPT !.file = "other", !.link = "page", !.content = 3]
       [] OTHER -> [Base EXCEPT !.file = "hosted", !.link = "contains", !.name = Nothing, !.content = 2]],
   collections |-> <<3, 1, 2>>, parent |-> [c \in Collection |-> CASE c = 1 -> 2 [] c = 2 -> 3 [] OTHER -> Nothing],
   export |-> <<Packed(1, N(<<"a">>, 1), 10), Packed(4, N(<<"b", "a">>, 1), 20)>>]
(* Names and sizes that bookmarks share. *)
Alike ==
  [Mixed EXCEPT !.here = <<1, 2, 3, 4>>,
     !.item = [i \in Item |->
       CASE i = 1 -> Base
         [] i = 2 -> [Base EXCEPT !.name = N(<<"b", "A">>, 2), !.content = 2]
         [] i = 3 -> [Base EXCEPT !.name = N(<<"?", "a">>, 0), !.size = 0, !.content = 3]
         [] OTHER -> [Base EXCEPT !.name = N(<<"a">>, 1), !.size = 30, !.content = 4]],
     !.collections = <<2, 3>>,
     !.export = <<Packed(4, N(<<"a">>, 1), 0), Packed(3, N(<<"b", "a">>, 1), 10),
                  Packed(2, N(<<"b", "a">>, 2), 10), Packed(1, N(<<"A">>, 1), 10)>>]
MCAccounts == [mixed |-> Mixed, alike |-> Alike]
MCTransfers == {
  <<"mixed", {"into"}, {}>>,
  <<"mixed", {"add", "again"}, {"direct"}>>,
  <<"mixed", {"again", "move"}, {"direct"}>>,
  <<"mixed", {"edit", "again"}, {"preview"}>>,
  <<"mixed", {"again", "delete", "purge"}, {"preview"}>>,
  <<"mixed", {"remove", "fault"}, {"direct", "preview"}>>,
  <<"alike", {}, {"direct", "preview"}>>,
  <<"alike", {"fault", "remove"}, {"preview"}>>}
MCMoves == [s \in {t[2] : t \in MCTransfers} |-> IF "fault" \in s THEN 2 ELSE 3]
-----------------------------------------------------------------------------
(* Signing in. *)
OnDisk == [k \in Turso \cup R2 |-> IF k = "token" THEN "t1" ELSE "f"]
Bare == [k \in Turso \cup R2 |-> Absent]
InFiles == [env |-> Bare, file |-> OnDisk, sub |-> "me", email |-> Absent, secret |-> Absent, good |-> "t1"]
MCSettings == {
  InFiles,
  [InFiles EXCEPT !.env = [Bare EXCEPT !["url"] = "u", !["token"] = "t2"], !.good = "t2"],
  [InFiles EXCEPT !.env = [Bare EXCEPT !["token"] = "t3"], !.good = "t3", !.sub = Absent, !.email = "me"],
  [InFiles EXCEPT !.env = [Bare EXCEPT !["token"] = "t3"], !.file = Bare, !.good = "t3"],
  [InFiles EXCEPT !.secret = "s", !.sub = "other", !.email = "me"]}
MCVisits == {{}, {"cli", "stray", "stop", "wrong"}, {"operate", "stop"}, {"cli", "operate"},
             {"raindrop", "cli", "stray"}, {"stop", "wrong"}}
MCMaxTime == [v \in MCVisits |-> IF "stray" \in v THEN 0 ELSE 3]
MCMaxAttempts == [v \in MCVisits |-> IF "stray" \in v THEN 3 ELSE 2]
-----------------------------------------------------------------------------
(* Files: PDFs with one name below a directory that is imported, and others elsewhere. *)
Lib(n) == Spot(<<"lib">>, n)
Sub(n) == Spot(<<"lib", "sub">>, n)
Out(n) == Spot(<<"out">>, n)
MCStarts ==
  [two |-> (Lib(<<"a">>) :> 1 @@ Sub(<<"a">>) :> 2 @@ Out(<<"a">>) :> 2),
   one |-> (Lib(<<"a">>) :> 1 @@ Out(<<"a">>) :> Junk)]
MCRootDir == {<<"lib">>}
MCShelfOf == <<<<"x">>, <<"x">>>>
MCTitleOf == <<<<"t">>, <<"t">>>>
MCDialogs ==
  {d \in [source : {{1, 2}}, dest : {<<"out">>}, mode : {"Flat", "Folders", "Zip"},
          template : {"Original", "Title"}, conflict : {"Skip", "Overwrite", "KeepBoth"}, sheet : {TRUE}] :
     d.template = "Title" => d.conflict = "KeepBoth"}
MCErrands == {
  <<"one", {}, {}>>,
  <<"one", {"folder", "add", "save"}, {}>>,
  <<"two", {"folder", "rename"}, {}>>,
  <<"two", {"folder", "remove", "across", "add"}, {}>>,
  <<"two", {"folder", "remove", "relink"}, {}>>,
  <<"two", {"folder", "remove", "relink", "other"}, {}>>,
  <<"one", {"folder", "pdf", "fault", "add"}, {}>>,
  <<"two", {"folder", "export", "remove"}, MCDialogs>>}
MCMaxErrands == [e \in {x[2] : x \in MCErrands} |-> IF {"export", "other"} \cap e # {} THEN 3 ELSE 4]
-----------------------------------------------------------------------------
(* Sessions: a PDF of the library, and one elsewhere. *)
MCDays == {{}, {"stop", "browse", "read", "folders"}, {"stop", "read", "lost"}, {"stop", "read", "rows"},
           {"stop", "read", "file"}}
MCMaxActs == [d \in MCDays |-> IF "file" \in d THEN 3 ELSE 4]
-----------------------------------------------------------------------------
NoPart == <<{}, <<"mixed", {"into"}, {}>>, {}, <<"one", {}, {}>>, {}>>
MCServiceScenarios ==
  UNION {{[NoPart EXCEPT ![1] = s] : s \in MCFolderScenarios},
         {[NoPart EXCEPT ![2] = t] : t \in MCTransfers},
         {[NoPart EXCEPT ![3] = v] : v \in MCVisits},
         {[NoPart EXCEPT ![4] = e] : e \in MCErrands},
         {[NoPart EXCEPT ![5] = d] : d \in MCDays}} \ {NoPart}
=============================================================================
