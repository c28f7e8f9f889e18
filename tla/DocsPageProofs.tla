--------------------------- MODULE DocsPageProofs ---------------------------
(***************************************************************************)
(* DocsPage: a visit that fails has met a request that failed.             *)
(***************************************************************************)
EXTENDS DocsPage, SequenceTheorems, TLAPS

-----------------------------------------------------------------------------
(* What the server answers to the requests that a browser makes.           *)

Directory == <<"swagger", "">>

LEMMA ScriptsAre ==
  /\ DOMAIN Scripts = 1 .. 3
  /\ ToSet(Scripts) = {"swagger-ui-bundle.js", "swagger-ui-standalone-preset.js",
                       "swagger-initializer.js"}
BY DEF Scripts, ToSet

LEMMA GetDirectory == Get(Directory) = Content("index.html")
<1>1. /\ Len(Directory) = 2 /\ Directory[1] = "swagger" /\ Directory[2] = ""
      /\ Directory # <<"openapi.json">> /\ Directory # <<"swagger">>
  BY DEF Directory
<1>2. RemoveTrailingSlash(Directory) = Directory
  BY <1>1 DEF RemoveTrailingSlash, Skipper
<1>3. Routes(Directory) = Handler("")
  BY <1>1 DEF Routes
<1>. QED
  BY <1>2, <1>3 DEF Get, Handler

LEMMA GetSpec == Get(<<"openapi.json">>) = Content("openapi.json")
<1>1. RemoveTrailingSlash(<<"openapi.json">>) = <<"openapi.json">>
  BY DEF RemoveTrailingSlash
<1>. QED
  BY <1>1 DEF Get, Routes

LEMMA GetBare == Get(<<"swagger">>) = Redirect(Directory)
<1>1. RemoveTrailingSlash(<<"swagger">>) = <<"swagger">>
  BY DEF RemoveTrailingSlash
<1>2. Routes(<<"swagger">>) = SwaggerRoute
  BY DEF Routes
<1>. QED
  BY <1>1, <1>2 DEF Get, SwaggerRoute, Directory

LEMMA GetBelow ==
  ASSUME NEW name
  PROVE  Get(<<"swagger", name>>) = Handler(name)
<1>. DEFINE path == <<"swagger", name>>
<1>1. /\ Len(path) = 2 /\ path[1] = "swagger" /\ path[2] = name
      /\ path # <<"openapi.json">> /\ path # <<"swagger">>
  OBVIOUS
<1>2. RemoveTrailingSlash(path) = path
  BY <1>1 DEF RemoveTrailingSlash, Skipper
<1>3. Routes(path) = Handler(name)
  BY <1>1 DEF Routes
<1>. QED
  BY <1>2, <1>3 DEF Get

(* Every address of the page is the directory, or is redirected to it.     *)
LEMMA GetAddress ==
  ASSUME NEW path \in Addresses
  PROVE  \/ path = Directory /\ Get(path) = Content("index.html")
         \/ path # Directory /\ Get(path) = Redirect(Directory)
<1>1. Get(<<"swagger", "index.html">>) = Redirect(Directory)
  <2>1. Get(<<"swagger", "index.html">>) = Handler("index.html")
    BY GetBelow
  <2>. QED
    BY <2>1 DEF Handler, Directory
<1>2. <<"swagger">> # Directory /\ <<"swagger", "index.html">> # Directory
  BY DEF Directory
<1>. QED
  BY <1>1, <1>2, GetDirectory, GetBare DEF Addresses, Directory

LEMMA AppendToOne ==
  ASSUME NEW a, NEW b
  PROVE  Append(<<a>>, b) = <<a, b>>
<1>. DEFINE S == {a, b}
<1>1. <<a>> \in Seq(S) /\ <<a, b>> \in Seq(S) /\ Len(<<a>>) = 1 /\ b \in S
  OBVIOUS
<1>2. /\ Append(<<a>>, b) \in Seq(S)
      /\ Len(Append(<<a>>, b)) = 2
      /\ \A i \in 1 .. 1 : Append(<<a>>, b)[i] = <<a>>[i]
      /\ Append(<<a>>, b)[2] = b
  BY <1>1, AppendProperties
<1>3. \A i \in 1 .. 2 : Append(<<a>>, b)[i] = <<a, b>>[i]
  BY <1>2
<1>. QED
  BY <1>1, <1>2, <1>3, SeqEqual

LEMMA FrontOfDirectory == Front(Directory) = <<"swagger">>
<1>1. Len(Directory) = 2 /\ Directory[1] = "swagger"
  BY DEF Directory
<1>2. /\ SubSeq(Directory, 1, 1) \in Seq({"swagger"})
      /\ Len(SubSeq(Directory, 1, 1)) = 1
      /\ SubSeq(Directory, 1, 1)[1] = "swagger"
  <2>1. \A i \in 1 .. 1 : Directory[i] \in {"swagger"}
    BY <1>1
  <2>. QED
    BY <1>1, <2>1, SubSeqProperties
<1>3. SubSeq(Directory, 1, 1) = <<"swagger">>
  <2>1. /\ <<"swagger">> \in Seq({"swagger"}) /\ Len(<<"swagger">>) = 1
        /\ <<"swagger">>[1] = "swagger"
    OBVIOUS
  <2>2. \A i \in 1 .. 1 : SubSeq(Directory, 1, 1)[i] = <<"swagger">>[i]
    BY <1>2, <2>1
  <2>. QED
    BY <1>2, <2>1, <2>2, SeqEqual
<1>. QED
  BY <1>1, <1>3 DEF Front

(* The URLs in the page lead to its files, from the directory.             *)
LEMMA GetFile ==
  ASSUME NEW f \in Files, address = Directory
  PROVE  Get(Relative(f)) = Content(f)
<1>1. f # "" /\ f # "index.html"
  <2>1. \/ f = "swagger-ui.css" \/ f = "index.css" \/ f = "swagger-ui-bundle.js"
        \/ f = "swagger-ui-standalone-preset.js" \/ f = "swagger-initializer.js"
    BY ScriptsAre DEF Files, Sheets
  <2>. QED
    BY <2>1
<1>2. Relative(f) = <<"swagger", f>>
  BY FrontOfDirectory, AppendToOne DEF Relative
<1>3. Handler(f) = Content(f)
  BY <1>1 DEF Handler
<1>. QED
  BY <1>1, <1>2, <1>3, GetBelow

LEMMA ResponsesDiffer ==
  /\ \A name : Content(name) # Failure
  /\ \A path : Redirect(path).status = "moved" /\ Redirect(path).path = path
  /\ \A name : Content(name).status = "ok"
  /\ Failure.status = "failed"
BY DEF Content, Failure, Redirect

-----------------------------------------------------------------------------
(* The inductive invariant.                                                *)

(* A document is only ever loaded from the directory, against which its    *)
(* relative URLs are right, and a file is missing only if its request      *)
(* failed.                                                                 *)
LoadedFromDirectory ==
  page \in {"loading", "ui", "no ui", "shown", "no spec"} => address = Directory

MissingHasCause == \A f \in Files : file[f] = "missing" => failed

IInv == TypeOK /\ LoadedFromDirectory /\ MissingHasCause /\ NotShownHasCause

LEMMA InitIInv == Init => IInv
BY DEF Init, IInv, TypeOK, LoadedFromDirectory, MissingHasCause, NotShownHasCause,
       Addresses, Settled

LEMMA VisitIInv ==
  ASSUME IInv, NEW path \in Addresses, Visit(path)
  PROVE  IInv'
BY DEF Visit, IInv, TypeOK, LoadedFromDirectory, MissingHasCause, NotShownHasCause, Settled

LEMMA DocumentIInv ==
  ASSUME IInv, Document
  PROVE  IInv'
<1>. USE DEF IInv, TypeOK, LoadedFromDirectory, MissingHasCause, NotShownHasCause, Settled
<1>1. PICK response \in {Get(address), Failure} :
        failed' = (failed \/ response = Failure) /\ Open(response)
  BY DEF Document, Fetch
<1>2. page = "opening" /\ address \in Addresses /\ Directory \in Addresses
  BY DEF Document, Addresses, Directory
<1>3. failed' \in BOOLEAN /\ (failed => failed')
  BY <1>1
<1>4. CASE response.status = "moved"
  <2>1. address' = response.path /\ page' = page /\ file' = file
    BY <1>1, <1>4 DEF Open
  <2>2. response # Failure
    BY <1>4, ResponsesDiffer
  <2>3. response = Redirect(Directory)
    BY <1>1, <1>2, <1>4, <2>2, GetAddress, ResponsesDiffer
  <2>4. address' = Directory
    BY <2>1, <2>3, ResponsesDiffer
  <2>. QED
    BY <1>2, <1>3, <2>1, <2>4
<1>5. CASE response.status = "ok"
  <2>1. address' = address /\ page' = "loading" /\ file' = [f \in Files |-> "asked"]
    BY <1>1, <1>5 DEF Open
  <2>2. address = Directory
    BY <1>1, <1>2, <1>5, GetAddress, ResponsesDiffer
  <2>. QED
    BY <1>2, <1>3, <2>1, <2>2
<1>6. CASE response.status \in {"not found", "failed"}
  <2>1. address' = address /\ page' = "no page" /\ file' = file
    BY <1>1, <1>6 DEF Open
  <2>2. response = Failure
    BY <1>1, <1>2, <1>6, GetAddress, ResponsesDiffer
  <2>3. failed'
    BY <1>1, <2>2
  <2>. QED
    BY <1>2, <1>3, <2>1, <2>3
<1>. QED
  BY <1>1, <1>4, <1>5, <1>6 DEF Open

LEMMA FileArrivesIInv ==
  ASSUME IInv, NEW f \in Files, FileArrives(f)
  PROVE  IInv'
<1>. USE DEF IInv, TypeOK, LoadedFromDirectory, MissingHasCause, NotShownHasCause, Settled
<1>1. PICK response \in {Get(Relative(f)), Failure} :
        /\ failed' = (failed \/ response = Failure)
        /\ file' = [file EXCEPT ![f] = IF response = Content(f) THEN "here" ELSE "missing"]
  BY DEF FileArrives, Fetch
<1>2. page = "loading" /\ page' = page /\ address' = address
  BY DEF FileArrives
<1>3. Get(Relative(f)) = Content(f)
  BY <1>2, GetFile
<1>4. failed' \in BOOLEAN /\ (failed => failed')
  BY <1>1
<1>5. file'[f] = "missing" => failed'
  BY <1>1, <1>3
<1>6. \A g \in Files : g # f => file'[g] = file[g]
  BY <1>1
<1>. QED
  BY <1>1, <1>2, <1>4, <1>5, <1>6

LEMMA RunScriptIInv ==
  ASSUME IInv, NEW n \in DOMAIN Scripts, RunScript(n)
  PROVE  IInv'
<1>. USE DEF IInv, TypeOK, LoadedFromDirectory, MissingHasCause, NotShownHasCause, Settled
<1>1. /\ page' = page /\ address' = address /\ failed' = failed
      /\ file' = [file EXCEPT ![Scripts[n]] = "run"]
  BY DEF RunScript
<1>2. file' \in [Files -> {"unasked", "asked", "here", "missing", "run"}]
  BY <1>1
<1>3. \A g \in Files : file'[g] = "missing" => file[g] = "missing"
  BY <1>1
<1>. QED
  BY <1>1, <1>2, <1>3

LEMMA LoadEventIInv ==
  ASSUME IInv, LoadEvent
  PROVE  IInv'
<1>. USE DEF IInv, TypeOK, LoadedFromDirectory, MissingHasCause, NotShownHasCause, Settled
<1>1. /\ page = "loading" /\ address' = address /\ file' = file /\ failed' = failed
      /\ page' = IF onload THEN "ui" ELSE "no ui"
      /\ \A f \in ToSet(Scripts) : file[f] \in {"run", "missing"}
  BY DEF LoadEvent
<1>2. ~failed => onload
  BY <1>1, ScriptsAre DEF onload, SwaggerUIBundle, SwaggerUIStandalonePreset, Files
<1>. QED
  BY <1>1, <1>2

LEMMA SpecArrivesIInv ==
  ASSUME IInv, SpecArrives
  PROVE  IInv'
<1>. USE DEF IInv, TypeOK, LoadedFromDirectory, MissingHasCause, NotShownHasCause, Settled
<1>1. PICK response \in {Get(url), Failure} :
        /\ failed' = (failed \/ response = Failure)
        /\ page' = IF response = Content("openapi.json") THEN "shown" ELSE "no spec"
  BY DEF SpecArrives, Fetch
<1>2. page = "ui" /\ address' = address /\ file' = file
  BY DEF SpecArrives
<1>3. page' = "no spec" => failed'
  BY <1>1, GetSpec DEF url
<1>4. failed' \in BOOLEAN /\ (failed => failed')
  BY <1>1
<1>. QED
  BY <1>1, <1>2, <1>3, <1>4

LEMMA NextIInv == IInv /\ [Next]_vars => IInv'
<1>. SUFFICES ASSUME IInv, [Next]_vars PROVE IInv'
  OBVIOUS
<1>1. CASE Browse
  BY <1>1, DocumentIInv, FileArrivesIInv, RunScriptIInv, LoadEventIInv, SpecArrivesIInv DEF Browse
<1>2. CASE \E path \in Addresses : Visit(path)
  BY <1>2, VisitIInv
<1>3. CASE UNCHANGED vars
  BY <1>3 DEF vars, IInv, TypeOK, LoadedFromDirectory, MissingHasCause, NotShownHasCause, Settled
<1>. QED
  BY <1>1, <1>2, <1>3 DEF Next

LEMMA PageInvariant == Spec => []IInv
BY InitIInv, NextIInv, PTL DEF Spec

(* Only paths that exist are addressed, redirects included, and a file is  *)
(* only ever in a state that the browser gives it.                         *)
THEOREM TypeCorrect == Spec => []TypeOK
<1>1. IInv => TypeOK
  BY DEF IInv
<1>. QED
  BY <1>1, PageInvariant, PTL

(* The documentation is missing only because a request of the visit        *)
(* failed: the address, the relative URLs of the page and the globals of   *)
(* its scripts fit the routes that the server registers.                   *)
THEOREM FailureHasCause == Spec => []NotShownHasCause
<1>1. IInv => NotShownHasCause
  BY DEF IInv
<1>. QED
  BY <1>1, PageInvariant, PTL

-----------------------------------------------------------------------------
(* Redirects.                                                              *)

(* A redirect leads to the directory, and the directory is not redirected. *)
OneRedirect ==
  [][Document /\ page' = "opening" => address # Directory /\ address' = Directory]_vars

(* The browser is redirected at most once in a visit, so removing slashes  *)
(* and adding them does not send it round in circles.                      *)
THEOREM RedirectedOnce == Spec => OneRedirect
<1>1. IInv /\ Document /\ page' = "opening" => address # Directory /\ address' = Directory
  <2>. SUFFICES ASSUME IInv, Document, page' = "opening"
                PROVE  address # Directory /\ address' = Directory
    OBVIOUS
  <2>1. PICK response \in {Get(address), Failure} : Open(response)
    BY DEF Document, Fetch
  <2>2. response.status = "moved" /\ address' = response.path
    BY <2>1 DEF Open
  <2>3. response # Failure
    BY <2>2, ResponsesDiffer
  <2>4. address \in Addresses
    BY DEF IInv, TypeOK
  <2>. QED
    BY <2>1, <2>2, <2>3, <2>4, GetAddress, ResponsesDiffer
<1>. QED
  BY <1>1, PageInvariant, PTL DEF Spec, OneRedirect
=============================================================================
