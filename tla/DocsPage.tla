------------------------------ MODULE DocsPage ------------------------------
(***************************************************************************)
(* The API documentation: the routes that App.initEcho registers for       *)
(* Swagger UI and the OpenAPI document, and the page a browser builds from *)
(* them (pkg/swagger-ui/index.html and swagger-initializer.js).  Paths are *)
(* the segments below /api/v1; a trailing slash is an empty last segment.  *)
(***************************************************************************)
EXTENDS Naturals, Sequences, SequencesExt

VARIABLES
  address,  \* the path of the document
  page,     \* how far the browser is with it
  file,     \* file[f]: what has become of a style sheet or script of the page
  failed    \* history: a request of this visit has failed

vars == <<address, page, file, failed>>

-----------------------------------------------------------------------------
(* The server.                                                             *)

(* What index.html names: the scripts in document order.                   *)
Sheets  == {"swagger-ui.css", "index.css"}
Scripts == <<"swagger-ui-bundle.js", "swagger-ui-standalone-preset.js", "swagger-initializer.js">>
Files   == Sheets \cup ToSet(Scripts)

Redirect(path) == [status |-> "moved", path |-> path]
Content(name)  == [status |-> "ok", name |-> name]
NotFound       == [status |-> "not found"]
Failure        == [status |-> "failed"]

(* http.FileServer over the embedded files: a directory is its index.html, *)
(* and index.html by name is redirected to the directory.                  *)
Handler(name) ==
  IF name = "" THEN Content("index.html")
  ELSE IF name = "index.html" THEN Redirect(<<"swagger", "">>)
  ELSE IF name \in Files THEN Content(name)
  ELSE NotFound

(* Mutant: the slash is removed below /swagger too.                        *)
Skipper_Never(path) == FALSE

Skipper(path) == path[1] = "swagger"

RemoveTrailingSlash(path) ==
  IF Last(path) = "" /\ Len(path) > 1 /\ ~Skipper(path) THEN Front(path) ELSE path

(* Mutants: the page is served without the slash; the prefix is forgotten. *)
SwaggerRoute_Served == Content("index.html")
SwaggerRoute_Root   == Redirect(<<"">>)

SwaggerRoute == Redirect(<<"swagger", "">>)

Routes(path) ==
  CASE path = <<"openapi.json">>            -> Content("openapi.json")
    [] path = <<"swagger">>                 -> SwaggerRoute
    [] Len(path) = 2 /\ path[1] = "swagger" -> Handler(path[2])
    [] OTHER                                -> NotFound

Get(path) == Routes(RemoveTrailingSlash(path))

-----------------------------------------------------------------------------
(* The browser.                                                            *)

Addresses == {<<"swagger">>, <<"swagger", "">>, <<"swagger", "index.html">>}

(* A relative URL "./name" replaces the last segment of the document's.    *)
Relative(name) == Append(Front(address), name)

Init ==
  /\ address = <<"swagger">>
  /\ page = "none"
  /\ file = [f \in Files |-> "unasked"]
  /\ failed = FALSE

(* The user enters an address or reloads, whatever the page was doing.     *)
Visit(path) ==
  /\ address' = path
  /\ page' = "opening"
  /\ file' = [f \in Files |-> "unasked"]
  /\ failed' = FALSE

(* The server answers, or the request fails: no connection, or status 500. *)
Fetch(path, Use(_)) ==
  \E response \in {Get(path), Failure} :
    /\ failed' = (failed \/ response = Failure)
    /\ Use(response)

Open(response) ==
  \/ /\ response.status = "moved"
     /\ address' = response.path
     /\ UNCHANGED <<page, file>>
  \/ /\ response.status = "ok"
     /\ page' = "loading"
     /\ file' = [f \in Files |-> "asked"]
     /\ UNCHANGED address
  \/ /\ response.status \in {"not found", "failed"}
     /\ page' = "no page"
     /\ UNCHANGED <<address, file>>

Document == page = "opening" /\ Fetch(address, Open)

(* Files are downloaded side by side and arrive in any order.              *)
FileArrives(f) ==
  /\ page = "loading"
  /\ file[f] = "asked"
  /\ Fetch(Relative(f), LAMBDA response :
       file' = [file EXCEPT ![f] = IF response = Content(f) THEN "here" ELSE "missing"])
  /\ UNCHANGED <<address, page>>

(* Scripts run in document order and after the style sheets above them;    *)
(* a file that is missing is passed over.                                  *)
RunScript(n) ==
  /\ page = "loading"
  /\ file[Scripts[n]] = "here"
  /\ \A m \in 1 .. n - 1 : file[Scripts[m]] \in {"run", "missing"}
  /\ \A f \in Sheets : file[f] # "asked"
  /\ file' = [file EXCEPT ![Scripts[n]] = "run"]
  /\ UNCHANGED <<address, page, failed>>

(* The globals that the onload handler names, each set by a script: a      *)
(* missing one is an exception.                                            *)
SwaggerUIBundle           == file["swagger-ui-bundle.js"] = "run"
SwaggerUIStandalonePreset == file["swagger-ui-standalone-preset.js"] = "run"

(* window.onload is the initializer's handler, which builds window.ui.     *)
onload ==
  /\ file["swagger-initializer.js"] = "run"
  /\ SwaggerUIBundle
  /\ SwaggerUIStandalonePreset

(* The load event follows the last of the files.                           *)
LoadEvent ==
  /\ page = "loading"
  /\ \A f \in Sheets : file[f] # "asked"
  /\ \A f \in ToSet(Scripts) : file[f] \in {"run", "missing"}
  /\ page' = IF onload THEN "ui" ELSE "no ui"
  /\ UNCHANGED <<address, file, failed>>

(* Mutant: the URL is relative to the page.                                *)
url_Relative == Relative("openapi.json")

url == <<"openapi.json">>

(* The ui asks for the OpenAPI document and shows it, or an error.         *)
SpecArrives ==
  /\ page = "ui"
  /\ Fetch(url, LAMBDA response :
       page' = IF response = Content("openapi.json") THEN "shown" ELSE "no spec")
  /\ UNCHANGED <<address, file>>

Browse ==
  \/ Document
  \/ \E f \in Files : FileArrives(f)
  \/ \E n \in DOMAIN Scripts : RunScript(n)
  \/ LoadEvent
  \/ SpecArrives

Next == Browse \/ \E path \in Addresses : Visit(path)

(* The browser goes on as long as requests are answered.                   *)
Spec == Init /\ [][Next]_vars /\ WF_vars(Browse /\ UNCHANGED failed)

-----------------------------------------------------------------------------
Settled == {"none", "shown", "no page", "no ui", "no spec"}

(* Variables have their types, and only paths that exist are addressed.    *)
TypeOK ==
  /\ address \in Addresses
  /\ page \in Settled \cup {"opening", "loading", "ui"}
  /\ file \in [Files -> {"unasked", "asked", "here", "missing", "run"}]
  /\ failed \in BOOLEAN

(* Whatever address was entered and in whatever order the files came, the  *)
(* documentation is missing only because a request of this visit failed:   *)
(* routes, relative URLs and the globals of the initializer fit together.  *)
NotShownHasCause ==
  page \in {"no page", "no ui", "no spec"} => failed

(* A visit that the user does not interrupt comes to an end: redirects and *)
(* the removal of slashes do not send the browser round in circles.        *)
EveryVisitEnds ==
  <>[][\A path \in Addresses : ~Visit(path)]_vars => <>[](page \in Settled)
=============================================================================
