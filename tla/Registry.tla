------------------------------ MODULE Registry ------------------------------
(***************************************************************************)
(* app/cfgstore.py and the *_add, *_delete tools of the modules that keep  *)
(* one JSON file per endpoint: an update is merged over the stored entry.  *)
(* The framework fills parameters left out with their defaults; "" stands  *)
(* for every value cfgstore takes for a default ("", False, 0).  Then the  *)
(* refusals of call_service.                                               *)
(*                                                                         *)
(* One entry of one tool, and one of its optional parameters followed from *)
(* call to call; one call at a time writes an entry.                       *)
(***************************************************************************)
CONSTANTS
  Tools,            \* the *_add tools in use
  Given,            \* values callers pass besides ""
  Missing, Torn,    \* no such file; truncated, not yet filled
  None              \* nothing written; never passed

VARIABLES
  tool, field,    \* the tool and the parameter followed
  entry,          \* the file
  writing,        \* what the call under way is about to fill in
  wish,           \* the last value passed for field since the entry began
  reached         \* call_service has read from a sink wished to be write_only

vars == <<tool, field, entry, writing, wish, reached>>

(* What the constants stand for.                                           *)
ConstantsOK == None \notin Given \cup {""}

(* The optional parameters and their defaults.                             *)
service_add == [token_env |-> "", auth_scheme |-> "Bearer", auth_header |-> "Authorization",
                description |-> "", category |-> "", write_only |-> ""]
mqtt_add == [port |-> "8883", tls |-> "True", tls_insecure |-> "", username |-> "",
             password_env |-> "", client_id |-> "", description |-> ""]
scan_add == [port |-> "", base |-> "/eSCL", tls |-> "auto", ca_bundle |-> "",
             tls_insecure |-> "", description |-> ""]
ftp_add == [port |-> "21", tls |-> "none", tls_insecure |-> "", username |-> "",
            password_env |-> "", description |-> ""]
webdav_add == [username |-> "", password_env |-> "", tls_insecure |-> "", ca_bundle |-> "",
               description |-> ""]
ssh_add == [port |-> "22", password_env |-> "", key_env |-> "", description |-> ""]
print_add == [port |-> "631", path |-> "/ipp/print", description |-> ""]
mcp_add == [transport |-> "http", token_env |-> "", auth_header |-> "Authorization",
            auth_scheme |-> "Bearer", description |-> ""]
mail_add == [port |-> "587", username |-> "", password_env |-> "", security |-> "starttls",
             description |-> ""]

Defaults(t) ==
  CASE t = "service_add" -> service_add [] t = "mqtt_add" -> mqtt_add
    [] t = "scan_add" -> scan_add [] t = "ftp_add" -> ftp_add
    [] t = "webdav_add" -> webdav_add [] t = "ssh_add" -> ssh_add
    [] t = "print_add" -> print_add [] t = "mcp_add" -> mcp_add
    [] t = "mail_add" -> mail_add

Fields == DOMAIN Defaults(tool)
Values == Given \cup {"", Defaults(tool)[field]}
Stored == entry \notin {Missing, Torn}

TypeOK ==
  /\ tool \in Tools /\ field \in Fields
  /\ Stored => DOMAIN entry = Fields /\ entry[field] \in Values
  /\ writing # None => DOMAIN writing = Fields /\ writing[field] \in Values
  /\ wish \in Values \cup {None}
  /\ reached \in BOOLEAN

Init ==
  /\ tool \in Tools /\ field \in Fields
  /\ entry = Missing
  /\ writing = None
  /\ wish = None
  /\ reached = FALSE

-----------------------------------------------------------------------------
(* What write_merged reads: {} for a file that is missing or unreadable.   *)
Existing == IF Stored THEN entry ELSE <<>>

Overlay(old, new) == new

Merge(old, new) ==
  [f \in DOMAIN new |-> IF new[f] = "" /\ f \in DOMAIN old THEN old[f] ELSE new[f]]

(* The house rule of service_add.                                          *)
Refused(cfg) ==
  tool = "service_add" /\ cfg["category"] = "" /\ ~ (Stored /\ entry["category"] # "")

(* "param or default" in the tool.                                         *)
NeverEmpty ==
  {"auth_header", "base", "path", "transport", "security"}
    \cup (IF tool = "ftp_add" THEN {"tls"} ELSE {})

(* What the tool makes of the parameters passed.                           *)
Filled(passed) ==
  [f \in Fields |->
     IF f \in DOMAIN passed /\ ~ (passed[f] = "" /\ f \in NeverEmpty)
     THEN passed[f] ELSE Defaults(tool)[f]]

(* The file is read and truncated; an entry over a torn one has no past.   *)
Add(passed) ==
  LET cfg == Filled(passed)
      known == IF Stored THEN wish ELSE None
  IN
  /\ writing = None
  /\ ~ Refused(cfg)
  /\ writing' = Merge(Existing, cfg)
  /\ entry' = Torn
  /\ wish' = IF field \in DOMAIN passed /\ (passed[field] # "" \/ known = None)
             THEN passed[field] ELSE known
  /\ UNCHANGED <<tool, field, reached>>

Registered ==
  /\ writing # None
  /\ entry' = writing
  /\ writing' = None
  /\ UNCHANGED <<tool, field, wish, reached>>

Delete ==
  /\ entry # Missing /\ writing = None
  /\ entry' = Missing
  /\ wish' = None
  /\ UNCHANGED <<tool, field, writing, reached>>

(* An unknown or unreadable service, and an ingest-only one, is refused.   *)
CallService ==
  /\ tool = "service_add" /\ Stored
  /\ entry["write_only"] = ""
  /\ reached' = (reached \/ (field = "write_only" /\ wish \notin {None, ""}))
  /\ UNCHANGED <<tool, field, entry, writing, wish>>

Restart ==
  /\ writing # None
  /\ writing' = None
  /\ UNCHANGED <<tool, field, entry, wish, reached>>

(* Callers pass the parameter or not, and a category or not.               *)
Passed ==
  UNION {[fs -> Values] : fs \in SUBSET ({field} \cup (Fields \cap {"category"}))}

Next == Registered \/ Delete \/ CallService \/ Restart \/ \E p \in Passed : Add(p)

Spec == Init /\ [][Next]_vars

-----------------------------------------------------------------------------
(* cfgstore.py:16-18 "you can't accidentally drop a token or unlock an     *)
(* ingest-only sink by forgetting a parameter": what was once passed for a *)
(* parameter whose default is empty stays through every update, until the  *)
(* entry is deleted or lost half-written; and call_service never reads     *)
(* from an ingest-only sink, whatever updates it went through.             *)
CredentialsKept ==
  /\ Stored /\ wish # None /\ Defaults(tool)[field] = "" => entry[field] = wish
  /\ ~ reached

(* It is inductive together with this: what is about to be filled in, like *)
(* what is there, has the value last passed, and "" before one was.        *)
Wished(e) ==
  Defaults(tool)[field] = "" => e[field] = IF wish = None THEN "" ELSE wish

IInv ==
  /\ TypeOK
  /\ Stored => Wished(entry)
  /\ writing # None => Wished(writing)
  /\ ~ reached
=============================================================================
