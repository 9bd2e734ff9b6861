---------------------------- MODULE SessionSetup ----------------------------
(***************************************************************************)
(* From the connected socket to the first command (wrapper.c, lines        *)
(* 127-181): the libssh2 session, its compression preference, the          *)
(* handshake, the list of authentication methods and the login, with the   *)
(* requests and replies of libssh2's session_startup and userauth.c.       *)
(*                                                                         *)
(* The server and the connection are the environment.  A reply may arrive  *)
(* in two pieces: libssh2 then looks at the clock, since waiting for a     *)
(* login reply has a limit of its own (60 seconds), whatever the session's *)
(* timeout is.                                                             *)
(***************************************************************************)
EXTENDS Naturals, Sequences

CONSTANTS
    NullList,   \* the NULL that libssh2_userauth_list may return
    HaveZlib,   \* libssh2 was built with zlib
    Servers,    \* the servers considered, see ServerKinds
    MayLose,    \* the connection may be lost
    MayBeLate   \* an answer may take longer than LIBSSH2_READ_TIMEOUT

Methods == {"password", "publickey"}

(* offers: the methods it lists; accepts: the requests it would grant;      *)
(* comps: the compressions it supports.                                     *)
ServerKinds ==
    [offers : SUBSET Methods, accepts : SUBSET (Methods \cup {"none"}),
     comps : SUBSET {"none", "zlib"}]

ASSUME SessionSetupAssumption ==
    /\ HaveZlib \in BOOLEAN /\ MayLose \in BOOLEAN /\ MayBeLate \in BOOLEAN
    /\ Servers \subseteq ServerKinds
    /\ \A offers \in SUBSET Methods : NullList # offers

VARIABLES
    pc,        \* where the call is; "commands", "raised", "crashed" at the end
    password,  \* ssh_password: "null" (None), "empty" or "set"
    key,       \* ssh_key_path, likewise
    server,    \* the server at the other end
    compress,  \* session->flag.compress
    prefs,     \* session->remote.comp_prefs, <<>> for NULL
    comp,      \* session->remote.comp
    list,      \* user_authentication_methods
    auth,      \* LIBSSH2_STATE_AUTHENTICATED
    wire,      \* the request or reply under way
    granted,   \* the server let the user in
    disclosed, \* history: the credentials that were put to use
    late,      \* the wait for the present reply passed its limit
    lost       \* the connection is gone

session == <<compress, prefs, comp>>
input == <<password, key, server>>
vars == <<pc, input, session, list, auth, wire, granted, disclosed, late, lost>>

Idle == [dir |-> "idle", msg |-> "nothing"]
Message(dir, msg) == [dir |-> dir, msg |-> msg]

Init ==
    /\ pc = "session"
    /\ password \in {"null", "empty", "set"} /\ key \in {"null", "empty", "set"}
    /\ server \in Servers
    /\ compress = FALSE /\ prefs = <<>> /\ comp = "unset"
    /\ list = NullList
    /\ auth = FALSE /\ granted = FALSE
    /\ wire = Idle
    /\ disclosed = {}
    /\ late = FALSE /\ lost = FALSE

Raise == pc' = "raised"

-----------------------------------------------------------------------------
(* The session and the handshake.                                           *)

(* _libssh2_comp_methods: without the session flag only "none".             *)
CompMethods ==
    IF compress /\ HaveZlib THEN <<"zlib", "zlib@openssh.com", "none">>
    ELSE <<"none">>

Supported(name) == \E x \in DOMAIN CompMethods : CompMethods[x] = name

(* Mutant: the preference is stored as it is.                               *)
MethodPref_Unstripped(name) == <<name>>

(* libssh2_session_method_pref, for a list of one name: a name that is not  *)
(* supported is stripped, and with nothing left nothing is changed.         *)
MethodPref(name) == IF Supported(name) THEN <<name>> ELSE prefs

(* Lines 127-142; the result of libssh2_session_method_pref is not looked   *)
(* at.                                                                      *)
CreateSession ==
    /\ pc = "session"
    /\ prefs' = MethodPref("zlib")
    /\ pc' = "banner"
    /\ UNCHANGED <<input, compress, comp, list, auth, wire, granted, disclosed,
                   late, lost>>

(* Banners are exchanged.                                                   *)
Banner ==
    /\ pc = "banner"
    /\ IF lost THEN Raise ELSE pc' = "kex"
    /\ UNCHANGED <<input, session, list, auth, wire, granted, disclosed, late,
                   lost>>

(* kex_agree_comp: the first preference, or method, that the server has.    *)
Agreed(wish) == {x \in DOMAIN wish : wish[x] \in server.comps}
Preference == IF prefs = <<>> THEN CompMethods ELSE prefs

(* Key exchange, for both directions; compression is what varies here.      *)
Kex ==
    /\ pc = "kex"
    /\ \/ /\ ~lost /\ Agreed(Preference) # {} /\ Agreed(CompMethods) # {}
          /\ comp' = Preference[CHOOSE x \in Agreed(Preference) :
                                  \A y \in Agreed(Preference) : x <= y]
          /\ pc' = "service"
       \/ /\ lost \/ Agreed(Preference) = {} \/ Agreed(CompMethods) = {}
          /\ Raise
          /\ UNCHANGED comp
    /\ UNCHANGED <<input, compress, prefs, list, auth, wire, granted,
                   disclosed, late, lost>>

-----------------------------------------------------------------------------
(* Requests and replies.                                                    *)

(* libssh2 sends req at p and then waits at w.                              *)
Send(req, p, w) ==
    /\ pc = p /\ ~lost
    /\ wire' = Message("up", req)
    /\ late' = FALSE
    /\ pc' = w
    /\ UNCHANGED <<input, session, list, auth, granted, lost>>

(* A whole reply, taken at w.                                               *)
Replied(w, msg) == pc = w /\ wire = Message("down", msg)

Take(to) ==
    /\ pc' = to
    /\ wire' = Idle
    /\ UNCHANGED <<input, session, granted, disclosed, late, lost>>

(* Mutant: a connection that is gone is not noticed.                        *)
Broken_Unnoticed == FALSE

(* Nothing can be sent or received any more.                                *)
Broken == lost /\ wire.dir # "down"

(* _libssh2_packet_requirev also fails when the socket wakes it past its    *)
(* limit, with a piece of the reply or with a packet it does not wait for;  *)
(* _libssh2_packet_require does not.                                        *)
TimedOut == late /\ wire.dir \in {"up", "part"}

GiveUp(points, to, cause) ==
    /\ pc \in points /\ cause
    /\ pc' = to
    /\ UNCHANGED <<input, session, list, auth, wire, granted, disclosed, late,
                   lost>>

(* The end of session_startup: the userauth service.                        *)
Service ==
    \/ Send("service", "service", "serviceWait") /\ UNCHANGED disclosed
    \/ /\ Replied("serviceWait", "accept")
       /\ Take("authlist")
       /\ UNCHANGED <<list, auth>>
    \/ /\ Replied("serviceWait", "other")
       /\ Take("raised")
       /\ UNCHANGED <<list, auth>>
    \/ GiveUp({"service", "serviceWait"}, "raised", Broken)

(* Mutant: a server that lists nothing is reported as NULL.                 *)
AuthList_EmptyNull ==
    \/ Send("none", "authlist", "listWait") /\ UNCHANGED disclosed
    \/ /\ Replied("listWait", "success")
       /\ Take("choose")
       /\ auth' = TRUE
       /\ UNCHANGED list
    \/ /\ Replied("listWait", "failure")
       /\ Take("choose")
       /\ list' = IF server.offers = {} THEN NullList ELSE server.offers
       /\ UNCHANGED auth
    \/ GiveUp({"authlist", "listWait"}, "choose", Broken \/ TimedOut)

(* Line 154.  libssh2_userauth_list asks for "none" and returns what the    *)
(* server lists when it refuses; it returns NULL when it cannot ask, gets   *)
(* no answer, and when the server lets the user in.                         *)
AuthList ==
    \/ Send("none", "authlist", "listWait") /\ UNCHANGED disclosed
    \/ /\ Replied("listWait", "success")
       /\ Take("choose")
       /\ auth' = TRUE
       /\ UNCHANGED list
    \/ /\ Replied("listWait", "failure")
       /\ Take("choose")
       /\ list' = server.offers
       /\ UNCHANGED auth
    \/ GiveUp({"authlist", "listWait"}, "choose", Broken \/ TimedOut)

(* Lines 157-181.  strstr of a NULL list and strlen of a None crash.        *)
PasswordListed == "password" \in list
KeyListed == "publickey" \in list

(* Mutant: the password is tried whether or not the server lists it.        *)
UsePassword_Unlisted == password = "set"

UsePassword == PasswordListed /\ password = "set"
UseKey == ~UsePassword /\ KeyListed /\ key = "set"
NullDereference ==
    \/ list = NullList
    \/ PasswordListed /\ password = "null"
    \/ ~UsePassword /\ KeyListed /\ key = "null"

Choose ==
    /\ pc = "choose"
    /\ pc' = IF NullDereference THEN "crashed"
             ELSE IF UsePassword THEN "password"
             ELSE IF UseKey THEN "key" ELSE "raised"
    /\ UNCHANGED <<input, session, list, auth, wire, granted, disclosed, late,
                   lost>>

(* Mutant: any answer but a refusal counts as a login.                      *)
Login_Lenient(w) ==
    \/ /\ Replied(w, "success") \/ Replied(w, "changereq")
       /\ Take("commands")
       /\ auth' = TRUE
       /\ UNCHANGED list
    \/ /\ Replied(w, "failure")
       /\ Take("raised")
       /\ UNCHANGED <<list, auth>>

(* The outcome of a login request whose reply comes at w.                   *)
Login(w) ==
    \/ /\ Replied(w, "success")
       /\ Take("commands")
       /\ auth' = TRUE
       /\ UNCHANGED list
    \/ /\ Replied(w, "failure") \/ Replied(w, "changereq")
       /\ Take("raised")
       /\ UNCHANGED <<list, auth>>

(* Lines 159-165.  There is no callback for an expired password.            *)
PasswordLogin ==
    \/ /\ Send("password", "password", "passwordWait")
       /\ disclosed' = disclosed \cup {"password"}
    \/ Login("passwordWait")
    \/ GiveUp({"password", "passwordWait"}, "raised", Broken \/ TimedOut)

(* Lines 168-175.  The key file is read first; the key is then offered      *)
(* without a signature, and signed once the server says it would do.        *)
KeyLogin ==
    \/ /\ Send("probe", "key", "probeWait")
       /\ disclosed' = disclosed \cup {"publickey"}
    \/ /\ pc = "key"
       /\ Raise
       /\ UNCHANGED <<input, session, list, auth, wire, granted, disclosed,
                      late, lost>>
    \/ /\ Replied("probeWait", "pk_ok")
       /\ Take("sign")
       /\ UNCHANGED <<list, auth>>
    \/ Send("signed", "sign", "signedWait") /\ UNCHANGED disclosed
    \/ Login("probeWait") \/ Login("signedWait")
    \/ GiveUp({"probeWait", "sign", "signedWait"}, "raised", Broken \/ TimedOut)

Client ==
    \/ CreateSession \/ Banner \/ Kex \/ Service
    \/ AuthList \/ Choose \/ PasswordLogin \/ KeyLogin

-----------------------------------------------------------------------------
(* The environment.                                                         *)

(* What the server may answer, and whether the answer lets the user in.     *)
Answers(req) ==
    CASE req = "service"  -> {"accept", "other"}
      [] req = "none"     -> IF "none" \in server.accepts
                             THEN {"success"} ELSE {"failure"}
      [] req = "password" -> IF "password" \in server.accepts
                             THEN {"success"} ELSE {"failure", "changereq"}
      [] req = "probe"    -> IF "publickey" \in server.accepts
                             THEN {"pk_ok", "success"} ELSE {"failure"}
      [] req = "signed"   -> IF "publickey" \in server.accepts
                             THEN {"success"} ELSE {"failure"}

Answer ==
    /\ wire.dir = "up" /\ ~lost
    /\ \E msg \in Answers(wire.msg), dir \in {"part", "down"} :
          /\ wire' = Message(dir, msg)
          /\ granted' = (granted \/ msg = "success")
    /\ UNCHANGED <<pc, input, session, list, auth, disclosed, late, lost>>

(* The rest of a reply arrives.                                             *)
Rest ==
    /\ wire.dir = "part" /\ ~lost
    /\ wire' = [wire EXCEPT !.dir = "down"]
    /\ UNCHANGED <<pc, input, session, list, auth, granted, disclosed, late,
                   lost>>

(* More than LIBSSH2_READ_TIMEOUT seconds pass.                             *)
Elapse ==
    /\ MayBeLate /\ wire.dir \in {"up", "part"} /\ ~late
    /\ late' = TRUE
    /\ UNCHANGED <<pc, input, session, list, auth, wire, granted, disclosed,
                   lost>>

Lose ==
    /\ MayLose /\ ~lost
    /\ lost' = TRUE
    /\ UNCHANGED <<pc, input, session, list, auth, wire, granted, disclosed,
                   late>>

Next == Client \/ Answer \/ Rest \/ Elapse \/ Lose

Spec == Init /\ [][Next]_vars

(* The call goes on; the server answers and its answers arrive.             *)
FairSpec == Spec /\ WF_vars(Client) /\ WF_vars(Answer) /\ WF_vars(Rest)

-----------------------------------------------------------------------------
PcValues ==
    {"session", "banner", "kex", "service", "serviceWait", "authlist",
     "listWait", "choose", "password", "passwordWait", "key", "probeWait",
     "sign", "signedWait", "commands", "raised", "crashed"}

Messages ==
    {"nothing", "service", "none", "password", "probe", "signed", "accept",
     "other", "success", "failure", "changereq", "pk_ok"}

(* What is preferred and agreed on is supported by this session.            *)
SessionTypes ==
    /\ compress \in BOOLEAN
    /\ \A x \in DOMAIN prefs : Supported(prefs[x])
    /\ comp = "unset" \/ Supported(comp)

(* The shapes of the session, of the list and of what is under way; with    *)
(* kex_agree_comp's "Invalid method -- Should never be reached".            *)
TypeOK ==
    /\ pc \in PcValues
    /\ password \in {"null", "empty", "set"} /\ key \in {"null", "empty", "set"}
    /\ server \in Servers
    /\ SessionTypes
    /\ list = NullList \/ list \subseteq Methods
    /\ auth \in BOOLEAN /\ granted \in BOOLEAN
    /\ wire \in [dir : {"idle", "up", "part", "down"}, msg : Messages]
    /\ disclosed \subseteq Methods
    /\ late \in BOOLEAN /\ lost \in BOOLEAN

(* The call reaches the commands only on a session that both ends hold to   *)
(* be logged in, by a credential the caller gave and the server accepted.   *)
LoggedIn ==
    /\ auth => granted
    /\ pc = "commands" =>
          /\ auth
          /\ \E m \in disclosed : m \in server.accepts

(* A credential is used only if the server listed its method and the caller *)
(* gave it, and a call uses one at most: after a refused password the key   *)
(* is not tried, and with a usable password the key file is not touched.    *)
OneCredential ==
    /\ disclosed # {} => list # NullList
    /\ "password" \in disclosed =>
          PasswordListed /\ password = "set" /\ "publickey" \notin disclosed
    /\ "publickey" \in disclosed =>
          KeyListed /\ key = "set" /\ ~UsePassword

(* With string arguments, a server that refuses "none" and a connection     *)
(* that holds and answers in time, the outcome is a login or an exception.  *)
CrashCauses ==
    pc = "crashed" =>
        \/ password = "null" \/ key = "null"
        \/ lost \/ late
        \/ granted /\ "none" \in server.accepts

(* The login comes to an end.                                               *)
SetupEnds == <>(pc \in {"commands", "raised", "crashed"})

=============================================================================
