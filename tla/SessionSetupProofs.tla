------------------------- MODULE SessionSetupProofs -------------------------
(***************************************************************************)
(* Proofs for SessionSetup: for every set of servers, with or without      *)
(* zlib, losses and late answers.  The invariant ties the reply under way  *)
(* to the place where the call waits for it, and through it the client's   *)
(* view of the login to the server's.                                      *)
(***************************************************************************)
EXTENDS SessionSetup, TLAPS

(* Where the call waits, the request or one of its answers is under way.    *)
Pairing(w, req, answers) ==
    pc = w => \/ wire = Message("up", req)
              \/ wire.dir \in {"part", "down"} /\ wire.msg \in answers

Paired ==
    /\ wire.dir = "up" => wire.msg \in {"service", "none", "password", "probe",
                                        "signed"}
    /\ Pairing("serviceWait", "service", {"accept", "other"})
    /\ Pairing("listWait", "none", {"success", "failure"})
    /\ Pairing("passwordWait", "password", {"success", "failure", "changereq"})
    /\ Pairing("probeWait", "probe", {"pk_ok", "success", "failure"})
    /\ Pairing("signedWait", "signed", {"success", "failure"})

(* A success under way was granted, for a request the server accepts.       *)
Honest ==
    wire.msg = "success" =>
        /\ granted
        /\ pc = "listWait" => "none" \in server.accepts
        /\ pc = "passwordWait" => "password" \in server.accepts
        /\ pc \in {"probeWait", "signedWait"} => "publickey" \in server.accepts

KeyPoints == {"probeWait", "sign", "signedWait"}

(* The credentials in use at each place.                                    *)
Credentials ==
    /\ pc \in {"password", "key"} \cup KeyPoints \cup {"passwordWait"} =>
          list # NullList
    /\ pc \in {"password", "passwordWait"} => UsePassword
    /\ pc \in {"key"} \cup KeyPoints => UseKey
    /\ pc = "passwordWait" => disclosed = {"password"}
    /\ pc \in KeyPoints => disclosed = {"publickey"}
    /\ pc \in {"session", "banner", "kex", "service", "serviceWait",
               "authlist", "listWait", "choose", "password", "key"} =>
          disclosed = {}

(* Why there may be no list when it is looked at.                           *)
ListCauses ==
    pc = "choose" /\ list = NullList =>
        lost \/ late \/ (granted /\ "none" \in server.accepts)

IInv ==
    /\ TypeOK /\ compress = FALSE /\ prefs = <<>>
    /\ Paired /\ Honest /\ Credentials /\ ListCauses
    /\ LoggedIn /\ OneCredential /\ CrashCauses

USE DEF Message, Idle

(* Without the session flag "none" is all there is, and is not "zlib".      *)
LEMMA OnlyNone ==
    ASSUME compress = FALSE
    PROVE  /\ CompMethods = <<"none">>
           /\ \A name : Supported(name) <=> name = "none"
  BY DEF CompMethods, Supported

(* What the server may answer to each request.                              *)
LEMMA AnswersOf ==
    /\ Answers("service") = {"accept", "other"}
    /\ Answers("none") \subseteq {"success", "failure"}
    /\ Answers("password") \subseteq {"success", "failure", "changereq"}
    /\ Answers("probe") \subseteq {"pk_ok", "success", "failure"}
    /\ Answers("signed") \subseteq {"success", "failure"}
    /\ "success" \in Answers("none") => "none" \in server.accepts
    /\ "success" \in Answers("password") => "password" \in server.accepts
    /\ "success" \in Answers("probe") => "publickey" \in server.accepts
    /\ "success" \in Answers("signed") => "publickey" \in server.accepts
  BY DEF Answers

(* The initial states satisfy the invariant.                                *)
LEMMA InitInv == Init => IInv
  <1> SUFFICES ASSUME Init PROVE IInv
    OBVIOUS
  <1>1. TypeOK
    <2>1. \A x \in DOMAIN prefs : Supported(prefs[x])
      BY DEF Init
    <2>2. wire \in [dir : {"idle", "up", "part", "down"}, msg : Messages]
      BY DEF Init, Messages
    <2>3. pc \in PcValues
      BY DEF Init, PcValues
    <2> QED
      BY <2>1, <2>2, <2>3 DEF Init, TypeOK, SessionTypes
  <1>2. compress = FALSE /\ prefs = <<>>
    BY DEF Init
  <1>3. Paired /\ Honest /\ Credentials /\ ListCauses
    BY DEF Init, Paired, Pairing, Honest, Credentials, KeyPoints, ListCauses
  <1>4. LoggedIn /\ OneCredential /\ CrashCauses
    BY DEF Init, LoggedIn, OneCredential, CrashCauses
  <1> QED
    BY <1>1, <1>2, <1>3, <1>4 DEF IInv

(* The session, the banner and the key exchange.                            *)
LEMMA HandshakeInv ==
    IInv /\ (CreateSession \/ Banner \/ Kex) => IInv'
  <1> SUFFICES ASSUME IInv, CreateSession \/ Banner \/ Kex PROVE IInv'
    OBVIOUS
  <1>1. compress = FALSE /\ compress' = FALSE
    BY DEF IInv, CreateSession, Banner, Kex, session
  <1>2. /\ CompMethods = <<"none">> /\ \A name : Supported(name) <=> name = "none"
        /\ \A name : Supported(name)' <=> name = "none"
    BY <1>1, OnlyNone DEF Supported, CompMethods
  <1>3. CASE CreateSession
    BY <1>1, <1>2, <1>3
       DEF IInv, CreateSession, MethodPref, input, TypeOK, SessionTypes,
           PcValues, Paired,
           Pairing, Honest, Credentials, KeyPoints, ListCauses, LoggedIn,
           OneCredential, CrashCauses, UsePassword, UseKey, PasswordListed,
           KeyListed
  <1>4. CASE Banner
    BY <1>1, <1>2, <1>4
       DEF IInv, Banner, Raise, input, session, TypeOK, SessionTypes,
           PcValues, Paired,
           Pairing, Honest, Credentials, KeyPoints, ListCauses, LoggedIn,
           OneCredential, CrashCauses, UsePassword, UseKey, PasswordListed,
           KeyListed
  <1>5. CASE Kex
    <2>1. comp' = "none" \/ comp' = comp
      <3> SUFFICES ASSUME Agreed(Preference) # {},
                          comp' = Preference[CHOOSE x \in Agreed(Preference) :
                                    \A y \in Agreed(Preference) : x <= y]
                   PROVE  comp' = "none"
        BY <1>5 DEF Kex
      <3>1. Preference = <<"none">>
        BY <1>2 DEF IInv, Preference
      <3>2. Agreed(Preference) = {1}
        BY <3>1 DEF Agreed
      <3>3. (CHOOSE x \in {1} : \A y \in {1} : x <= y) = 1
        OBVIOUS
      <3> QED
        BY <3>1, <3>2, <3>3
    <2> QED
      BY <1>1, <1>2, <1>5, <2>1
         DEF IInv, Kex, Raise, input, TypeOK, SessionTypes, PcValues, Paired,
             Pairing, Honest, Credentials, KeyPoints, ListCauses, LoggedIn,
             OneCredential, CrashCauses, UsePassword, UseKey, PasswordListed,
             KeyListed
  <1> QED
    BY <1>3, <1>4, <1>5

(* A step that leaves the session alone keeps its part of the types.        *)
LEMMA SessionKept ==
    ASSUME IInv, UNCHANGED session
    PROVE  compress' = FALSE /\ prefs' = <<>> /\ SessionTypes'
  <1>1. compress = FALSE /\ compress' = FALSE /\ prefs' = <<>>
    BY DEF IInv, session
  <1>2. comp = "unset" \/ comp = "none"
    BY <1>1, OnlyNone DEF IInv, TypeOK, SessionTypes
  <1>3. Supported("none")'
    BY <1>1 DEF Supported, CompMethods
  <1>4. comp' = "unset" \/ Supported(comp)'
    <2>1. CASE comp = "unset"
      BY <2>1 DEF session
    <2>2. CASE comp = "none"
      BY <2>2, <1>3 DEF session
    <2> QED
      BY <1>2, <2>1, <2>2
  <1>5. \A x \in DOMAIN prefs' : Supported(prefs[x])'
    BY <1>1
  <1> QED
    BY <1>1, <1>4, <1>5 DEF SessionTypes

(* The request for the userauth service and its answers.                    *)
LEMMA ServiceInv == IInv /\ Service => IInv'
  <1> SUFFICES ASSUME IInv, Service PROVE IInv'
    OBVIOUS
  <1>0. UNCHANGED session
    BY DEF Service, Send, Replied, Take, GiveUp, Broken
  <1>s. compress' = FALSE /\ prefs' = <<>> /\ SessionTypes'
    BY <1>0, SessionKept
  <1>w. wire' \in [dir : {"idle", "up", "part", "down"}, msg : Messages]
    BY DEF Service, Send, Replied, Take, GiveUp, Broken, IInv, TypeOK,
       Messages
  <1>i. UNCHANGED input /\ lost' = lost
    BY DEF Service, Send, Replied, Take, GiveUp, Broken
  <1>p. pc' \in PcValues
    BY DEF Service, Send, Replied, Take, GiveUp, Broken, IInv, TypeOK, PcValues
  <1>b. auth' \in BOOLEAN /\ granted' \in BOOLEAN /\ late' \in BOOLEAN
    BY DEF Service, Send, Replied, Take, GiveUp, Broken, IInv, TypeOK
  <1>d. disclosed' \subseteq Methods
    BY DEF Service, Send, Replied, Take, GiveUp, Broken, IInv, TypeOK, Methods
  <1>l. list' = list
    BY DEF Service, Send, Replied, Take, GiveUp, Broken
  <1>1. TypeOK' /\ compress' = FALSE /\ prefs' = <<>>
    BY <1>s, <1>w, <1>i, <1>p, <1>b, <1>d, <1>l DEF IInv, TypeOK, input
  <1>2. Paired'
    BY DEF Service, Send, Replied, Take, GiveUp, Broken, IInv, TypeOK,
       Paired, Pairing, input
  <1>3. Honest'
    BY DEF Service, Send, Replied, Take, GiveUp, Broken, IInv, TypeOK,
       Paired, Pairing, Honest, input
  <1>4. Credentials'
    BY DEF Service, Send, Replied, Take, GiveUp, Broken, IInv,
       Credentials, KeyPoints, UsePassword, UseKey, PasswordListed,
       KeyListed, input
  <1>5. ListCauses' /\ CrashCauses'
    BY SessionSetupAssumption DEF Service, Send, Replied, Take, GiveUp,
       Broken, IInv, ListCauses, CrashCauses, Honest, Paired, Pairing,
       PasswordListed, KeyListed, UsePassword, TypeOK, ServerKinds, input
  <1>6. LoggedIn'
    BY DEF Service, Send, Replied, Take, GiveUp, Broken, IInv, LoggedIn,
       Honest, Credentials, KeyPoints, Paired, Pairing, input
  <1>7. OneCredential'
    BY DEF Service, Send, Replied, Take, GiveUp, Broken, IInv,
       OneCredential, Credentials, KeyPoints, UsePassword, UseKey,
       PasswordListed, KeyListed, input
  <1> QED
    BY <1>1, <1>2, <1>3, <1>4, <1>5, <1>6, <1>7 DEF IInv

(* The request that lists the methods.                                      *)
LEMMA AuthListInv == IInv /\ AuthList => IInv'
  <1> SUFFICES ASSUME IInv, AuthList PROVE IInv'
    OBVIOUS
  <1>0. UNCHANGED session
    BY DEF AuthList, Send, Replied, Take, GiveUp, Broken, TimedOut
  <1>s. compress' = FALSE /\ prefs' = <<>> /\ SessionTypes'
    BY <1>0, SessionKept
  <1>w. wire' \in [dir : {"idle", "up", "part", "down"}, msg : Messages]
    BY DEF AuthList, Send, Replied, Take, GiveUp, Broken, TimedOut, IInv,
       TypeOK, Messages
  <1>i. UNCHANGED input /\ lost' = lost
    BY DEF AuthList, Send, Replied, Take, GiveUp, Broken, TimedOut
  <1>p. pc' \in PcValues
    BY DEF AuthList, Send, Replied, Take, GiveUp, Broken, TimedOut, IInv, TypeOK, PcValues
  <1>b. auth' \in BOOLEAN /\ granted' \in BOOLEAN /\ late' \in BOOLEAN
    BY DEF AuthList, Send, Replied, Take, GiveUp, Broken, TimedOut, IInv, TypeOK
  <1>d. disclosed' \subseteq Methods
    BY DEF AuthList, Send, Replied, Take, GiveUp, Broken, TimedOut, IInv, TypeOK, Methods
  <1>l. list' = NullList \/ list' \subseteq Methods
    <2>1. list' = list \/ list' = server.offers
      BY DEF AuthList, Send, Replied, Take, GiveUp, Broken, TimedOut
    <2>2. server.offers \subseteq Methods
      BY SessionSetupAssumption DEF IInv, TypeOK, ServerKinds
    <2> QED
      BY <2>1, <2>2 DEF IInv, TypeOK
  <1>1. TypeOK' /\ compress' = FALSE /\ prefs' = <<>>
    BY <1>s, <1>w, <1>i, <1>p, <1>b, <1>d, <1>l DEF IInv, TypeOK, input
  <1>2. Paired'
    BY DEF AuthList, Send, Replied, Take, GiveUp, Broken, TimedOut, IInv,
       TypeOK, Paired, Pairing, input
  <1>3. Honest'
    BY DEF AuthList, Send, Replied, Take, GiveUp, Broken, TimedOut, IInv,
       TypeOK, Paired, Pairing, Honest, input
  <1>4. Credentials'
    BY DEF AuthList, Send, Replied, Take, GiveUp, Broken, TimedOut, IInv,
       Credentials, KeyPoints, UsePassword, UseKey, PasswordListed,
       KeyListed, input
  <1>5. ListCauses' /\ CrashCauses'
    BY SessionSetupAssumption DEF AuthList, Send, Replied, Take, GiveUp,
       Broken, TimedOut, IInv, ListCauses, CrashCauses, Honest, Paired,
       Pairing, PasswordListed, KeyListed, UsePassword, TypeOK,
       ServerKinds, input
  <1>6. LoggedIn'
    BY DEF AuthList, Send, Replied, Take, GiveUp, Broken, TimedOut, IInv,
       LoggedIn, Honest, Credentials, KeyPoints, Paired, Pairing, input
  <1>7. OneCredential'
    BY DEF AuthList, Send, Replied, Take, GiveUp, Broken, TimedOut, IInv,
       OneCredential, Credentials, KeyPoints, UsePassword, UseKey,
       PasswordListed, KeyListed, input
  <1> QED
    BY <1>1, <1>2, <1>3, <1>4, <1>5, <1>6, <1>7 DEF IInv

(* The choice of the method.                                                *)
LEMMA ChooseInv == IInv /\ Choose => IInv'
  <1> SUFFICES ASSUME IInv, Choose PROVE IInv'
    OBVIOUS
  <1>0. UNCHANGED session
    BY DEF Choose, NullDereference
  <1>s. compress' = FALSE /\ prefs' = <<>> /\ SessionTypes'
    BY <1>0, SessionKept
  <1>1. TypeOK' /\ compress' = FALSE /\ prefs' = <<>>
    BY <1>s, SessionSetupAssumption DEF Choose, NullDereference, IInv,
       TypeOK, PcValues, Messages, ServerKinds, Methods, input
  <1>2. Paired'
    BY DEF Choose, NullDereference, IInv, TypeOK, Paired, Pairing, input
  <1>3. Honest'
    BY DEF Choose, NullDereference, IInv, TypeOK, Paired, Pairing, Honest,
       input
  <1>4. Credentials'
    BY DEF Choose, NullDereference, IInv, Credentials, KeyPoints,
       UsePassword, UseKey, PasswordListed, KeyListed, input
  <1>5. ListCauses' /\ CrashCauses'
    BY SessionSetupAssumption DEF Choose, NullDereference, IInv,
       ListCauses, CrashCauses, Honest, Paired, Pairing, PasswordListed,
       KeyListed, UsePassword, TypeOK, ServerKinds, input
  <1>6. LoggedIn'
    BY DEF Choose, NullDereference, IInv, LoggedIn, Honest, Credentials,
       KeyPoints, Paired, Pairing, input
  <1>7. OneCredential'
    BY DEF Choose, NullDereference, IInv, OneCredential, Credentials,
       KeyPoints, UsePassword, UseKey, PasswordListed, KeyListed, input
  <1> QED
    BY <1>1, <1>2, <1>3, <1>4, <1>5, <1>6, <1>7 DEF IInv

(* The login by password.                                                   *)
LEMMA PasswordLoginInv == IInv /\ PasswordLogin => IInv'
  <1> SUFFICES ASSUME IInv, PasswordLogin PROVE IInv'
    OBVIOUS
  <1>0. UNCHANGED session
    BY DEF PasswordLogin, Login, Send, Replied, Take, GiveUp, Broken,
       TimedOut
  <1>s. compress' = FALSE /\ prefs' = <<>> /\ SessionTypes'
    BY <1>0, SessionKept
  <1>w. wire' \in [dir : {"idle", "up", "part", "down"}, msg : Messages]
    BY DEF PasswordLogin, Login, Send, Replied, Take, GiveUp, Broken,
       TimedOut, IInv, TypeOK, Messages
  <1>i. UNCHANGED input /\ lost' = lost
    BY DEF PasswordLogin, Login, Send, Replied, Take, GiveUp, Broken,
       TimedOut
  <1>p. pc' \in PcValues
    BY DEF PasswordLogin, Login, Send, Replied, Take, GiveUp, Broken,
       TimedOut, IInv, TypeOK, PcValues
  <1>b. auth' \in BOOLEAN /\ granted' \in BOOLEAN /\ late' \in BOOLEAN
    BY DEF PasswordLogin, Login, Send, Replied, Take, GiveUp, Broken,
       TimedOut, IInv, TypeOK
  <1>d. disclosed' \subseteq Methods
    BY DEF PasswordLogin, Login, Send, Replied, Take, GiveUp, Broken,
       TimedOut, IInv, TypeOK, Methods
  <1>l. list' = list
    BY DEF PasswordLogin, Login, Send, Replied, Take, GiveUp, Broken,
       TimedOut
  <1>1. TypeOK' /\ compress' = FALSE /\ prefs' = <<>>
    BY <1>s, <1>w, <1>i, <1>p, <1>b, <1>d, <1>l DEF IInv, TypeOK, input
  <1>2. Paired'
    BY DEF PasswordLogin, Login, Send, Replied, Take, GiveUp, Broken,
       TimedOut, IInv, TypeOK, Paired, Pairing, input
  <1>3. Honest'
    BY DEF PasswordLogin, Login, Send, Replied, Take, GiveUp, Broken,
       TimedOut, IInv, TypeOK, Paired, Pairing, Honest, input
  <1>4. Credentials'
    BY DEF PasswordLogin, Login, Send, Replied, Take, GiveUp, Broken,
       TimedOut, IInv, Credentials, KeyPoints, UsePassword, UseKey,
       PasswordListed, KeyListed, input
  <1>5. ListCauses' /\ CrashCauses'
    BY SessionSetupAssumption DEF PasswordLogin, Login, Send, Replied,
       Take, GiveUp, Broken, TimedOut, IInv, ListCauses, CrashCauses,
       Honest, Paired, Pairing, PasswordListed, KeyListed, UsePassword,
       TypeOK, ServerKinds, input
  <1>6. LoggedIn'
    BY DEF PasswordLogin, Login, Send, Replied, Take, GiveUp, Broken,
       TimedOut, IInv, LoggedIn, Honest, Credentials, KeyPoints, Paired,
       Pairing, input
  <1>7. OneCredential'
    BY DEF PasswordLogin, Login, Send, Replied, Take, GiveUp, Broken,
       TimedOut, IInv, OneCredential, Credentials, KeyPoints, UsePassword,
       UseKey, PasswordListed, KeyListed, input
  <1> QED
    BY <1>1, <1>2, <1>3, <1>4, <1>5, <1>6, <1>7 DEF IInv

(* The login by key.                                                        *)
LEMMA KeyLoginInv == IInv /\ KeyLogin => IInv'
  <1> SUFFICES ASSUME IInv, KeyLogin PROVE IInv'
    OBVIOUS
  <1>0. UNCHANGED session
    BY DEF KeyLogin, Login, Raise, Send, Replied, Take, GiveUp, Broken,
       TimedOut
  <1>s. compress' = FALSE /\ prefs' = <<>> /\ SessionTypes'
    BY <1>0, SessionKept
  <1>w. wire' \in [dir : {"idle", "up", "part", "down"}, msg : Messages]
    BY DEF KeyLogin, Login, Raise, Send, Replied, Take, GiveUp, Broken,
       TimedOut, IInv, TypeOK, Messages
  <1>i. UNCHANGED input /\ lost' = lost
    BY DEF KeyLogin, Login, Raise, Send, Replied, Take, GiveUp, Broken,
       TimedOut
  <1>p. pc' \in PcValues
    BY DEF KeyLogin, Login, Raise, Send, Replied, Take, GiveUp, Broken,
       TimedOut, IInv, TypeOK, PcValues
  <1>b. auth' \in BOOLEAN /\ granted' \in BOOLEAN /\ late' \in BOOLEAN
    BY DEF KeyLogin, Login, Raise, Send, Replied, Take, GiveUp, Broken,
       TimedOut, IInv, TypeOK
  <1>d. disclosed' \subseteq Methods
    BY DEF KeyLogin, Login, Raise, Send, Replied, Take, GiveUp, Broken,
       TimedOut, IInv, TypeOK, Methods
  <1>l. list' = list
    BY DEF KeyLogin, Login, Raise, Send, Replied, Take, GiveUp, Broken,
       TimedOut
  <1>1. TypeOK' /\ compress' = FALSE /\ prefs' = <<>>
    BY <1>s, <1>w, <1>i, <1>p, <1>b, <1>d, <1>l DEF IInv, TypeOK, input
  <1>2. Paired'
    BY DEF KeyLogin, Login, Raise, Send, Replied, Take, GiveUp, Broken,
       TimedOut, IInv, TypeOK, Paired, Pairing, input
  <1>3. Honest'
    BY DEF KeyLogin, Login, Raise, Send, Replied, Take, GiveUp, Broken,
       TimedOut, IInv, TypeOK, Paired, Pairing, Honest, input
  <1>4. Credentials'
    BY DEF KeyLogin, Login, Raise, Send, Replied, Take, GiveUp, Broken,
       TimedOut, IInv, Credentials, KeyPoints, UsePassword, UseKey,
       PasswordListed, KeyListed, input
  <1>5. ListCauses' /\ CrashCauses'
    BY SessionSetupAssumption DEF KeyLogin, Login, Raise, Send, Replied,
       Take, GiveUp, Broken, TimedOut, IInv, ListCauses, CrashCauses,
       Honest, Paired, Pairing, PasswordListed, KeyListed, UsePassword,
       TypeOK, ServerKinds, input
  <1>6. LoggedIn'
    BY DEF KeyLogin, Login, Raise, Send, Replied, Take, GiveUp, Broken,
       TimedOut, IInv, LoggedIn, Honest, Credentials, KeyPoints, Paired,
       Pairing, input
  <1>7. OneCredential'
    BY DEF KeyLogin, Login, Raise, Send, Replied, Take, GiveUp, Broken,
       TimedOut, IInv, OneCredential, Credentials, KeyPoints, UsePassword,
       UseKey, PasswordListed, KeyListed, input
  <1> QED
    BY <1>1, <1>2, <1>3, <1>4, <1>5, <1>6, <1>7 DEF IInv

(* The answers of the server.                                               *)
LEMMA AnswerInv == IInv /\ Answer => IInv'
  <1> SUFFICES ASSUME IInv, Answer PROVE IInv'
    OBVIOUS
  <1>0. UNCHANGED session
    BY DEF Answer
  <1>s. compress' = FALSE /\ prefs' = <<>> /\ SessionTypes'
    BY <1>0, SessionKept
  <1>w. wire' \in [dir : {"idle", "up", "part", "down"}, msg : Messages]
    <2>1. PICK msg \in Answers(wire.msg), dir \in {"part", "down"} :
             wire' = Message(dir, msg)
      BY DEF Answer
    <2>2. Answers(wire.msg) \subseteq Messages
      BY AnswersOf DEF Answer, IInv, Paired, Messages
    <2> QED
      BY <2>1, <2>2
  <1>1. TypeOK' /\ compress' = FALSE /\ prefs' = <<>>
    BY <1>s, <1>w, SessionSetupAssumption DEF Answer, IInv, TypeOK,
       PcValues, ServerKinds, Methods, input
  <1>2. Paired'
    BY AnswersOf DEF Answer, IInv, TypeOK, Paired, Pairing, input
  <1>3. Honest'
    <2>1. PICK msg \in Answers(wire.msg), dir \in {"part", "down"} :
             /\ wire' = Message(dir, msg)
             /\ granted' = (granted \/ msg = "success")
      BY DEF Answer
    <2>2. SUFFICES ASSUME msg = "success" PROVE Honest'
      BY <2>1 DEF Honest
    <2>3. /\ pc = "listWait" => wire.msg = "none"
          /\ pc = "passwordWait" => wire.msg = "password"
          /\ pc = "probeWait" => wire.msg = "probe"
          /\ pc = "signedWait" => wire.msg = "signed"
      BY DEF Answer, IInv, Paired, Pairing
    <2> QED
      BY <2>1, <2>2, <2>3, AnswersOf DEF Answer, Honest, input
  <1>4. Credentials'
    BY DEF Answer, IInv, Credentials, KeyPoints, UsePassword, UseKey,
       PasswordListed, KeyListed, input
  <1>5. ListCauses' /\ CrashCauses'
    BY SessionSetupAssumption, AnswersOf DEF Answer, IInv, ListCauses,
       CrashCauses, Honest, Paired, Pairing, PasswordListed, KeyListed,
       UsePassword, TypeOK, ServerKinds, input
  <1>6. LoggedIn'
    BY DEF Answer, IInv, LoggedIn, Honest, Credentials, KeyPoints, Paired,
       Pairing, input
  <1>7. OneCredential'
    BY DEF Answer, IInv, OneCredential, Credentials, KeyPoints,
       UsePassword, UseKey, PasswordListed, KeyListed, input
  <1> QED
    BY <1>1, <1>2, <1>3, <1>4, <1>5, <1>6, <1>7 DEF IInv

(* The arrival of the rest of a reply.                                      *)
LEMMA RestInv == IInv /\ Rest => IInv'
  <1> SUFFICES ASSUME IInv, Rest PROVE IInv'
    OBVIOUS
  <1>0. UNCHANGED session
    BY DEF Rest
  <1>s. compress' = FALSE /\ prefs' = <<>> /\ SessionTypes'
    BY <1>0, SessionKept
  <1>1. TypeOK' /\ compress' = FALSE /\ prefs' = <<>>
    BY <1>s, SessionSetupAssumption DEF Rest, IInv, TypeOK, PcValues,
       Messages, ServerKinds, Methods, input
  <1>2. Paired'
    BY DEF Rest, IInv, TypeOK, Paired, Pairing, input
  <1>3. Honest'
    BY DEF Rest, IInv, TypeOK, Paired, Pairing, Honest, input
  <1>4. Credentials'
    BY DEF Rest, IInv, Credentials, KeyPoints, UsePassword, UseKey,
       PasswordListed, KeyListed, input
  <1>5. ListCauses' /\ CrashCauses'
    BY SessionSetupAssumption DEF Rest, IInv, ListCauses, CrashCauses,
       Honest, Paired, Pairing, PasswordListed, KeyListed, UsePassword,
       TypeOK, ServerKinds, input
  <1>6. LoggedIn'
    BY DEF Rest, IInv, LoggedIn, Honest, Credentials, KeyPoints, Paired,
       Pairing, input
  <1>7. OneCredential'
    BY DEF Rest, IInv, OneCredential, Credentials, KeyPoints, UsePassword,
       UseKey, PasswordListed, KeyListed, input
  <1> QED
    BY <1>1, <1>2, <1>3, <1>4, <1>5, <1>6, <1>7 DEF IInv

(* The passing of time.                                                     *)
LEMMA ElapseInv == IInv /\ Elapse => IInv'
  <1> SUFFICES ASSUME IInv, Elapse PROVE IInv'
    OBVIOUS
  <1>0. UNCHANGED session
    BY DEF Elapse
  <1>s. compress' = FALSE /\ prefs' = <<>> /\ SessionTypes'
    BY <1>0, SessionKept
  <1>1. TypeOK' /\ compress' = FALSE /\ prefs' = <<>>
    BY <1>s, SessionSetupAssumption DEF Elapse, IInv, TypeOK, PcValues,
       Messages, ServerKinds, Methods, input
  <1>2. Paired'
    BY DEF Elapse, IInv, TypeOK, Paired, Pairing, input
  <1>3. Honest'
    BY DEF Elapse, IInv, TypeOK, Paired, Pairing, Honest, input
  <1>4. Credentials'
    BY DEF Elapse, IInv, Credentials, KeyPoints, UsePassword, UseKey,
       PasswordListed, KeyListed, input
  <1>5. ListCauses' /\ CrashCauses'
    BY SessionSetupAssumption DEF Elapse, IInv, ListCauses, CrashCauses,
       Honest, Paired, Pairing, PasswordListed, KeyListed, UsePassword,
       TypeOK, ServerKinds, input
  <1>6. LoggedIn'
    BY DEF Elapse, IInv, LoggedIn, Honest, Credentials, KeyPoints, Paired,
       Pairing, input
  <1>7. OneCredential'
    BY DEF Elapse, IInv, OneCredential, Credentials, KeyPoints,
       UsePassword, UseKey, PasswordListed, KeyListed, input
  <1> QED
    BY <1>1, <1>2, <1>3, <1>4, <1>5, <1>6, <1>7 DEF IInv

(* The loss of the connection.                                              *)
LEMMA LoseInv == IInv /\ Lose => IInv'
  <1> SUFFICES ASSUME IInv, Lose PROVE IInv'
    OBVIOUS
  <1>0. UNCHANGED session
    BY DEF Lose
  <1>s. compress' = FALSE /\ prefs' = <<>> /\ SessionTypes'
    BY <1>0, SessionKept
  <1>1. TypeOK' /\ compress' = FALSE /\ prefs' = <<>>
    BY <1>s, SessionSetupAssumption DEF Lose, IInv, TypeOK, PcValues,
       Messages, ServerKinds, Methods, input
  <1>2. Paired'
    BY DEF Lose, IInv, TypeOK, Paired, Pairing, input
  <1>3. Honest'
    BY DEF Lose, IInv, TypeOK, Paired, Pairing, Honest, input
  <1>4. Credentials'
    BY DEF Lose, IInv, Credentials, KeyPoints, UsePassword, UseKey,
       PasswordListed, KeyListed, input
  <1>5. ListCauses' /\ CrashCauses'
    BY SessionSetupAssumption DEF Lose, IInv, ListCauses, CrashCauses,
       Honest, Paired, Pairing, PasswordListed, KeyListed, UsePassword,
       TypeOK, ServerKinds, input
  <1>6. LoggedIn'
    BY DEF Lose, IInv, LoggedIn, Honest, Credentials, KeyPoints, Paired,
       Pairing, input
  <1>7. OneCredential'
    BY DEF Lose, IInv, OneCredential, Credentials, KeyPoints, UsePassword,
       UseKey, PasswordListed, KeyListed, input
  <1> QED
    BY <1>1, <1>2, <1>3, <1>4, <1>5, <1>6, <1>7 DEF IInv

(* Every step keeps the invariant.                                          *)
LEMMA StepInv == IInv /\ [Next]_vars => IInv'
  <1> SUFFICES ASSUME IInv, [Next]_vars PROVE IInv'
    OBVIOUS
  <1>1. CASE Client
    BY <1>1, HandshakeInv, ServiceInv, AuthListInv, ChooseInv,
       PasswordLoginInv, KeyLoginInv DEF Client
  <1>2. CASE Answer \/ Rest \/ Elapse \/ Lose
    BY <1>2, AnswerInv, RestInv, ElapseInv, LoseInv
  <1>3. CASE UNCHANGED vars
    <2>1. TypeOK' /\ compress' = FALSE /\ prefs' = <<>>
      <3>1. UNCHANGED session /\ UNCHANGED input
        BY <1>3 DEF vars
      <3>2. UNCHANGED <<pc, list, auth, wire, granted, disclosed, late, lost>>
        BY <1>3 DEF vars
      <3>3. compress' = FALSE /\ prefs' = <<>> /\ SessionTypes'
        BY <3>1, SessionKept
      <3> QED
        BY <3>1, <3>2, <3>3 DEF input, IInv, TypeOK
    <2> QED
      BY <1>3, <2>1
         DEF vars, input, session, IInv, Paired, Pairing, Honest, Credentials,
             ListCauses, LoggedIn, OneCredential, CrashCauses, UsePassword,
             UseKey, PasswordListed, KeyListed
  <1> QED
    BY <1>1, <1>2, <1>3 DEF Next

(* The inductive invariant holds in every reachable state.                  *)
THEOREM Invariance == Spec => []IInv
  BY InitInv, StepInv, PTL DEF Spec

(* The session, the list and the replies have their types, and the          *)
(* compression agreed on is one that libssh2 supports.                      *)
THEOREM TypeCorrect == Spec => []TypeOK
  <1>1. IInv => TypeOK
    BY DEF IInv
  <1> QED
    BY Invariance, <1>1, PTL

(* Commands are run only on a session both ends hold to be logged in.       *)
THEOREM CommandsAreLoggedIn == Spec => []LoggedIn
  <1>1. IInv => LoggedIn
    BY DEF IInv
  <1> QED
    BY Invariance, <1>1, PTL

(* A credential is used only if it was given and asked for, and one at most.*)
THEOREM CredentialsSpared == Spec => []OneCredential
  <1>1. IInv => OneCredential
    BY DEF IInv
  <1> QED
    BY Invariance, <1>1, PTL

(* The login crashes for one of the listed causes only.                     *)
THEOREM CrashesExplained == Spec => []CrashCauses
  <1>1. IInv => CrashCauses
    BY DEF IInv
  <1> QED
    BY Invariance, <1>1, PTL

(* userauth.c and session_startup wait for the answer to the request they   *)
(* sent last: whatever was late, split or given up before, what is under    *)
(* way at a wait is that request or a reply that this wait understands.     *)
THEOREM RepliesAreOwn == Spec => []Paired
  <1>1. IInv => Paired
    BY DEF IInv
  <1> QED
    BY Invariance, <1>1, PTL

=============================================================================
