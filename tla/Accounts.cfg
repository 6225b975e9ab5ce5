\* Two requests at a time, two phones, two users and two tokens:
\* registrations, logins and resets overlap with the end and the check of a
\* session.  One password is enough: no request reads it.
CONSTANTS
    Calls = {h1, h2}
    Phones = {p1, p2}
    Passwords = {w1}
    NoCall = NoCall
    NoPhone = NoPhone
    MaxUid = 2
    MaxTok = 2
SYMMETRY Alike
SPECIFICATION Spec
INVARIANTS SessionsOwned AnsweredLasts
PROPERTIES ImplementsSessions
