\* What the comment on url_decode says.
SPECIFICATION Spec
CONSTANTS
    Uris <- MCUris
    Openable <- MCOpenable
INVARIANT
    InvalidIsRefused
CHECK_DEADLOCK FALSE
