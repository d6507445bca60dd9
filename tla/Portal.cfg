SPECIFICATION Spec
CONSTANTS
    Symbols = {"n", "-"}
    CRLF = "n"
    Boundary <- EqualPair
    MaxBody = 12
    UPLOAD_CHUNK = 6
    PART_HEADER_MAX = 5
    PartitionSize = 4
    MAX_FORM_BODY = 7
    MAX_RECV_TIMEOUTS = 3
    FORM_BODY_DEADLINE = 15
    RECV_WAIT = 5
    DNS_BUFFER_SIZE = 96
    DNS_HEADER_SIZE = 12
    DNS_ANSWER_SIZE = 16
    Labels = {1, 2, 3, 4, 5, 6, 7, 8, 9, 10, 11, 12, 13, 14, 15, 16, 31, 32, 62, 63}
    MaxText = 2
    SOURCE_SIZE = 5
    HOST_SIZE = 2
CHECK_DEADLOCK FALSE
INVARIANTS WrittenIsImage WholeBodyInTime StaysInBuffers TextsSurvive SignInSticks RedirectsEnd
