----------------------------- MODULE MCUdpSocket -----------------------------
EXTENDS UdpSocket

\* Block, poll, a wait below a second and one above.
MCTimeoutMs == {-1, 0, 300, 1300}
=============================================================================
