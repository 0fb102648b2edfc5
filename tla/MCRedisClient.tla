---------------------------- MODULE MCRedisClient ----------------------------
EXTENDS RedisClient

CONSTANTS server, io1, io2, alice, bob

Threads == {io1, io2}
Users   == {alice, bob}
Alice   == {alice}
=============================================================================
